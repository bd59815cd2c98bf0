----------------------------- MODULE InputProofs ----------------------------
(***************************************************************************)
(* For every keymap, with codes that overlap as they may, every clock and    *)
(* every length of the queue: the states of keys and mouse, the mask and the *)
(* timers agree; chords and clicks are reported once and holds not early;    *)
(* no bit of the mask outlives its keys.                                     *)
(***************************************************************************)
EXTENDS Input, TLAPS, WellFoundedInduction, SequenceTheorems

Reports == {"MOUSE_PRESS", "MOUSE_HOLD"}
Names ==
    Reports \cup {"NONE", "OTHER", "SCROLL", "CHAR_PRESS", "KEY_DOWN", "KEY_UP", "KEY_PRESS", "KEY_HOLD",
                  "MOUSE_DOWN", "MOUSE_UP", "MOUSE_MOVE", "MOUSE_DRAG"}
Events == [type : Names] \cup [type : Names, code : Codes]
Messages ==
    [type : {"WHEEL", "QUIT"}]
        \cup [type : {"KEYDOWN", "KEYUP"}, sym : Syms, mod : Mods]
        \cup [type : {"BUTTONDOWN", "BUTTONUP", "MOTION"}, button : Buttons \cup {"wheel", "none"}]
        \cup [type : {"USER"}, event : Events]

UiType ==
    [ key_state : KeyStates, key_mask : Codes, key_timeout : Clock,
      mouse_state : KeyStates, mouse_timeout : Clock, mouse_long_timeout : Clock,
      pointer_timeout : Clock, pointer : BOOLEAN ]

UiAgrees(u) ==
    /\ u \in UiType
    /\ u.key_state = "NONE" <=> u.key_mask = {}
    /\ u.key_timeout # 0 => u.key_state = "DOWN"
    /\ u.mouse_timeout # 0 => u.mouse_state = "DOWN"
    /\ u.mouse_long_timeout # 0 => u.mouse_state # "NONE"

QueueFits(q) == q \in Seq(Messages) /\ Len(q) <= QueueMax

\* What a step works on, in the middle of its work
HistType ==
    [ keyAge : Nat, mouseAge : Nat, keyWrapped : BOOLEAN, mouseWrapped : BOOLEAN,
      lost : BOOLEAN, chord : Seq(Events), click : Seq(Reports) ]

Sound(s) ==
    /\ s \in [ui : UiType, queue : Seq(Messages), sent : Seq(Events), hist : HistType]
    /\ UiAgrees(s.ui) /\ QueueFits(s.queue)

\* The inductive invariant
IInv ==
    /\ UiAgrees(ui) /\ QueueFits(queue) /\ hist \in HistType
    /\ now \in Clock /\ phase \in {"between", "events", "stopped"} /\ quit \in BOOLEAN
    /\ held \in SUBSET (Syms \cup Buttons) /\ inputs \in 0 .. MaxInputs

-----------------------------------------------------------------------------
(* The clock and the keymap *)

LEMMA Remainder == \A n \in Nat, m \in Nat \ {0} : n % m \in 0 .. m - 1
OBVIOUS

LEMMA AfterType == ASSUME now \in Clock, NEW t \in Nat PROVE After(t) \in Clock
<1>1. ClockMod \in Nat \ {0} /\ now + t \in Nat
  BY TimesAssumption DEF Clock
<1>. QED  BY <1>1, Remainder DEF After, Clock

LEMMA TimeoutType == HOLD_TIMEOUT \in Nat /\ LONG_HOLD_TIMEOUT \in Nat /\ POINTER_TIMEOUT \in Nat
<1>1. {HOLD_TIMEOUT, LONG_HOLD_TIMEOUT, POINTER_TIMEOUT} \subseteq 0 .. ClockMod - 1
  BY TimesAssumption
<1>. QED  BY <1>1, TimesAssumption

LEMMA Smallest == ASSUME NEW T \in SUBSET Nat, T # {} PROVE \E i \in T : \A j \in T : i <= j
<1> DEFINE R == OpToRel(<, Nat)
<1>1. \A x \in T, y \in T : <<y, x>> \in R <=> y < x
  BY DEF OpToRel
<1>2. IsWellFoundedOn(R, Nat)
  BY NatLessThanWellFounded
<1> HIDE DEF R
<1>3. \E x \in T : \A y \in T : ~(<<y, x>> \in R)
  BY <1>2, WFMin
<1>4. \E x \in T : \A y \in T : ~(y < x)
  BY <1>1, <1>3
<1>. QED  BY <1>4

\* What is found in the keymap is the code of an entry, never empty.
LEMMA CodeType ==
    ASSUME NEW s, NEW e, Found(s, e) # {}
    PROVE  Code(s, e) \in (SUBSET Bits) \ {{}}
<1>1. Found(s, e) \subseteq DOMAIN Keymap /\ DOMAIN Keymap \subseteq Nat
  BY KeymapAssumption DEF Found
<1>2. \E i \in Found(s, e) : \A j \in Found(s, e) : i <= j
  BY <1>1, Smallest
<1>3. PICK i \in DOMAIN Keymap : Code(s, e) = Keymap[i].code
  BY <1>1, <1>2 DEF Code
<1> DEFINE Entries == [sym : Syms, mod : Mods \cup {AnyMod}, code : (SUBSET Bits) \ {{}}]
<1>4. Keymap \in Seq(Entries)
  BY KeymapAssumption
<1> HIDE DEF Entries
<1>5. Keymap[i] \in Entries
  BY <1>4
<1>. QED  BY <1>3, <1>5 DEF Entries

-----------------------------------------------------------------------------
(* The parts of a step *)

LEMMA EventTypes == \A type \in Names : Event(type) \in Events
BY DEF Event, Events

LEMMA KeyEventTypes ==
    ASSUME NEW code \in Codes
    PROVE  \A type \in {"KEY_DOWN", "KEY_UP", "KEY_PRESS", "KEY_HOLD"} : KeyEvent(type, code) \in Events
BY DEF KeyEvent, Events, Names

LEMMA SomeEvent == Event("NONE") \in Events
BY EventTypes DEF Names

LEMMA DispatchSound ==
    ASSUME NEW s, Sound(s), NEW e \in Events
    PROVE  Sound(Dispatch(s, e))
<1>1. Append(s.sent, e) \in Seq(Events)
  BY DEF Sound
<1>. QED  BY <1>1 DEF Sound, Dispatch

\* A step that changes ui and history only
LEMMA UpdateSound ==
    ASSUME NEW s, Sound(s), NEW u, UiAgrees(u), NEW h \in HistType
    PROVE  Sound([s EXCEPT !.ui = u, !.hist = h])
BY DEF Sound, UiAgrees

LEMMA PushSound ==
    ASSUME NEW s, Sound(s), NEW e \in Messages
    PROVE  Sound(Push(s, e))
<1>1. CASE Len(s.queue) < QueueMax
  <2>1. Append(s.queue, e) \in Seq(Messages) /\ Len(Append(s.queue, e)) = Len(s.queue) + 1
    BY DEF Sound, QueueFits
  <2>2. QueueFits(Append(s.queue, e))
    BY <1>1, <2>1, BoundAssumption DEF Sound, QueueFits
  <2>. QED  BY <1>1, <2>2 DEF Sound, Push
<1>2. CASE ~(Len(s.queue) < QueueMax)
  <2>1. [s.hist EXCEPT !.lost = TRUE] \in HistType
    BY DEF Sound, HistType
  <2>. QED  BY <1>2, <2>1 DEF Sound, Push
<1>. QED  BY <1>1, <1>2

LEMMA ReportSound ==
    ASSUME NEW s, Sound(s), NEW e \in Events, NEW type \in Reports
    PROVE  Sound(ReportKey(s, e)) /\ Sound(ReportMouse(s, type))
<1>1. Append(s.hist.chord, e) \in Seq(Events) /\ Append(s.hist.click, type) \in Seq(Reports)
  BY DEF Sound, HistType
<1>2. /\ [s.hist EXCEPT !.chord = Append(@, e)] \in HistType
      /\ [s.hist EXCEPT !.click = Append(@, type)] \in HistType
  BY <1>1 DEF Sound, HistType
<1>3. Sound([s EXCEPT !.hist.chord = Append(@, e)]) /\ Sound([s EXCEPT !.hist.click = Append(@, type)])
  BY <1>2 DEF Sound
<1>4. Event(type) \in Events
  BY EventTypes DEF Names
<1>. QED  BY <1>3, <1>4, DispatchSound DEF ReportKey, ReportMouse

-----------------------------------------------------------------------------
(* process_timers: a timer that expires stops, and what it reports it reports once *)

LEMMA ClockZero == 0 \in Clock
BY TimesAssumption DEF Clock

\* Types of what stands in the middle of a step
LEMMA SoundTypes ==
    ASSUME NEW s, Sound(s)
    PROVE  /\ s.ui \in UiType /\ UiAgrees(s.ui) /\ s.hist \in HistType
           /\ s = [s EXCEPT !.ui = s.ui, !.hist = s.hist]
BY DEF Sound

LEMMA HidePointerSound == ASSUME NEW s, Sound(s), NEW t PROVE Sound(HidePointer(s, t))
BY ClockZero DEF Sound, HidePointer, UiAgrees, UiType

LEMMA MouseHoldSound == ASSUME NEW s, Sound(s), NEW t PROVE Sound(MouseHold(s, t))
<1> DEFINE u == [s.ui EXCEPT !.mouse_timeout = 0]
           v == [u EXCEPT !.mouse_state = "SENT"]
<1>1. CASE Expired(s.ui.mouse_timeout, t)
  <2>1. s.ui.mouse_state = "DOWN"
    BY <1>1 DEF Expired, Sound, UiAgrees
  <2>2. u \in UiType /\ v \in UiType
    BY ClockZero, SoundTypes DEF UiType, KeyStates
  <2>3. UiAgrees(u) /\ UiAgrees(v)
    BY <2>1, <2>2, SoundTypes DEF UiAgrees, UiType
  <2>4. Sound([s EXCEPT !.ui = v])
    BY <2>2, <2>3 DEF Sound
  <2>5. MouseHold(s, t) = ReportMouse([s EXCEPT !.ui = v], "MOUSE_HOLD")
    BY <1>1, <2>1 DEF MouseHold, Sound
  <2>. QED  BY <2>4, <2>5, ReportSound, SomeEvent DEF Reports
<1>2. CASE ~Expired(s.ui.mouse_timeout, t)
  BY <1>2 DEF MouseHold
<1>. QED  BY <1>1, <1>2

LEMMA MouseLongHoldSound == ASSUME NEW s, Sound(s), NEW t PROVE Sound(MouseLongHold(s, t))
<1> DEFINE u == [s.ui EXCEPT !.mouse_long_timeout = 0]
<1>1. u \in UiType
  BY ClockZero, SoundTypes DEF UiType
<1>2. UiAgrees(u)
  BY <1>1, SoundTypes DEF UiAgrees, UiType
<1>3. Sound([s EXCEPT !.ui = u])
  BY <1>1, <1>2 DEF Sound
<1> HIDE DEF u
<1>4. MouseLongHold(s, t) \in {s, [s EXCEPT !.ui = u], ReportMouse([s EXCEPT !.ui = u], "MOUSE_HOLD")}
  BY DEF MouseLongHold, u
<1>. QED  BY <1>3, <1>4, ReportSound, SomeEvent DEF Reports

\* The timer runs only while a key is down: there is something to hold.
LEMMA KeyHoldSound == ASSUME NEW s, Sound(s), NEW t PROVE Sound(KeyHold(s, t))
<1> DEFINE u == [s.ui EXCEPT !.key_timeout = 0, !.key_state = "SENT"]
<1>1. CASE Expired(s.ui.key_timeout, t)
  <2>1. s.ui.key_mask # {}
    BY <1>1, SoundTypes DEF Expired, UiAgrees
  <2>2. u \in UiType
    BY ClockZero, SoundTypes DEF UiType, KeyStates
  <2>3. UiAgrees(u)
    BY <2>1, <2>2, SoundTypes DEF UiAgrees, UiType
  <2>4. Sound([s EXCEPT !.ui = u])
    BY <2>2, <2>3 DEF Sound
  <2> HIDE DEF u
  <2>5. KeyHold(s, t) = ReportKey([s EXCEPT !.ui = u], KeyEvent("KEY_HOLD", s.ui.key_mask))
    BY <1>1 DEF KeyHold, Sound, u
  <2>6. KeyEvent("KEY_HOLD", s.ui.key_mask) \in Events
    BY KeyEventTypes, SoundTypes DEF UiType
  <2>. QED  BY <2>4, <2>5, <2>6, ReportSound DEF Reports
<1>2. CASE ~Expired(s.ui.key_timeout, t)
  BY <1>2 DEF KeyHold
<1>. QED  BY <1>1, <1>2

LEMMA ProcessTimersSound == ASSUME NEW s, Sound(s), NEW t PROVE Sound(ProcessTimers(s, t))
BY HidePointerSound, MouseHoldSound, MouseLongHoldSound, KeyHoldSound DEF ProcessTimers

-----------------------------------------------------------------------------
(* process_event *)

LEMMA MouseDownSound == ASSUME NEW s, Sound(s), now \in Clock, NEW b PROVE Sound(MouseDown(s, b))
<1> DEFINE u == [s.ui EXCEPT !.mouse_state = "DOWN",
                             !.mouse_timeout = After(HOLD_TIMEOUT),
                             !.mouse_long_timeout = After(LONG_HOLD_TIMEOUT)]
           h == [s.hist EXCEPT !.mouseAge = 0, !.click = <<>>,
                               !.mouseWrapped = Wraps(LONG_HOLD_TIMEOUT)]
<1>1. After(HOLD_TIMEOUT) \in Clock /\ After(LONG_HOLD_TIMEOUT) \in Clock
  BY AfterType, TimeoutType
<1>2. u \in UiType
  BY <1>1, SoundTypes DEF UiType, KeyStates
<1>3. UiAgrees(u)
  BY <1>2, SoundTypes DEF UiAgrees, UiType
<1>4. h \in HistType
  <2>1. Wraps(LONG_HOLD_TIMEOUT) \in BOOLEAN /\ <<>> \in Seq(Reports)
    BY DEF Wraps
  <2>. QED  BY <2>1, SoundTypes DEF HistType
<1>5. Sound([s EXCEPT !.ui = u, !.hist = h])
  BY <1>3, <1>4, UpdateSound
<1>6. Event("MOUSE_DOWN") \in Events
  BY EventTypes DEF Names
<1>7. \/ MouseDown(s, b) \in {Dispatch(s, Event("MOUSE_DOWN")), Dispatch(s, Event("NONE"))}
      \/ MouseDown(s, b) \in {Dispatch([s EXCEPT !.ui = u, !.hist = h], Event("MOUSE_DOWN")),
                               Dispatch([s EXCEPT !.ui = u, !.hist = h], Event("NONE"))}
  BY DEF MouseDown, Sound
<1>. QED  BY <1>5, <1>6, <1>7, SomeEvent, DispatchSound

LEMMA MouseUpSound == ASSUME NEW s, Sound(s), NEW b PROVE Sound(MouseUp(s, b))
<1> DEFINE r == IF s.ui.mouse_state = "DOWN" THEN ReportMouse(s, "MOUSE_PRESS") ELSE s
           u == [r.ui EXCEPT !.mouse_timeout = 0, !.mouse_long_timeout = 0, !.mouse_state = "NONE"]
<1>1. Sound(r)
  BY ReportSound, SomeEvent DEF Reports
<1> HIDE DEF r
<1>2. u \in UiType
  BY <1>1, ClockZero, SoundTypes DEF UiType, KeyStates
<1>3. UiAgrees(u)
  BY <1>1, <1>2, SoundTypes DEF UiAgrees, UiType
<1>4. Sound([r EXCEPT !.ui = u])
  BY <1>1, <1>2, <1>3 DEF Sound
<1>5. Event("MOUSE_UP") \in Events
  BY EventTypes DEF Names
<1>6. MouseUp(s, b) \in {Dispatch([r EXCEPT !.ui = u], Event("MOUSE_UP")),
                         Dispatch([r EXCEPT !.ui = u], Event("NONE"))}
  BY <1>1 DEF MouseUp, Sound, r
<1>. QED  BY <1>4, <1>5, <1>6, SomeEvent, DispatchSound

LEMMA MouseMotionSound ==
    ASSUME NEW s, Sound(s), now \in Clock, NEW leftDown PROVE Sound(MouseMotion(s, leftDown))
<1> DEFINE r == [s EXCEPT !.ui.pointer = @ \/ s.ui.pointer_timeout = 0,
                       !.ui.pointer_timeout = After(POINTER_TIMEOUT)]
<1>1. After(POINTER_TIMEOUT) \in Clock
  BY AfterType, TimeoutType
<1>2. (s.ui.pointer \/ s.ui.pointer_timeout = 0) \in BOOLEAN
  OBVIOUS
<1>3. Sound(r)
  BY <1>1, <1>2 DEF Sound, UiAgrees, UiType
<1> HIDE DEF r
<1>4. {Event("MOUSE_MOVE"), Event("MOUSE_DRAG"), Event("NONE")} \subseteq Events
  BY EventTypes DEF Names
<1>5. \E e \in Events : MouseMotion(s, leftDown) = Dispatch(r, e)
  BY <1>4 DEF MouseMotion, r
<1>. QED  BY <1>3, <1>5, DispatchSound

\* A code is not empty: a key that is down is in the mask.
LEMMA KeyDownSound ==
    ASSUME NEW s, Sound(s), now \in Clock, NEW code \in (SUBSET Bits) \ {{}}
    PROVE  Sound(KeyDown(s, code))
<1> DEFINE fresh == s.ui.key_mask = {}
           u == [s.ui EXCEPT !.key_state = "DOWN", !.key_mask = @ \cup code,
                             !.key_timeout = After(HOLD_TIMEOUT)]
           h == [s.hist EXCEPT !.keyAge = 0, !.keyWrapped = Wraps(HOLD_TIMEOUT),
                               !.chord = IF fresh THEN <<>> ELSE @]
<1>1. After(HOLD_TIMEOUT) \in Clock
  BY AfterType, TimeoutType
<1>2. s.ui.key_mask \cup code \in Codes /\ s.ui.key_mask \cup code # {}
  <2>1. s.ui.key_mask \in SUBSET Bits
    BY SoundTypes DEF UiType, Codes
  <2>. QED  BY <2>1 DEF Codes
<1>3. u \in UiType
  BY <1>1, <1>2, SoundTypes DEF UiType, KeyStates
<1>4. UiAgrees(u)
  <2>1. u.key_mask # {} /\ u.key_state = "DOWN"
    BY <1>2, SoundTypes DEF UiType
  <2>2. /\ u.mouse_timeout = s.ui.mouse_timeout /\ u.mouse_state = s.ui.mouse_state
        /\ u.mouse_long_timeout = s.ui.mouse_long_timeout
    BY SoundTypes DEF UiType
  <2>. QED  BY <1>3, <2>1, <2>2, SoundTypes DEF UiAgrees
<1>5. h \in HistType
  <2>1. Wraps(HOLD_TIMEOUT) \in BOOLEAN /\ <<>> \in Seq(Events)
    BY DEF Wraps
  <2>. QED  BY <2>1, SoundTypes DEF HistType
<1>6. Sound([s EXCEPT !.ui = u, !.hist = h])
  BY <1>4, <1>5, UpdateSound
<1>7. KeyEvent("KEY_DOWN", code) \in Events
  BY KeyEventTypes DEF Codes
<1>8. KeyDown(s, code) \in {s, Dispatch(s, Event("NONE")),
                            Dispatch([s EXCEPT !.ui = u, !.hist = h], KeyEvent("KEY_DOWN", code))}
  BY DEF KeyDown, Sound
<1>. QED  BY <1>6, <1>7, <1>8, SomeEvent, DispatchSound

\* The state forgets a chord with its last bit.
LEMMA ReleasedSound ==
    ASSUME NEW s, Sound(s), NEW code \in SUBSET Bits
    PROVE  Sound(Released(s, code))
<1> DEFINE left == s.ui.key_mask \ code
           u == [s.ui EXCEPT !.key_timeout = 0, !.key_mask = left,
                             !.key_state = IF left = {} THEN "NONE" ELSE "SENT"]
<1>1. left \in Codes
  <2>1. s.ui.key_mask \in SUBSET Bits
    BY SoundTypes DEF UiType, Codes
  <2>. QED  BY <2>1 DEF Codes
<1>2. Released(s, code) = [s EXCEPT !.ui = u]
  BY DEF Released, Sound
<1> HIDE DEF left
<1>3. u \in UiType
  BY <1>1, ClockZero, SoundTypes DEF UiType, KeyStates
<1>4. UiAgrees(u)
  BY <1>3, SoundTypes DEF UiAgrees, UiType
<1>. QED  BY <1>2, <1>3, <1>4 DEF Sound

LEMMA KeyUpSound ==
    ASSUME NEW s, Sound(s), NEW code \in SUBSET Bits
    PROVE  Sound(KeyUp(s, code))
<1> DEFINE up == KeyEvent("KEY_UP", code)
<1>1. up \in Events
  BY KeyEventTypes DEF Codes
<1> HIDE DEF up
<1>2. User(up) \in Messages
  BY <1>1 DEF User, Messages
<1>3. Sound(Released(s, code))
  BY ReleasedSound
<1>4. Sound(Push(Released(s, code), User(up)))
  BY <1>2, <1>3, PushSound
<1>5. KeyEvent("KEY_PRESS", s.ui.key_mask) \in Events
  BY KeyEventTypes, SoundTypes DEF UiType
<1>6. KeyUp(s, code) \in {Dispatch(Released(s, code), up),
                          ReportKey(Push(Released(s, code), User(up)), KeyEvent("KEY_PRESS", s.ui.key_mask))}
  BY DEF KeyUp, up
<1>. QED  BY <1>1, <1>3, <1>4, <1>5, <1>6, DispatchSound, ReportSound, SomeEvent DEF Reports

LEMMA ProcessKeySound ==
    ASSUME NEW s, Sound(s), now \in Clock, NEW e PROVE Sound(ProcessKey(s, e))
<1>1. Event("NONE") \in Events /\ Event("CHAR_PRESS") \in Events
  BY EventTypes DEF Names
<1>2. CASE Found(s, e) = {}
  BY <1>1, <1>2, DispatchSound DEF ProcessKey
<1>3. CASE Found(s, e) # {}
  <2>1. Code(s, e) \in (SUBSET Bits) \ {{}}
    BY <1>3, CodeType
  <2>2. Sound(KeyDown(s, Code(s, e))) /\ Sound(KeyUp(s, Code(s, e)))
    BY <2>1, KeyDownSound, KeyUpSound
  <2>3. KeyEvent("KEY_PRESS", Code(s, e)) \in Events
    BY <2>1, KeyEventTypes DEF Codes
  <2>. QED  BY <1>1, <1>3, <2>2, <2>3, DispatchSound DEF ProcessKey
<1>. QED  BY <1>2, <1>3

LEMMA ProcessEventSound ==
    ASSUME NEW s, Sound(s), now \in Clock, NEW e \in Messages PROVE Sound(ProcessEvent(s, e))
<1>1. e.type \in {"WHEEL", "QUIT", "KEYDOWN", "KEYUP", "BUTTONDOWN", "BUTTONUP", "MOTION", "USER"}
  BY DEF Messages
<1>2. Event("SCROLL") \in Events /\ (e.type = "USER" => e.event \in Events)
  BY EventTypes DEF Names, Messages
<1>3. CASE e.type \in {"WHEEL", "QUIT", "USER"}
  BY <1>2, <1>3, DispatchSound DEF ProcessEvent
<1>4. CASE e.type \in {"KEYDOWN", "KEYUP"}
  BY <1>4, ProcessKeySound DEF ProcessEvent
<1>5. CASE e.type \in {"BUTTONDOWN", "BUTTONUP", "MOTION"}
  BY <1>5, MouseDownSound, MouseUpSound, MouseMotionSound DEF ProcessEvent
<1>. QED  BY <1>1, <1>3, <1>4, <1>5

-----------------------------------------------------------------------------
(* The actions *)

LEMMA InitInv == Init => IInv
<1> SUFFICES ASSUME Init PROVE IInv
  OBVIOUS
<1>1. ui \in UiType /\ UiAgrees(ui)
  BY ClockZero DEF Init, UiAgrees, UiType, KeyStates, Codes
<1>2. <<>> \in Seq(Messages) /\ Len(<<>>) = 0
  OBVIOUS
<1>3. queue = <<>>
  BY DEF Init
<1>4. QueueFits(queue)
  BY <1>2, <1>3, BoundAssumption DEF QueueFits
<1>5. now \in Clock /\ phase \in {"between", "events", "stopped"} /\ quit \in BOOLEAN
      /\ held \in SUBSET (Syms \cup Buttons) /\ inputs \in 0 .. MaxInputs
  <2>1. 0 \in 0 .. MaxInputs
    BY BoundAssumption
  <2>. QED  BY <2>1 DEF Init
<1>6. hist \in HistType
  <2>1. <<>> \in Seq(Events) /\ <<>> \in Seq(Reports)
    OBVIOUS
  <2>. QED  BY <2>1 DEF Init, HistType
<1>. QED  BY <1>1, <1>4, <1>5, <1>6 DEF IInv

\* What a step begins and ends with
LEMMA StepSound ==
    ASSUME IInv
    PROVE  /\ Sound(S)
           /\ \A s : Sound(s) /\ Step(s) => UiAgrees(ui') /\ QueueFits(queue') /\ hist' \in HistType
<1>1. <<>> \in Seq(Events)
  OBVIOUS
<1>2. ui \in UiType /\ queue \in Seq(Messages) /\ hist \in HistType
  BY DEF IInv, UiAgrees, QueueFits
<1>3. Sound(S)
  BY <1>1, <1>2 DEF IInv, Sound, S
<1>. QED  BY <1>3 DEF Sound, Step

LEMMA OlderSound == ASSUME IInv, NEW d \in FrameTimes PROVE Sound(Older(S, d))
<1> DEFINE older(age) == IF age + d > HOLD_TIMEOUT THEN HOLD_TIMEOUT + 1 ELSE age + d
           h == [hist EXCEPT !.keyAge = IF ui.key_timeout = 0 THEN @ ELSE older(@),
                             !.mouseAge = IF ui.mouse_timeout = 0 THEN @ ELSE older(@)]
<1>1. \A age \in Nat : older(age) \in Nat
  BY TimesAssumption, TimeoutType
<1> HIDE DEF older
<1>2. h \in HistType
  BY <1>1 DEF IInv, HistType
<1>3. Older(S, d) = [S EXCEPT !.hist = h]
  BY DEF Older, S, older
<1>. QED  BY <1>2, <1>3, StepSound DEF Sound

LEMMA StartFrameInv == IInv /\ StartFrame => IInv'
<1> SUFFICES ASSUME IInv, StartFrame PROVE IInv'
  OBVIOUS
<1>1. PICK d \in FrameTimes : now' = (now + d) % ClockMod /\ Step(ProcessTimers(Older(S, d), now'))
  BY DEF StartFrame
<1>2. now' \in Clock
  <2>1. now + d \in Nat /\ ClockMod \in Nat \ {0}
    BY TimesAssumption DEF IInv, Clock
  <2>. QED  BY <1>1, <2>1, Remainder DEF Clock
<1>3. Sound(Older(S, d))
  BY OlderSound
<1>4. Sound(ProcessTimers(Older(S, d), now'))
  BY <1>3, ProcessTimersSound
<1>5. UiAgrees(ui') /\ QueueFits(queue') /\ hist' \in HistType
  BY <1>1, <1>4, StepSound
<1>. QED  BY <1>2, <1>5 DEF IInv, StartFrame

LEMMA TakeEventInv == IInv /\ TakeEvent => IInv'
<1> SUFFICES ASSUME IInv, TakeEvent PROVE IInv'
  OBVIOUS
<1> DEFINE s == [S EXCEPT !.queue = Tail(queue)]
<1>1. Head(queue) \in Messages /\ Tail(queue) \in Seq(Messages) /\ Len(Tail(queue)) = Len(queue) - 1
  BY DEF IInv, QueueFits, TakeEvent
<1>2. QueueFits(Tail(queue))
  BY <1>1, BoundAssumption DEF IInv, QueueFits, TakeEvent
<1>3. Sound(s)
  BY <1>1, <1>2, StepSound DEF Sound, S
<1> HIDE DEF s
<1>4. Sound(ProcessEvent(s, Head(queue)))
  BY <1>1, <1>3, ProcessEventSound DEF IInv
<1>5. Step(ProcessEvent(s, Head(queue)))
  BY DEF TakeEvent, s
<1>6. UiAgrees(ui') /\ QueueFits(queue') /\ hist' \in HistType
  BY <1>4, <1>5, StepSound
<1>. QED  BY <1>6 DEF IInv, TakeEvent

\* An input pushes events, and counts.
LEMMA InputInv ==
    ASSUME IInv, NEW s, Sound(s), Input(s), held' \in SUBSET (Syms \cup Buttons)
    PROVE  IInv'
<1>1. UiAgrees(ui') /\ QueueFits(queue') /\ hist' \in HistType
  BY StepSound DEF Input
<1>2. inputs' \in 0 .. MaxInputs
  BY BoundAssumption DEF Input, IInv
<1>. QED  BY <1>1, <1>2 DEF Input, IInv

LEMMA EnvironmentInv == IInv /\ Environment => IInv'
<1> SUFFICES ASSUME IInv, Environment PROVE IInv'
  OBVIOUS
<1>1. \A e \in Messages : Sound(Push(S, e))
  BY StepSound, PushSound
<1>2. held \in SUBSET (Syms \cup Buttons)
  BY DEF IInv
<1>3. ASSUME NEW p \in Presses, PressKey(p.sym, p.mod) \/ ReleaseKey(p.sym, p.mod) PROVE IInv'
  <2>1. p.sym \in Syms /\ p.mod \in Mods
    BY KeymapAssumption
  <2>2. Key("KEYDOWN", p.sym, p.mod) \in Messages /\ Key("KEYUP", p.sym, p.mod) \in Messages
    BY <2>1 DEF Key, Messages
  <2>3. held' \in SUBSET (Syms \cup Buttons)
    BY <1>2, <1>3, <2>1 DEF PressKey, ReleaseKey
  <2>4. CASE PressKey(p.sym, p.mod)
    BY <1>1, <2>2, <2>3, <2>4, InputInv DEF PressKey
  <2>5. CASE ReleaseKey(p.sym, p.mod)
    BY <1>1, <2>2, <2>3, <2>5, InputInv DEF ReleaseKey
  <2>. QED  BY <1>3, <2>4, <2>5
<1>4. ASSUME NEW b \in Buttons, PressButton(b) \/ ReleaseButton(b) PROVE IInv'
  <2>1. Button("BUTTONDOWN", b) \in Messages /\ Button("BUTTONUP", b) \in Messages
    BY DEF Button, Messages
  <2>2. held' \in SUBSET (Syms \cup Buttons)
    BY <1>2, <1>4 DEF PressButton, ReleaseButton
  <2>3. CASE PressButton(b)
    BY <1>1, <2>1, <2>2, <2>3, InputInv DEF PressButton
  <2>4. CASE ReleaseButton(b)
    BY <1>1, <2>1, <2>2, <2>4, InputInv DEF ReleaseButton
  <2>. QED  BY <1>4, <2>3, <2>4
<1>5. CASE Wheel
  <2>1. Sdl("WHEEL") \in Messages /\ Button("BUTTONUP", "wheel") \in Messages
    BY DEF Sdl, Button, Messages
  <2>2. Sound(Push(Push(S, Sdl("WHEEL")), Button("BUTTONUP", "wheel")))
    BY <1>1, <2>1, PushSound
  <2>. QED  BY <1>2, <1>5, <2>2, InputInv DEF Wheel
<1>6. CASE Move \/ PushEvent \/ Quit
  <2>1. Button("MOTION", IF "left" \in held THEN "left" ELSE "none") \in Messages
    BY DEF Button, Messages, Buttons
  <2>2. User(Event("OTHER")) \in Messages /\ Sdl("QUIT") \in Messages
    <3>1. Event("OTHER") \in Events
      BY EventTypes DEF Names
    <3>2. User(Event("OTHER")) \in Messages
      BY <3>1 DEF User, Messages
    <3>. QED  BY <3>2 DEF Sdl, Messages
  <2>3. held' \in SUBSET (Syms \cup Buttons)
    BY <1>2, <1>6 DEF Move, PushEvent, Quit
  <2>4. CASE Move
    BY <1>1, <2>1, <2>3, <2>4, InputInv DEF Move
  <2>5. CASE PushEvent
    BY <1>1, <2>2, <2>3, <2>5, InputInv DEF PushEvent
  <2>6. CASE Quit
    BY <1>1, <2>2, <2>3, <2>6, InputInv DEF Quit
  <2>. QED  BY <1>6, <2>4, <2>5, <2>6
<1>. QED  BY <1>3, <1>4, <1>5, <1>6 DEF Environment

LEMMA InvariantStep == IInv /\ [Next]_vars => IInv'
<1> SUFFICES ASSUME IInv, [Next]_vars PROVE IInv'
  OBVIOUS
<1>1. CASE Environment
  BY <1>1, EnvironmentInv
<1>2. CASE StartFrame
  BY <1>2, StartFrameInv
<1>3. CASE TakeEvent
  BY <1>3, TakeEventInv
<1>4. CASE EndFrame
  BY <1>4 DEF EndFrame, IInv
<1>5. CASE UNCHANGED vars
  BY <1>5 DEF vars, IInv
<1>. QED  BY <1>1, <1>2, <1>3, <1>4, <1>5 DEF Next, Loop

\* For every keymap and clock: a timer runs only while a press or a chord waits to become
\* a hold, and the state forgets a chord with its last key (process_event, process_timers).
THEOREM StatesCorrect == Spec => []StatesAgree
<1>1. Init => IInv
  BY InitInv
<1>2. IInv /\ [Next]_vars => IInv'
  BY InvariantStep
<1>3. IInv => StatesAgree
  BY DEF IInv, StatesAgree, TypeOK, UiAgrees, UiType, QueueFits
<1>. QED  BY <1>1, <1>2, <1>3, PTL DEF Spec

-----------------------------------------------------------------------------
(* What is reported, and when: t is the time at which s stands. *)

Clicks == {<<>>, <<"MOUSE_PRESS">>, <<"MOUSE_HOLD">>, <<"MOUSE_HOLD", "MOUSE_HOLD">>}

\* Nothing has been reported of a chord that may still be reported, or of a click.
OnceEach(u, h) ==
    /\ Len(h.chord) <= 1
    /\ u.key_state = "DOWN" => h.chord = <<>>
    /\ h.click \in Clicks
    /\ u.mouse_state = "DOWN" => h.click = <<>>
    /\ u.mouse_state = "SENT" /\ u.mouse_long_timeout # 0 => h.click = <<"MOUSE_HOLD">>

\* The age of a timer that did not wrap is what has passed since it was set.
AgesAgree(u, h, t) ==
    /\ u.key_timeout # 0 /\ ~h.keyWrapped /\ h.keyAge <= HOLD_TIMEOUT
          => t = u.key_timeout - HOLD_TIMEOUT + h.keyAge
    /\ u.mouse_timeout # 0 /\ ~h.mouseWrapped /\ h.mouseAge <= HOLD_TIMEOUT
          => t = u.mouse_timeout - HOLD_TIMEOUT + h.mouseAge

NotEarly(h) ==
    /\ (h.chord # <<>> /\ h.chord[1].type = "KEY_HOLD" /\ ~h.keyWrapped) => h.keyAge > HOLD_TIMEOUT
    /\ (h.click # <<>> /\ h.click[1] = "MOUSE_HOLD" /\ ~h.mouseWrapped) => h.mouseAge > HOLD_TIMEOUT

Timely(u, h, t) == OnceEach(u, h) /\ AgesAgree(u, h, t) /\ NotEarly(h)

Prompt(s, t) == Sound(s) /\ Timely(s.ui, s.hist, t)

LEMMA DispatchPrompt ==
    ASSUME NEW s, NEW t, Prompt(s, t), NEW e \in Events
    PROVE  Prompt(Dispatch(s, e), t)
<1>1. Dispatch(s, e).ui = s.ui /\ Dispatch(s, e).hist = s.hist
  BY DEF Prompt, Sound, Dispatch
<1>. QED  BY <1>1, DispatchSound DEF Prompt

LEMMA PushPrompt ==
    ASSUME NEW s, NEW t, Prompt(s, t), NEW e \in Messages
    PROVE  Prompt(Push(s, e), t)
<1>1. /\ Push(s, e).ui = s.ui
      /\ Push(s, e).hist = s.hist \/ Push(s, e).hist = [s.hist EXCEPT !.lost = TRUE]
  BY DEF Prompt, Sound, Push
<1>2. Timely(s.ui, [s.hist EXCEPT !.lost = TRUE], t)
  BY DEF Prompt, Sound, HistType, Timely, OnceEach, AgesAgree, NotEarly
<1>. QED  BY <1>1, <1>2, PushSound DEF Prompt

\* What a report leaves in the history
LEMMA ReportKeeps ==
    ASSUME NEW s, Sound(s), NEW e, NEW type
    PROVE  /\ ReportKey(s, e).ui = s.ui
           /\ ReportKey(s, e).hist = [s.hist EXCEPT !.chord = Append(@, e)]
           /\ ReportMouse(s, type).ui = s.ui
           /\ ReportMouse(s, type).hist = [s.hist EXCEPT !.click = Append(@, type)]
BY DEF Sound, ReportKey, ReportMouse, Dispatch

LEMMA FirstReport ==
    ASSUME NEW e
    PROVE  Append(<<>>, e) = <<e>> /\ Len(<<e>>) = 1 /\ <<e>>[1] = e /\ <<e>> # <<>>
OBVIOUS

LEMMA Appended ==
    ASSUME NEW E, NEW q \in Seq(E), NEW e \in E
    PROVE  /\ Append(q, e) \in Seq(E) /\ Len(Append(q, e)) = Len(q) + 1
           /\ \A i \in 1 .. Len(q) : Append(q, e)[i] = q[i]
           /\ Append(q, e)[Len(q) + 1] = e
OBVIOUS

LEMMA TwoReports == ASSUME NEW E, NEW a \in E, NEW b \in E PROVE Append(<<a>>, b) = <<a, b>>
<1> DEFINE one == <<a>>
           two == <<a, b>>
<1>1. one \in Seq(E) /\ Len(one) = 1 /\ one[1] = a
  OBVIOUS
<1>2. two \in Seq(E) /\ Len(two) = 2 /\ two[1] = a /\ two[2] = b
  OBVIOUS
<1> HIDE DEF one, two
<1>3. /\ Append(one, b) \in Seq(E) /\ Len(Append(one, b)) = Len(one) + 1
      /\ \A i \in 1 .. Len(one) : Append(one, b)[i] = one[i]
      /\ Append(one, b)[Len(one) + 1] = b
  BY <1>1, Appended
<1>4. Len(Append(one, b)) = 2 /\ \A i \in 1 .. 2 : Append(one, b)[i] = two[i]
  BY <1>1, <1>2, <1>3
<1>5. Append(one, b) = two
  BY <1>2, <1>3, <1>4, SeqEqual
<1>. QED  BY <1>5 DEF one, two

LEMMA HidePointerPrompt ==
    ASSUME NEW s, NEW t \in Clock, Prompt(s, t) PROVE Prompt(HidePointer(s, t), t)
<1> DEFINE u == [s.ui EXCEPT !.pointer_timeout = 0, !.pointer = FALSE]
<1>1. HidePointer(s, t).hist = s.hist /\ HidePointer(s, t).ui \in {s.ui, u}
  BY DEF Prompt, Sound, HidePointer
<1>2. Timely(u, s.hist, t)
  BY DEF Prompt, Sound, UiType, Timely, OnceEach, AgesAgree
<1>. QED  BY <1>1, <1>2, HidePointerSound DEF Prompt

\* The hold timer of the mouse expires: the button has been down for longer than the timeout.
LEMMA MouseHoldPrompt ==
    ASSUME NEW s, NEW t \in Clock, Prompt(s, t) PROVE Prompt(MouseHold(s, t), t)
<1> DEFINE u == [s.ui EXCEPT !.mouse_timeout = 0, !.mouse_state = "SENT"]
           h == [s.hist EXCEPT !.click = <<"MOUSE_HOLD">>]
<1>1. s.ui \in UiType /\ UiAgrees(s.ui) /\ s.hist \in HistType /\ Timely(s.ui, s.hist, t)
  BY SoundTypes DEF Prompt
<1>2. CASE Expired(s.ui.mouse_timeout, t)
  <2>1. s.ui.mouse_state = "DOWN" /\ s.hist.click = <<>>
    BY <1>1, <1>2 DEF Expired, UiAgrees, Timely, OnceEach
  <2>2. ~s.hist.mouseWrapped => s.hist.mouseAge > HOLD_TIMEOUT
    <3>1. s.ui.mouse_timeout \in Nat /\ s.hist.mouseAge \in Nat /\ t \in Nat /\ HOLD_TIMEOUT \in Nat
      BY <1>1, TimeoutType DEF UiType, HistType, Clock
    <3>. QED  BY <1>1, <1>2, <3>1 DEF Expired, Timely, AgesAgree
  <2>3. MouseHold(s, t).ui = u /\ MouseHold(s, t).hist = h
    <3> DEFINE r == [s EXCEPT !.ui.mouse_timeout = 0]
               v == [r EXCEPT !.ui.mouse_state = "SENT"]
    <3>1. v.ui = u /\ v.hist = s.hist /\ r.ui.mouse_state = "DOWN"
      BY <1>1, <2>1 DEF Prompt, Sound, UiType
    <3>2. MouseHold(s, t) = ReportMouse(v, "MOUSE_HOLD")
      BY <1>2, <2>1, <3>1 DEF MouseHold
    <3>3. ReportMouse(v, "MOUSE_HOLD").ui = v.ui
      BY DEF ReportMouse, Dispatch, Prompt, Sound
    <3>4. ReportMouse(v, "MOUSE_HOLD").hist = [v.hist EXCEPT !.click = Append(@, "MOUSE_HOLD")]
      BY DEF ReportMouse, Dispatch, Prompt, Sound
    <3>. QED  BY <1>1, <2>1, <3>1, <3>2, <3>3, <3>4, FirstReport DEF HistType
  <2>4. Timely(u, h, t)
    BY <1>1, <2>1, <2>2 DEF UiType, HistType, Timely, OnceEach, AgesAgree, NotEarly, Clicks
  <2>. QED  BY <2>3, <2>4, MouseHoldSound DEF Prompt
<1>3. CASE ~Expired(s.ui.mouse_timeout, t)
  BY <1>3 DEF MouseHold
<1>. QED  BY <1>2, <1>3

\* A long hold follows the hold of the same click, once.
LEMMA MouseLongHoldPrompt ==
    ASSUME NEW s, NEW t \in Clock, Prompt(s, t) PROVE Prompt(MouseLongHold(s, t), t)
<1> DEFINE u == [s.ui EXCEPT !.mouse_long_timeout = 0]
           h == [s.hist EXCEPT !.click = <<"MOUSE_HOLD", "MOUSE_HOLD">>]
<1>1. s.ui \in UiType /\ s.hist \in HistType /\ Timely(s.ui, s.hist, t)
  BY SoundTypes DEF Prompt
<1>2. Timely(u, s.hist, t)
  BY <1>1 DEF UiType, Timely, OnceEach, AgesAgree
<1>3. CASE ~Expired(s.ui.mouse_long_timeout, t)
  BY <1>3 DEF MouseLongHold
<1>4. CASE Expired(s.ui.mouse_long_timeout, t) /\ s.ui.mouse_state # "SENT"
  <2>1. MouseLongHold(s, t).ui = u /\ MouseLongHold(s, t).hist = s.hist
    BY <1>4 DEF MouseLongHold, Prompt, Sound
  <2>. QED  BY <1>2, <2>1, MouseLongHoldSound DEF Prompt
<1>5. CASE Expired(s.ui.mouse_long_timeout, t) /\ s.ui.mouse_state = "SENT"
  <2>1. s.hist.click = <<"MOUSE_HOLD">>
    BY <1>1, <1>5 DEF Expired, Timely, OnceEach
  <2>2. Append(<<"MOUSE_HOLD">>, "MOUSE_HOLD") = <<"MOUSE_HOLD", "MOUSE_HOLD">>
    BY TwoReports
  <2>3. MouseLongHold(s, t).ui = u /\ MouseLongHold(s, t).hist = h
    BY <1>1, <1>5, <2>1, <2>2 DEF MouseLongHold, ReportMouse, Dispatch, Prompt, Sound
  <2>4. Timely(u, h, t)
    BY <1>1, <1>5, <2>1 DEF UiType, HistType, Timely, OnceEach, AgesAgree, NotEarly, Clicks
  <2>. QED  BY <2>3, <2>4, MouseLongHoldSound DEF Prompt
<1>. QED  BY <1>3, <1>4, <1>5

\* So does the timer of the keys, and only while the chord is unreported.
LEMMA KeyHoldPrompt ==
    ASSUME NEW s, NEW t \in Clock, Prompt(s, t) PROVE Prompt(KeyHold(s, t), t)
<1> DEFINE e == KeyEvent("KEY_HOLD", s.ui.key_mask)
           u == [s.ui EXCEPT !.key_timeout = 0, !.key_state = "SENT"]
           h == [s.hist EXCEPT !.chord = <<e>>]
<1>1. s.ui \in UiType /\ UiAgrees(s.ui) /\ s.hist \in HistType /\ Timely(s.ui, s.hist, t)
  BY SoundTypes DEF Prompt
<1>2. CASE Expired(s.ui.key_timeout, t)
  <2>1. s.ui.key_state = "DOWN" /\ s.hist.chord = <<>>
    BY <1>1, <1>2 DEF Expired, UiAgrees, Timely, OnceEach
  <2>2. ~s.hist.keyWrapped => s.hist.keyAge > HOLD_TIMEOUT
    <3>1. s.ui.key_timeout \in Nat /\ s.hist.keyAge \in Nat /\ t \in Nat /\ HOLD_TIMEOUT \in Nat
      BY <1>1, TimeoutType DEF UiType, HistType, Clock
    <3>. QED  BY <1>1, <1>2, <3>1 DEF Expired, Timely, AgesAgree
  <2>3. KeyHold(s, t).ui = u /\ KeyHold(s, t).hist = h
    <3> HIDE DEF e
    <3>1. KeyHold(s, t) = ReportKey([s EXCEPT !.ui.key_timeout = 0, !.ui.key_state = "SENT"], e)
      BY <1>2 DEF KeyHold, e
    <3>. QED  BY <1>1, <2>1, <3>1, FirstReport DEF ReportKey, Dispatch, Prompt, Sound, HistType
  <2>4. Timely(u, h, t)
    <3> HIDE DEF e
    <3>. QED  BY <1>1, <2>1, <2>2, FirstReport DEF UiType, HistType, Timely, OnceEach, AgesAgree, NotEarly
  <2>. QED  BY <2>3, <2>4, KeyHoldSound DEF Prompt
<1>3. CASE ~Expired(s.ui.key_timeout, t)
  BY <1>3 DEF KeyHold
<1>. QED  BY <1>2, <1>3

LEMMA ProcessTimersPrompt ==
    ASSUME NEW s, NEW t \in Clock, Prompt(s, t) PROVE Prompt(ProcessTimers(s, t), t)
BY HidePointerPrompt, MouseHoldPrompt, MouseLongHoldPrompt, KeyHoldPrompt DEF ProcessTimers

\* A timer that is set now and does not wrap stands its time after now.
LEMMA SetTimer ==
    ASSUME now \in Clock, NEW d \in Nat, ~Wraps(d)
    PROVE  After(d) = now + d
<1>1. \A n \in Nat, m \in Nat \ {0} : n < m => n % m = n
  OBVIOUS
<1>2. now \in Nat /\ ClockMod \in Nat \ {0} /\ now + d \in Nat /\ now + d < ClockMod
  BY TimesAssumption DEF Clock, Wraps
<1>. QED  BY <1>1, <1>2 DEF After

LEMMA MouseDownPrompt ==
    ASSUME NEW s, now \in Clock, Prompt(s, now), NEW b PROVE Prompt(MouseDown(s, b), now)
<1> DEFINE u == [s.ui EXCEPT !.mouse_state = "DOWN",
                             !.mouse_timeout = After(HOLD_TIMEOUT),
                             !.mouse_long_timeout = After(LONG_HOLD_TIMEOUT)]
           h == [s.hist EXCEPT !.mouseAge = 0, !.click = <<>>,
                               !.mouseWrapped = Wraps(LONG_HOLD_TIMEOUT)]
<1>1. s.ui \in UiType /\ s.hist \in HistType /\ Timely(s.ui, s.hist, now) /\ Sound(s)
  BY SoundTypes DEF Prompt
<1>2. Sound(MouseDown(s, b))
  BY <1>1, MouseDownSound
<1>3. CASE s.ui.mouse_state # "NONE"
  <2>1. MouseDown(s, b).ui = s.ui /\ MouseDown(s, b).hist = s.hist
    BY <1>1, <1>3 DEF MouseDown, Dispatch, Sound
  <2>. QED  BY <1>1, <1>2, <2>1 DEF Prompt
<1>4. CASE s.ui.mouse_state = "NONE"
  <2>1. MouseDown(s, b).ui = u /\ MouseDown(s, b).hist = h
    BY <1>1, <1>4 DEF MouseDown, Dispatch, Sound
  <2>2. ~Wraps(LONG_HOLD_TIMEOUT) => After(HOLD_TIMEOUT) = now + HOLD_TIMEOUT
    <3>1. ~Wraps(LONG_HOLD_TIMEOUT) => ~Wraps(HOLD_TIMEOUT)
      <4>1. now \in Nat /\ ClockMod \in Nat
        BY TimesAssumption DEF Clock
      <4>. QED  BY <4>1, TimeoutType, TimesAssumption DEF Wraps
    <3>. QED  BY <3>1, SetTimer, TimeoutType
  <2>3. now \in Nat /\ HOLD_TIMEOUT \in Nat /\ now = (now + HOLD_TIMEOUT) - HOLD_TIMEOUT + 0
    BY TimeoutType DEF Clock
  <2>4. AgesAgree(u, h, now)
    BY <1>1, <2>2, <2>3 DEF UiType, HistType, Timely, AgesAgree
  <2>5. OnceEach(u, h) /\ NotEarly(h)
    BY <1>1 DEF UiType, HistType, Timely, OnceEach, NotEarly, Clicks
  <2>. QED  BY <1>2, <2>1, <2>4, <2>5 DEF Prompt, Timely
<1>. QED  BY <1>3, <1>4

LEMMA MouseUpPrompt ==
    ASSUME NEW s, NEW t, Prompt(s, t), NEW b PROVE Prompt(MouseUp(s, b), t)
<1> DEFINE u == [s.ui EXCEPT !.mouse_timeout = 0, !.mouse_long_timeout = 0, !.mouse_state = "NONE"]
           h == IF s.ui.mouse_state = "DOWN" THEN [s.hist EXCEPT !.click = <<"MOUSE_PRESS">>] ELSE s.hist
<1>1. s.ui \in UiType /\ s.hist \in HistType /\ Timely(s.ui, s.hist, t) /\ Sound(s)
  BY SoundTypes DEF Prompt
<1>2. MouseUp(s, b).ui = u /\ MouseUp(s, b).hist = h
  <2> DEFINE r == IF s.ui.mouse_state = "DOWN" THEN ReportMouse(s, "MOUSE_PRESS") ELSE s
  <2>1. Sound(r)
    BY <1>1, ReportSound, SomeEvent DEF Reports
  <2>2. r.ui = s.ui /\ r.hist = h
    <3>1. CASE s.ui.mouse_state = "DOWN"
      <4>1. s.hist.click = <<>>
        BY <1>1, <3>1 DEF Timely, OnceEach
      <4>2. r.hist = [s.hist EXCEPT !.click = Append(@, "MOUSE_PRESS")] /\ r.ui = s.ui
        BY <1>1, <3>1, ReportKeeps
      <4>. QED  BY <1>1, <3>1, <4>1, <4>2, FirstReport DEF HistType
    <3>2. CASE s.ui.mouse_state # "DOWN"
      BY <3>2
    <3>. QED  BY <3>1, <3>2
  <2> HIDE DEF h
  <2>3. MouseUp(s, b) =
          Dispatch([r EXCEPT !.ui.mouse_timeout = 0, !.ui.mouse_long_timeout = 0, !.ui.mouse_state = "NONE"],
                   Event(IF b = "left" THEN "MOUSE_UP" ELSE "NONE"))
    BY DEF MouseUp
  <2> HIDE DEF r
  <2>. QED  BY <1>1, <2>1, <2>2, <2>3 DEF Dispatch, Sound, UiType
<1>3. Timely(u, h, t)
  BY <1>1 DEF UiType, HistType, Timely, OnceEach, AgesAgree, NotEarly, Clicks
<1>. QED  BY <1>1, <1>2, <1>3, MouseUpSound DEF Prompt

LEMMA MouseMotionPrompt ==
    ASSUME NEW s, now \in Clock, Prompt(s, now), NEW leftDown PROVE Prompt(MouseMotion(s, leftDown), now)
<1> DEFINE u == [s.ui EXCEPT !.pointer = @ \/ s.ui.pointer_timeout = 0,
                             !.pointer_timeout = After(POINTER_TIMEOUT)]
<1>1. s.ui \in UiType /\ Timely(s.ui, s.hist, now) /\ Sound(s)
  BY SoundTypes DEF Prompt
<1>2. MouseMotion(s, leftDown).ui = u /\ MouseMotion(s, leftDown).hist = s.hist
  BY <1>1 DEF MouseMotion, Dispatch, Sound
<1>3. Timely(u, s.hist, now)
  BY <1>1 DEF UiType, Timely, OnceEach, AgesAgree
<1>. QED  BY <1>1, <1>2, <1>3, MouseMotionSound DEF Prompt

\* A key that joins a chord finds it unreported; the first key begins a new one.
LEMMA KeyDownPrompt ==
    ASSUME NEW s, now \in Clock, Prompt(s, now), NEW code \in (SUBSET Bits) \ {{}}
    PROVE  Prompt(KeyDown(s, code), now)
<1> DEFINE fresh == s.ui.key_mask = {}
           u == [s.ui EXCEPT !.key_state = "DOWN", !.key_mask = @ \cup code,
                             !.key_timeout = After(HOLD_TIMEOUT)]
           h == [s.hist EXCEPT !.keyAge = 0, !.keyWrapped = Wraps(HOLD_TIMEOUT),
                               !.chord = IF fresh THEN <<>> ELSE @]
<1>1. /\ s.ui \in UiType /\ UiAgrees(s.ui) /\ s.hist \in HistType
      /\ Timely(s.ui, s.hist, now) /\ Sound(s)
  BY SoundTypes DEF Prompt
<1>2. Sound(KeyDown(s, code))
  BY <1>1, KeyDownSound
<1>3. CASE s.ui.key_mask \cap code # {} \/ (~fresh /\ s.ui.key_state = "SENT")
  <2>1. KeyDown(s, code).ui = s.ui /\ KeyDown(s, code).hist = s.hist
    BY <1>1, <1>3 DEF KeyDown, Dispatch, Sound
  <2>. QED  BY <1>1, <1>2, <2>1 DEF Prompt
<1>4. CASE s.ui.key_mask \cap code = {} /\ (fresh \/ s.ui.key_state # "SENT")
  <2>1. KeyDown(s, code).ui = u /\ KeyDown(s, code).hist = h
    BY <1>1, <1>4 DEF KeyDown, Dispatch, Sound
  <2>2. ~Wraps(HOLD_TIMEOUT) => now = After(HOLD_TIMEOUT) - HOLD_TIMEOUT + 0
    <3>1. now \in Nat /\ HOLD_TIMEOUT \in Nat
      BY TimeoutType DEF Clock
    <3>. QED  BY <3>1, SetTimer
  <2>3. h.chord = <<>>
    <3>1. CASE fresh
      BY <1>1, <3>1 DEF HistType
    <3>2. CASE ~fresh
      <4>1. s.ui.key_state = "DOWN"
        BY <1>1, <1>4, <3>2 DEF UiAgrees, UiType, KeyStates
      <4>. QED  BY <1>1, <3>2, <4>1 DEF HistType, Timely, OnceEach
    <3>. QED  BY <3>1, <3>2
  <2>4. AgesAgree(u, h, now)
    BY <1>1, <2>2 DEF UiType, HistType, Timely, AgesAgree
  <2>5. OnceEach(u, h) /\ NotEarly(h)
    BY <1>1, <2>3 DEF UiType, HistType, Timely, OnceEach, NotEarly
  <2>. QED  BY <1>2, <2>1, <2>4, <2>5 DEF Prompt, Timely
<1>. QED  BY <1>3, <1>4

\* A chord with a key down is either reported, or is reported now by its first key that
\* goes up.
LEMMA KeyUpPrompt ==
    ASSUME NEW s, NEW t, Prompt(s, t), NEW code \in SUBSET Bits, s.ui.key_mask \cap code # {}
    PROVE  Prompt(KeyUp(s, code), t)
<1> DEFINE press == KeyEvent("KEY_PRESS", s.ui.key_mask)
           left == s.ui.key_mask \ code
           u == [s.ui EXCEPT !.key_timeout = 0, !.key_mask = left,
                             !.key_state = IF left = {} THEN "NONE" ELSE "SENT"]
<1>1. /\ s.ui \in UiType /\ UiAgrees(s.ui) /\ s.hist \in HistType
      /\ Timely(s.ui, s.hist, t) /\ Sound(s)
  BY SoundTypes DEF Prompt
<1>2. Sound(KeyUp(s, code)) /\ Sound(Released(s, code))
  BY <1>1, KeyUpSound, ReleasedSound
<1>3. Released(s, code).ui = u /\ Released(s, code).hist = s.hist
  BY <1>1 DEF Released, Sound
<1>4. Timely(u, s.hist, t)
  BY <1>1 DEF UiType, Timely, OnceEach, AgesAgree
<1>5. CASE s.ui.key_state = "SENT"
  <2>1. KeyUp(s, code) = Dispatch(Released(s, code), KeyEvent("KEY_UP", code))
    BY <1>5 DEF KeyUp
  <2>2. KeyUp(s, code).ui = u /\ KeyUp(s, code).hist = s.hist
    BY <1>2, <1>3, <2>1 DEF Dispatch, Sound
  <2>. QED  BY <1>2, <1>4, <2>2 DEF Prompt
<1>6. CASE s.ui.key_state # "SENT"
  <2>1. s.hist.chord = <<>>
    <3>1. s.ui.key_state = "DOWN"
      BY <1>1, <1>6 DEF UiAgrees, UiType, KeyStates
    <3>. QED  BY <1>1, <3>1 DEF Timely, OnceEach
  <2> DEFINE r == Push(Released(s, code), User(KeyEvent("KEY_UP", code)))
  <2>2. User(KeyEvent("KEY_UP", code)) \in Messages
    BY KeyEventTypes DEF Codes, User, Messages
  <2>3. Sound(r) /\ Timely(r.ui, r.hist, t) /\ r.ui = u /\ r.hist.chord = <<>>
    <3>1. Prompt(Released(s, code), t)
      BY <1>2, <1>3, <1>4 DEF Prompt
    <3>2. Prompt(r, t)
      BY <2>2, <3>1, PushPrompt
    <3>3. r.ui = u /\ r.hist \in {s.hist, [s.hist EXCEPT !.lost = TRUE]}
      BY <1>2, <1>3 DEF Push, Sound
    <3>. QED  BY <1>1, <2>1, <3>2, <3>3 DEF Prompt, HistType
  <2>4. KeyUp(s, code) = ReportKey(r, press)
    BY <1>6 DEF KeyUp
  <2> HIDE DEF r, press
  <2>5. r.hist \in HistType
    BY <2>3, SoundTypes
  <2>6. KeyUp(s, code).ui = u /\ KeyUp(s, code).hist = [r.hist EXCEPT !.chord = <<press>>]
    <3>1. /\ ReportKey(r, press).ui = r.ui
          /\ ReportKey(r, press).hist = [r.hist EXCEPT !.chord = Append(@, press)]
      BY <2>3, ReportKeeps
    <3>2. Append(r.hist.chord, press) = <<press>>
      BY <2>3, FirstReport
    <3>3. [r.hist EXCEPT !.chord = Append(@, press)] = [r.hist EXCEPT !.chord = <<press>>]
      BY <2>5, <3>2 DEF HistType
    <3>. QED  BY <2>3, <2>4, <3>1, <3>3
  <2>7. u.key_state # "DOWN" /\ u.key_timeout = 0
    BY <1>1 DEF UiType
  <2>8. press.type = "KEY_PRESS"
    BY DEF press, KeyEvent
  <2>9. Timely(u, [r.hist EXCEPT !.chord = <<press>>], t)
    BY <2>3, <2>5, <2>7, <2>8, FirstReport DEF HistType, Timely, OnceEach, AgesAgree, NotEarly
  <2>. QED  BY <1>2, <2>6, <2>9 DEF Prompt
<1>. QED  BY <1>5, <1>6

\* A key that goes up is found by a bit that is down.
LEMMA FoundUp ==
    ASSUME NEW s, NEW e, Found(s, e) # {}, e.type = "KEYUP"
    PROVE  s.ui.key_mask \cap Code(s, e) # {}
<1>1. Found(s, e) \subseteq Nat
  BY KeymapAssumption DEF Found
<1>2. \E i \in Found(s, e) : \A j \in Found(s, e) : i <= j
  BY <1>1, Smallest
<1>3. PICK i \in Found(s, e) : Code(s, e) = Keymap[i].code
  BY <1>2 DEF Code
<1>. QED  BY <1>3 DEF Found, Matches

LEMMA ProcessKeyPrompt ==
    ASSUME NEW s, now \in Clock, Prompt(s, now), NEW e, e.type \in {"KEYDOWN", "KEYUP"}
    PROVE  Prompt(ProcessKey(s, e), now)
<1>1. Event("NONE") \in Events /\ Event("CHAR_PRESS") \in Events
  BY EventTypes DEF Names
<1>2. CASE Found(s, e) = {}
  BY <1>1, <1>2, DispatchPrompt DEF ProcessKey
<1>3. CASE Found(s, e) # {}
  <2>1. Code(s, e) \in (SUBSET Bits) \ {{}}
    BY <1>3, CodeType
  <2>2. CASE e.sym \in Repeatable
    <3>1. KeyEvent("KEY_PRESS", Code(s, e)) \in Events
      BY <2>1, KeyEventTypes DEF Codes
    <3>. QED  BY <1>1, <1>3, <2>2, <3>1, DispatchPrompt DEF ProcessKey
  <2>3. CASE e.sym \notin Repeatable /\ e.type = "KEYDOWN"
    BY <1>3, <2>1, <2>3, KeyDownPrompt DEF ProcessKey
  <2>4. CASE e.sym \notin Repeatable /\ e.type = "KEYUP"
    BY <1>3, <2>1, <2>4, FoundUp, KeyUpPrompt DEF ProcessKey
  <2>. QED  BY <2>2, <2>3, <2>4
<1>. QED  BY <1>2, <1>3

LEMMA ProcessEventPrompt ==
    ASSUME NEW s, now \in Clock, Prompt(s, now), NEW e \in Messages PROVE Prompt(ProcessEvent(s, e), now)
<1>1. e.type \in {"WHEEL", "QUIT", "KEYDOWN", "KEYUP", "BUTTONDOWN", "BUTTONUP", "MOTION", "USER"}
  BY DEF Messages
<1>2. Event("SCROLL") \in Events /\ (e.type = "USER" => e.event \in Events)
  BY EventTypes DEF Names, Messages
<1>3. CASE e.type \in {"WHEEL", "QUIT", "USER"}
  BY <1>2, <1>3, DispatchPrompt DEF ProcessEvent
<1>4. CASE e.type \in {"KEYDOWN", "KEYUP"}
  BY <1>4, ProcessKeyPrompt DEF ProcessEvent
<1>5. CASE e.type \in {"BUTTONDOWN", "BUTTONUP", "MOTION"}
  BY <1>5, MouseDownPrompt, MouseUpPrompt, MouseMotionPrompt DEF ProcessEvent
<1>. QED  BY <1>1, <1>3, <1>4, <1>5

\* Time passes: what has been set ages, and the frames that matter are those before it is due.
LEMMA OlderPrompt ==
    ASSUME IInv, Timely(ui, hist, now), NEW d \in FrameTimes
    PROVE  Prompt(Older(S, d), (now + d) % ClockMod)
<1> DEFINE older(age) == IF age + d > HOLD_TIMEOUT THEN HOLD_TIMEOUT + 1 ELSE age + d
           h == [hist EXCEPT !.keyAge = IF ui.key_timeout = 0 THEN @ ELSE older(@),
                             !.mouseAge = IF ui.mouse_timeout = 0 THEN @ ELSE older(@)]
<1>1. ui \in UiType /\ hist \in HistType
  BY DEF IInv, UiAgrees
<1>2. /\ now \in Nat /\ d \in Nat \ {0} /\ HOLD_TIMEOUT \in Nat /\ ClockMod \in Nat \ {0} /\ now < ClockMod
      /\ ui.key_timeout \in 0 .. ClockMod - 1 /\ ui.mouse_timeout \in 0 .. ClockMod - 1
      /\ hist.keyAge \in Nat /\ hist.mouseAge \in Nat
  BY <1>1, TimesAssumption, TimeoutType DEF IInv, Clock, UiType, HistType
<1>3. \A age \in Nat : older(age) \in Nat /\ (age + d > HOLD_TIMEOUT \/ older(age) = age + d)
                       /\ (older(age) <= HOLD_TIMEOUT => age + d <= HOLD_TIMEOUT)
                       /\ (age > HOLD_TIMEOUT => older(age) > HOLD_TIMEOUT)
  BY <1>2
<1>4. \A n \in Nat, m \in Nat \ {0} : n < m => n % m = n
  OBVIOUS
<1>5. ASSUME NEW timeout \in 0 .. ClockMod - 1, NEW age \in Nat,
             age <= HOLD_TIMEOUT => now = timeout - HOLD_TIMEOUT + age, older(age) <= HOLD_TIMEOUT
      PROVE  (now + d) % ClockMod = timeout - HOLD_TIMEOUT + older(age)
  <2>1. age + d <= HOLD_TIMEOUT /\ older(age) = age + d /\ age <= HOLD_TIMEOUT
    BY <1>2, <1>3, <1>5
  <2>2. now + d = timeout - HOLD_TIMEOUT + (age + d) /\ now + d < ClockMod /\ now + d \in Nat
    BY <1>2, <1>5, <2>1
  <2>. QED  BY <1>2, <1>4, <2>1, <2>2
<1> HIDE DEF older
<1>6. h \in HistType
  BY <1>1, <1>3 DEF HistType
<1>7. /\ h.keyAge = (IF ui.key_timeout = 0 THEN hist.keyAge ELSE older(hist.keyAge))
      /\ h.mouseAge = (IF ui.mouse_timeout = 0 THEN hist.mouseAge ELSE older(hist.mouseAge))
      /\ h.keyWrapped = hist.keyWrapped /\ h.mouseWrapped = hist.mouseWrapped
      /\ h.chord = hist.chord /\ h.click = hist.click
  BY <1>1 DEF HistType
<1>8. Older(S, d) = [S EXCEPT !.hist = h]
  BY DEF Older, S, older
<1>9. Sound(Older(S, d)) /\ Older(S, d).ui = ui /\ Older(S, d).hist = h
  BY <1>6, <1>8, StepSound DEF Sound, S
<1> HIDE DEF h
<1>10. OnceEach(ui, h)
  BY <1>7 DEF Timely, OnceEach
<1>11. AgesAgree(ui, h, (now + d) % ClockMod)
  BY <1>2, <1>5, <1>7 DEF Timely, AgesAgree
<1>12. NotEarly(h)
  BY <1>2, <1>3, <1>7 DEF Timely, NotEarly
<1>. QED  BY <1>9, <1>10, <1>11, <1>12 DEF Prompt, Timely

\* The inductive invariant of the reports
Prompted == IInv /\ Timely(ui, hist, now)

LEMMA StepPrompt ==
    ASSUME NEW s, NEW t, Prompt(s, t), Step(s), now' = t
    PROVE  Timely(ui', hist', now')
BY DEF Prompt, Step

\* An input pushes events and reports nothing.
LEMMA InputPrompt ==
    ASSUME Prompted, Environment
    PROVE  Timely(ui', hist', now')
<1> DEFINE lost == [hist EXCEPT !.lost = TRUE]
<1>1. hist \in HistType /\ Timely(ui, lost, now) /\ [lost EXCEPT !.lost = TRUE] = lost
  BY DEF Prompted, IInv, HistType, Timely, OnceEach, AgesAgree, NotEarly
<1>2. \A e : Push(S, e).ui = ui /\ Push(S, e).hist \in {hist, lost}
  BY DEF Push, S
<1>3. \A e, f : Push(Push(S, e), f).ui = ui /\ Push(Push(S, e), f).hist \in {hist, lost}
  BY <1>1, <1>2 DEF Push, S
<1>4. \E s : Input(s) /\ s.ui = ui /\ s.hist \in {hist, lost}
  BY <1>2, <1>3 DEF Environment, PressKey, ReleaseKey, PressButton, ReleaseButton, Wheel, Move, PushEvent, Quit
<1>5. ui' = ui /\ hist' \in {hist, lost} /\ now' = now
  BY <1>4 DEF Input, Step
<1>. QED  BY <1>1, <1>5 DEF Prompted

LEMMA TimelyStep == ASSUME Prompted, [Next]_vars PROVE Timely(ui', hist', now')
<1> USE DEF Prompted
<1>1. CASE Environment
  BY <1>1, InputPrompt
<1>2. CASE StartFrame
  <2>1. PICK d \in FrameTimes : now' = (now + d) % ClockMod /\ Step(ProcessTimers(Older(S, d), now'))
    BY <1>2 DEF StartFrame
  <2>2. Prompt(Older(S, d), now')
    BY <2>1, OlderPrompt
  <2>3. now' \in Clock
    BY <1>2, StartFrameInv DEF IInv
  <2>. QED  BY <2>1, <2>2, <2>3, ProcessTimersPrompt, StepPrompt
<1>3. CASE TakeEvent
  <2> DEFINE s == [S EXCEPT !.queue = Tail(queue)]
  <2>1. /\ Head(queue) \in Messages /\ Tail(queue) \in Seq(Messages)
        /\ Len(Tail(queue)) = Len(queue) - 1 /\ Len(queue) \in Nat
    BY <1>3 DEF IInv, QueueFits, TakeEvent
  <2>2. Sound(s)
    <3>1. QueueFits(Tail(queue))
      BY <2>1, BoundAssumption DEF IInv, QueueFits
    <3>. QED  BY <2>1, <3>1, StepSound DEF Sound, S
  <2>3. Prompt(s, now)
    BY <2>2 DEF Prompt, S
  <2> HIDE DEF s
  <2>4. Prompt(ProcessEvent(s, Head(queue)), now)
    BY <2>1, <2>3, ProcessEventPrompt DEF IInv
  <2>5. Step(ProcessEvent(s, Head(queue))) /\ now' = now
    BY <1>3 DEF TakeEvent, s
  <2>. QED  BY <2>4, <2>5, StepPrompt
<1>4. CASE EndFrame
  BY <1>4 DEF EndFrame
<1>5. CASE UNCHANGED vars
  BY <1>5 DEF vars
<1>. QED  BY <1>1, <1>2, <1>3, <1>4, <1>5 DEF Next, Loop

\* For every keymap and clock and in whatever order keys, buttons and timers come: one
\* press or hold for each chord and click, and no hold before its time, except where the
\* clock wraps around (process_event, process_timers).
THEOREM ReportsCorrect == Spec => []ReportsAgree
<1>1. Init => Prompted
  <2> SUFFICES ASSUME Init PROVE Prompted
    OBVIOUS
  <2>1. IInv
    BY InitInv
  <2>2. Timely(ui, hist, now)
    BY DEF Init, Timely, OnceEach, AgesAgree, NotEarly, Clicks
  <2>. QED  BY <2>1, <2>2 DEF Prompted
<1>2. Prompted /\ [Next]_vars => Prompted'
  BY InvariantStep, TimelyStep DEF Prompted
<1>3. Prompted => ReportsAgree
  BY DEF Prompted, Timely, OnceEach, NotEarly, Clicks, ReportsAgree, OneReport, HoldNotEarly
<1>. QED  BY <1>1, <1>2, <1>3, PTL DEF Spec

-----------------------------------------------------------------------------
(* The mask, the keys that are held and the queue *)

\* A key that is down brings the bits of the entries that its KEYDOWN finds.
Owns(k, b) ==
    /\ k \notin Repeatable
    /\ \E j \in DOMAIN Keymap : FoundDown(j) /\ Keymap[j].sym = k /\ b \in Keymap[j].code

Up(e, k) == e.type = "KEYUP" /\ e.sym = k

Going(q, k) == \E n \in DOMAIN q : Up(q[n], k)

\* Every bit of the mask has a key that is held or will go up; so has every KEYDOWN.
MaskOwned(mask, q, h) == \A b \in mask : \E k \in Syms : Owns(k, b) /\ (k \in h \/ Going(q, k))

DownsFollowed(q, h) ==
    \A n \in DOMAIN q : q[n].type = "KEYDOWN" =>
        q[n].sym \in h \/ \E m \in DOMAIN q : n < m /\ Up(q[m], q[n].sym)

Balanced(mask, q, h) == MaskOwned(mask, q, h) /\ DownsFollowed(q, h)

Accounted == IInv /\ (hist.lost \/ Balanced(ui.key_mask, queue, held))

\* A key that goes down finds an entry of its own.
LEMMA FoundByDown ==
    ASSUME NEW s, NEW e, e.type = "KEYDOWN", e.sym \notin Repeatable, Found(s, e) # {},
           NEW b \in Code(s, e)
    PROVE  Owns(e.sym, b)
<1>1. Found(s, e) \subseteq DOMAIN Keymap /\ DOMAIN Keymap = 1 .. Len(Keymap) /\ Len(Keymap) \in Nat
  BY KeymapAssumption DEF Found
<1>2. \E i \in Found(s, e) : \A j \in Found(s, e) : i <= j
  BY <1>1, Smallest
<1>3. PICK i \in Found(s, e) : Code(s, e) = Keymap[i].code /\ \A j \in Found(s, e) : i <= j
  BY <1>2 DEF Code
<1>4. Keymap[i].sym = e.sym
  BY <1>3 DEF Found, Matches
<1>5. ASSUME NEW j \in 1 .. i - 1, Keymap[j].sym = Keymap[i].sym, Keymap[j].mod = AnyMod
      PROVE  FALSE
  <2>1. j \in DOMAIN Keymap /\ j < i
    BY <1>1, <1>3
  <2>2. j \in Found(s, e)
    BY <1>4, <1>5, <2>1 DEF Found, Matches
  <2>. QED  BY <1>1, <1>3, <2>1, <2>2
<1>6. FoundDown(i)
  BY <1>5 DEF FoundDown
<1>. QED  BY <1>1, <1>3, <1>4, <1>6 DEF Owns

\* A key that goes up takes all its bits with it: the order of the keymap sees to it.
LEMMA FoundByUp ==
    ASSUME NEW s, NEW e, e.type = "KEYUP", NEW b \in s.ui.key_mask, Owns(e.sym, b)
    PROVE  Found(s, e) # {} /\ b \in Code(s, e)
<1>1. Found(s, e) \subseteq DOMAIN Keymap /\ DOMAIN Keymap = 1 .. Len(Keymap) /\ Len(Keymap) \in Nat
  BY KeymapAssumption DEF Found
<1>2. PICK j \in DOMAIN Keymap : FoundDown(j) /\ Keymap[j].sym = e.sym /\ b \in Keymap[j].code
  BY DEF Owns
<1>3. j \in Found(s, e)
  BY <1>2 DEF Found, Matches
<1>4. \E i \in Found(s, e) : \A n \in Found(s, e) : i <= n
  BY <1>1, <1>3, Smallest
<1>5. PICK i \in Found(s, e) : Code(s, e) = Keymap[i].code /\ \A n \in Found(s, e) : i <= n
  BY <1>4 DEF Code
<1>6. i = j \/ i \in 1 .. j - 1
  BY <1>1, <1>3, <1>5
<1>7. Keymap[i].sym = Keymap[j].sym
  BY <1>2, <1>5 DEF Found, Matches
<1>8. b \in Keymap[i].code
  BY <1>2, <1>6, <1>7, KeymapOrder
<1>. QED  BY <1>3, <1>5, <1>8

\* An event joins the queue: a KEYDOWN of a key that is held now, a KEYUP of one that was.
LEMMA JoinBalanced ==
    ASSUME NEW mask, NEW q \in Seq(Messages), NEW e \in Messages, NEW h, NEW g,
           Balanced(mask, q, h),
           \A k \in Syms : k \in h => k \in g \/ Up(e, k),
           e.type = "KEYDOWN" => e.sym \in g
    PROVE  Balanced(mask, Append(q, e), g)
<1> DEFINE p == Append(q, e)
           l == Len(q) + 1
<1>1. /\ p \in Seq(Messages) /\ Len(p) = l
      /\ \A i \in 1 .. Len(q) : p[i] = q[i]
      /\ p[l] = e /\ Len(q) \in Nat
  BY Appended
<1>2. /\ DOMAIN p = DOMAIN q \cup {l} /\ DOMAIN q = 1 .. Len(q)
      /\ \A n \in DOMAIN q : p[n] = q[n] /\ n < l
  BY <1>1
<1> HIDE DEF p, l
<1>3. \A k \in Syms : k \in h \/ Going(q, k) => k \in g \/ Going(p, k)
  BY <1>1, <1>2 DEF Going
<1>4. MaskOwned(mask, p, g)
  BY <1>3 DEF Balanced, MaskOwned
<1>5. ASSUME NEW n \in DOMAIN p, p[n].type = "KEYDOWN"
      PROVE  p[n].sym \in g \/ \E m \in DOMAIN p : n < m /\ Up(p[m], p[n].sym)
  <2>1. CASE n = l
    BY <1>1, <1>5, <2>1
  <2>2. CASE n \in DOMAIN q
    <3>1. q[n] \in Messages /\ p[n] = q[n]
      BY <1>2, <2>2
    <3>2. q[n].sym \in Syms
      BY <1>5, <3>1 DEF Messages
    <3>3. q[n].sym \in h \/ \E m \in DOMAIN q : n < m /\ Up(q[m], q[n].sym)
      BY <1>5, <2>2, <3>1 DEF Balanced, DownsFollowed
    <3>. QED  BY <1>1, <1>2, <2>2, <3>1, <3>2, <3>3
  <2>. QED  BY <1>2, <2>1, <2>2
<1>6. DownsFollowed(p, g)
  BY <1>5 DEF DownsFollowed
<1>. QED  BY <1>4, <1>6 DEF Balanced, p

\* The oldest event leaves the queue.
LEMMA LeaveQueue ==
    ASSUME NEW q \in Seq(Messages), q # <<>>, NEW h, DownsFollowed(q, h)
    PROVE  /\ \A k : Going(q, k) => Going(Tail(q), k) \/ Up(Head(q), k)
           /\ Head(q).type = "KEYDOWN" => Head(q).sym \in h \/ Going(Tail(q), Head(q).sym)
           /\ DownsFollowed(Tail(q), h)
<1> DEFINE r == Tail(q)
<1>1. /\ Len(q) \in Nat \ {0} /\ DOMAIN q = 1 .. Len(q) /\ r \in Seq(Messages) /\ Len(r) = Len(q) - 1
      /\ \A n \in 1 .. Len(q) - 1 : r[n] = q[n + 1]
      /\ Head(q) = q[1]
  OBVIOUS
<1> HIDE DEF r
<1>2. DOMAIN r = 1 .. Len(q) - 1
  BY <1>1
<1>3. \A n \in DOMAIN q : n = 1 \/ (n - 1 \in DOMAIN r /\ r[n - 1] = q[n])
  BY <1>1, <1>2
<1>4. \A k : Going(q, k) => Going(r, k) \/ Up(Head(q), k)
  BY <1>1, <1>3 DEF Going
<1>5. Head(q).type = "KEYDOWN" => Head(q).sym \in h \/ Going(r, Head(q).sym)
  <2> SUFFICES ASSUME Head(q).type = "KEYDOWN", Head(q).sym \notin h PROVE Going(r, Head(q).sym)
    OBVIOUS
  <2>1. 1 \in DOMAIN q
    BY <1>1
  <2>2. PICK m \in DOMAIN q : 1 < m /\ Up(q[m], q[1].sym)
    BY <1>1, <2>1 DEF DownsFollowed
  <2>. QED  BY <1>1, <1>3, <2>2 DEF Going
<1>6. ASSUME NEW n \in DOMAIN r, r[n].type = "KEYDOWN", r[n].sym \notin h
      PROVE  \E m \in DOMAIN r : n < m /\ Up(r[m], r[n].sym)
  <2>1. n + 1 \in DOMAIN q /\ q[n + 1] = r[n] /\ n \in Nat
    BY <1>1, <1>2
  <2>2. PICK m \in DOMAIN q : n + 1 < m /\ Up(q[m], q[n + 1].sym)
    BY <1>6, <2>1 DEF DownsFollowed
  <2>3. m - 1 \in DOMAIN r /\ r[m - 1] = q[m] /\ n < m - 1
    BY <1>1, <1>3, <2>1, <2>2
  <2>. QED  BY <2>1, <2>2, <2>3
<1>7. DownsFollowed(r, h)
  BY <1>6 DEF DownsFollowed
<1>. QED  BY <1>4, <1>5, <1>7 DEF r

\* What events that are not keys do to the mask and the queue: nothing.
LEMMA OthersKeep ==
    ASSUME NEW s, Sound(s), NEW e \in Messages, e.type \notin {"KEYDOWN", "KEYUP"}
    PROVE  LET r == ProcessEvent(s, e)
           IN  r.ui.key_mask = s.ui.key_mask /\ r.queue = s.queue /\ r.hist.lost = s.hist.lost
<1> DEFINE Same(r) == /\ Sound(r) /\ r.ui.key_mask = s.ui.key_mask
                      /\ r.queue = s.queue /\ r.hist.lost = s.hist.lost
<1>1. \A r, x : Same(r) => /\ Dispatch(r, x).ui = r.ui /\ Dispatch(r, x).queue = r.queue
                           /\ Dispatch(r, x).hist = r.hist
  BY DEF Dispatch, Sound
<1>2. Same(s)
  OBVIOUS
<1>3. e.type \in {"WHEEL", "QUIT", "BUTTONDOWN", "BUTTONUP", "MOTION", "USER"}
  BY DEF Messages
<1>4. CASE e.type \in {"WHEEL", "QUIT", "USER"}
  BY <1>1, <1>2, <1>4 DEF ProcessEvent
<1>5. CASE e.type = "BUTTONDOWN"
  <2> DEFINE r == [s EXCEPT !.ui.mouse_state = "DOWN", !.ui.mouse_timeout = After(HOLD_TIMEOUT),
                            !.ui.mouse_long_timeout = After(LONG_HOLD_TIMEOUT),
                            !.hist.mouseAge = 0, !.hist.click = <<>>,
                            !.hist.mouseWrapped = Wraps(LONG_HOLD_TIMEOUT)]
  <2>1. r.ui.key_mask = s.ui.key_mask /\ r.queue = s.queue /\ r.hist.lost = s.hist.lost
    BY DEF Sound, UiType, HistType
  <2>2. \A x : /\ Dispatch(r, x).ui = r.ui /\ Dispatch(r, x).queue = r.queue
               /\ Dispatch(r, x).hist = r.hist
    BY DEF Dispatch, Sound
  <2>3. ProcessEvent(s, e) = MouseDown(s, e.button)
    BY <1>5 DEF ProcessEvent
  <2>4. \E x : MouseDown(s, e.button) \in {Dispatch(s, x), Dispatch(r, x)}
    BY DEF MouseDown
  <2> HIDE DEF r
  <2>. QED  BY <1>1, <1>2, <2>1, <2>2, <2>3, <2>4
<1>6. CASE e.type = "BUTTONUP"
  <2> DEFINE r == IF s.ui.mouse_state = "DOWN" THEN ReportMouse(s, "MOUSE_PRESS") ELSE s
             u == [r EXCEPT !.ui.mouse_timeout = 0, !.ui.mouse_long_timeout = 0, !.ui.mouse_state = "NONE"]
  <2>1. Sound(r)
    BY ReportSound, SomeEvent DEF Reports
  <2>2. r.ui = s.ui /\ r.queue = s.queue /\ r.hist.lost = s.hist.lost
    BY DEF ReportMouse, Dispatch, Sound, HistType
  <2> HIDE DEF r
  <2>3. u.ui.key_mask = s.ui.key_mask /\ u.queue = s.queue /\ u.hist.lost = s.hist.lost
    BY <2>1, <2>2 DEF Sound, UiType, HistType
  <2>4. \A x : /\ Dispatch(u, x).ui = u.ui /\ Dispatch(u, x).queue = u.queue
               /\ Dispatch(u, x).hist = u.hist
    BY <2>1 DEF Dispatch, Sound
  <2>5. \E x : ProcessEvent(s, e) = Dispatch(u, x)
    BY <1>6 DEF ProcessEvent, MouseUp, r
  <2> HIDE DEF u
  <2>. QED  BY <2>3, <2>4, <2>5
<1>7. CASE e.type = "MOTION"
  <2> DEFINE r == [s EXCEPT !.ui.pointer = @ \/ s.ui.pointer_timeout = 0,
                       !.ui.pointer_timeout = After(POINTER_TIMEOUT)]
  <2>1. r.ui.key_mask = s.ui.key_mask /\ r.queue = s.queue /\ r.hist.lost = s.hist.lost
    BY DEF Sound, UiType, HistType
  <2>2. \A x : /\ Dispatch(r, x).ui = r.ui /\ Dispatch(r, x).queue = r.queue
               /\ Dispatch(r, x).hist = r.hist
    BY DEF Dispatch, Sound
  <2>3. \E x : ProcessEvent(s, e) = Dispatch(r, x)
    BY <1>7 DEF ProcessEvent, MouseMotion
  <2> HIDE DEF r
  <2>. QED  BY <2>1, <2>2, <2>3
<1>. QED  BY <1>3, <1>4, <1>5, <1>6, <1>7

\* A KEYDOWN adds bits of its own key or none.
LEMMA DownAdds ==
    ASSUME NEW s, Sound(s), NEW e, e.type = "KEYDOWN"
    PROVE  LET r == ProcessEvent(s, e)
           IN  /\ r.queue = s.queue /\ r.hist.lost = s.hist.lost
               /\ \A b \in r.ui.key_mask : b \in s.ui.key_mask \/ Owns(e.sym, b)
<1> DEFINE code == Code(s, e)
           r == [s EXCEPT !.ui.key_state = "DOWN", !.ui.key_mask = @ \cup code,
                          !.ui.key_timeout = After(HOLD_TIMEOUT), !.hist.keyAge = 0,
                          !.hist.keyWrapped = Wraps(HOLD_TIMEOUT),
                          !.hist.chord = IF s.ui.key_mask = {} THEN <<>> ELSE @]
<1>1. ProcessEvent(s, e) = ProcessKey(s, e)
  BY DEF ProcessEvent
<1>2. \A x : /\ Dispatch(s, x).ui = s.ui /\ Dispatch(s, x).queue = s.queue
             /\ Dispatch(s, x).hist = s.hist
  BY DEF Dispatch, Sound
<1>3. CASE Found(s, e) = {} \/ e.sym \in Repeatable
  <2>1. \E x : ProcessKey(s, e) = Dispatch(s, x)
    BY <1>3 DEF ProcessKey
  <2>. QED  BY <1>1, <1>2, <2>1
<1>4. CASE Found(s, e) # {} /\ e.sym \notin Repeatable
  <2>1. \A b \in code : Owns(e.sym, b)
    BY <1>4, FoundByDown
  <2>2. ProcessKey(s, e) = KeyDown(s, code)
    BY <1>4 DEF ProcessKey
  <2> HIDE DEF code
  <2>3. r.ui.key_mask = s.ui.key_mask \cup code /\ r.queue = s.queue /\ r.hist.lost = s.hist.lost
    BY DEF Sound, UiType, HistType
  <2>4. \A x : /\ Dispatch(r, x).ui = r.ui /\ Dispatch(r, x).queue = r.queue
               /\ Dispatch(r, x).hist = r.hist
    BY DEF Dispatch, Sound
  <2>5. \E x : KeyDown(s, code) \in {s, Dispatch(s, x), Dispatch(r, x)}
    BY DEF KeyDown
  <2> HIDE DEF r
  <2>. QED  BY <1>1, <1>2, <2>1, <2>2, <2>3, <2>4, <2>5
<1>. QED  BY <1>3, <1>4

\* A KEYUP takes the bits of its key away, and may queue its own report.
LEMMA UpTakes ==
    ASSUME NEW s, Sound(s), NEW e, e.type = "KEYUP"
    PROVE  LET r == ProcessEvent(s, e)
           IN  /\ \A b \in r.ui.key_mask : b \in s.ui.key_mask /\ ~Owns(e.sym, b)
               /\ \/ r.hist.lost
                  \/ r.hist.lost = s.hist.lost /\ r.queue = s.queue
                  \/ /\ r.hist.lost = s.hist.lost
                     /\ \E m \in Messages : m.type = "USER" /\ r.queue = Append(s.queue, m)
<1> DEFINE code == Code(s, e)
<1>1. ProcessEvent(s, e) = ProcessKey(s, e)
  BY DEF ProcessEvent
<1>2. CASE Found(s, e) = {} \/ e.sym \in Repeatable
  <2>1. \A x : /\ Dispatch(s, x).ui = s.ui /\ Dispatch(s, x).queue = s.queue
               /\ Dispatch(s, x).hist = s.hist
    BY DEF Dispatch, Sound
  <2>2. \E x : ProcessKey(s, e) = Dispatch(s, x)
    BY <1>2 DEF ProcessKey
  <2>3. \A b \in s.ui.key_mask : ~Owns(e.sym, b)
    BY <1>2, FoundByUp DEF Owns
  <2>. QED  BY <1>1, <2>1, <2>2, <2>3
<1>3. CASE Found(s, e) # {} /\ e.sym \notin Repeatable
  <2>1. \A b \in s.ui.key_mask : Owns(e.sym, b) => b \in code
    BY FoundByUp
  <2>2. code \in (SUBSET Bits) \ {{}}
    BY <1>3, CodeType
  <2>3. ProcessKey(s, e) = KeyUp(s, code)
    BY <1>3 DEF ProcessKey
  <2> HIDE DEF code
  <2> DEFINE rel == Released(s, code)
             m == User(KeyEvent("KEY_UP", code))
  <2>4. m \in Messages /\ m.type = "USER"
    BY <2>2, KeyEventTypes DEF Codes, User, Messages
  <2>5. Sound(rel) /\ rel.ui.key_mask = s.ui.key_mask \ code /\ rel.queue = s.queue /\ rel.hist = s.hist
    <3>1. Sound(Released(s, code))
      BY <2>2, ReleasedSound
    <3>. QED  BY <3>1 DEF Released, Sound, UiType
  <2> HIDE DEF rel, m
  <2>6. Sound(Push(rel, m)) /\ Push(rel, m).ui = rel.ui
    BY <2>4, <2>5, PushSound DEF Push, Sound
  <2>7. \/ Push(rel, m).hist.lost
        \/ Push(rel, m).hist = rel.hist /\ Push(rel, m).queue = Append(rel.queue, m)
    BY <2>5 DEF Push, Sound, HistType
  <2>8. \A r, x : Sound(r) => /\ Dispatch(r, x).ui = r.ui /\ Dispatch(r, x).queue = r.queue
                              /\ Dispatch(r, x).hist = r.hist
    BY DEF Dispatch, Sound
  <2>9. \A r, x : Sound(r) => /\ ReportKey(r, x).ui = r.ui /\ ReportKey(r, x).queue = r.queue
                              /\ ReportKey(r, x).hist.lost = r.hist.lost
    BY DEF ReportKey, Dispatch, Sound, HistType
  <2>10. \E x : KeyUp(s, code) \in {Dispatch(rel, x), ReportKey(Push(rel, m), x)}
    BY DEF KeyUp, rel, m
  <2>11. PICK x : KeyUp(s, code) \in {Dispatch(rel, x), ReportKey(Push(rel, m), x)}
    BY <2>10
  <2>12. \A b \in rel.ui.key_mask : b \in s.ui.key_mask /\ ~Owns(e.sym, b)
    BY <2>1, <2>5
  <2>13. CASE KeyUp(s, code) = Dispatch(rel, x)
    BY <1>1, <2>3, <2>5, <2>8, <2>12, <2>13
  <2>14. CASE KeyUp(s, code) = ReportKey(Push(rel, m), x)
    BY <1>1, <2>3, <2>4, <2>5, <2>6, <2>7, <2>9, <2>12, <2>14
  <2>. QED  BY <2>11, <2>13, <2>14
<1>. QED  BY <1>2, <1>3

\* What an input leaves: the queue longer by one event, or an event lost.
LEMMA PushBalanced ==
    ASSUME NEW s, Sound(s), NEW h, s.hist.lost \/ Balanced(s.ui.key_mask, s.queue, h),
           NEW e \in Messages, NEW g,
           \A k \in Syms : k \in h => k \in g \/ Up(e, k),
           e.type = "KEYDOWN" => e.sym \in g
    PROVE  LET r == Push(s, e)
           IN  Sound(r) /\ (r.hist.lost \/ Balanced(r.ui.key_mask, r.queue, g))
<1>1. Sound(Push(s, e))
  BY PushSound
<1>2. CASE Len(s.queue) < QueueMax
  <2>1. s.queue \in Seq(Messages)
    BY DEF Sound
  <2>2. s.hist.lost \/ Balanced(s.ui.key_mask, Append(s.queue, e), g)
    BY <2>1, JoinBalanced
  <2>3. /\ Push(s, e).ui = s.ui /\ Push(s, e).queue = Append(s.queue, e)
        /\ Push(s, e).hist = s.hist
    BY <1>2 DEF Push, Sound
  <2>. QED  BY <1>1, <2>2, <2>3
<1>3. CASE ~(Len(s.queue) < QueueMax)
  BY <1>1, <1>3 DEF Push, Sound, HistType
<1>. QED  BY <1>2, <1>3

LEMMA EnvironmentAccounted ==
    ASSUME Accounted, Environment
    PROVE  hist'.lost \/ Balanced(ui'.key_mask, queue', held')
<1> DEFINE Kept(s, g) == Sound(s) /\ (s.hist.lost \/ Balanced(s.ui.key_mask, s.queue, g))
<1>1. Kept(S, held)
  BY StepSound DEF Accounted, S
<1>2. ASSUME NEW s, NEW g, Kept(s, g), NEW e \in Messages, NEW f,
             \A k \in Syms : k \in g => k \in f \/ Up(e, k), e.type = "KEYDOWN" => e.sym \in f
      PROVE  Kept(Push(s, e), f)
  BY <1>2, PushBalanced
<1>3. \A s : Kept(s, held') /\ Step(s) => hist'.lost \/ Balanced(ui'.key_mask, queue', held')
  BY DEF Step
<1> HIDE DEF Kept
<1>4. ASSUME NEW p \in Presses, PressKey(p.sym, p.mod)
      PROVE  \E s : Kept(s, held') /\ Step(s)
  <2> DEFINE e == Key("KEYDOWN", p.sym, p.mod)
  <2>1. e \in Messages /\ e.type = "KEYDOWN" /\ e.sym = p.sym
    <3>1. p.sym \in Syms /\ p.mod \in Mods
      BY KeymapAssumption
    <3>. QED  BY <3>1 DEF Key, Messages
  <2>2. held' = held \cup {p.sym} /\ Step(Push(S, e))
    BY <1>4 DEF PressKey, Input
  <2> HIDE DEF e
  <2>3. (\A k \in Syms : k \in held => k \in held') /\ p.sym \in held'
    BY <2>2
  <2>4. Kept(Push(S, e), held')
    BY <1>1, <1>2, <2>1, <2>3
  <2>. QED  BY <2>2, <2>4
<1>5. ASSUME NEW p \in Presses, ReleaseKey(p.sym, p.mod)
      PROVE  \E s : Kept(s, held') /\ Step(s)
  <2> DEFINE e == Key("KEYUP", p.sym, p.mod)
  <2>1. e \in Messages /\ e.type = "KEYUP" /\ e.sym = p.sym
    <3>1. p.sym \in Syms /\ p.mod \in Mods
      BY KeymapAssumption
    <3>. QED  BY <3>1 DEF Key, Messages
  <2>2. held' = held \ {p.sym} /\ Step(Push(S, e))
    BY <1>5 DEF ReleaseKey, Input
  <2> HIDE DEF e
  <2>3. \A k \in Syms : k \in held => k \in held' \/ Up(e, k)
    BY <2>1, <2>2 DEF Up
  <2>4. Kept(Push(S, e), held')
    BY <1>1, <1>2, <2>1, <2>3
  <2>. QED  BY <2>2, <2>4
<1>6. ASSUME NEW b \in Buttons, PressButton(b) \/ ReleaseButton(b)
      PROVE  \E s : Kept(s, held') /\ Step(s)
  <2>1. \A k \in Syms : k \in held => k \in held'
    BY <1>6, KeymapAssumption DEF PressButton, ReleaseButton, Buttons
  <2>2. \A type \in {"BUTTONDOWN", "BUTTONUP"} :
          Button(type, b) \in Messages /\ Button(type, b).type \notin {"KEYDOWN", "KEYUP"}
    BY DEF Button, Messages
  <2>3. Kept(Push(S, Button("BUTTONDOWN", b)), held') /\ Kept(Push(S, Button("BUTTONUP", b)), held')
    BY <1>1, <1>2, <2>1, <2>2
  <2>4. Step(Push(S, Button("BUTTONDOWN", b))) \/ Step(Push(S, Button("BUTTONUP", b)))
    BY <1>6 DEF PressButton, ReleaseButton, Input
  <2>. QED  BY <2>3, <2>4
<1>7. ASSUME Wheel
      PROVE  \E s : Kept(s, held') /\ Step(s)
  <2>1. /\ Sdl("WHEEL") \in Messages /\ Sdl("WHEEL").type \notin {"KEYDOWN", "KEYUP"}
        /\ Button("BUTTONUP", "wheel") \in Messages
        /\ Button("BUTTONUP", "wheel").type \notin {"KEYDOWN", "KEYUP"}
    BY DEF Sdl, Button, Messages
  <2>2. Kept(Push(S, Sdl("WHEEL")), held)
    BY <1>1, <1>2, <2>1
  <2>3. Kept(Push(Push(S, Sdl("WHEEL")), Button("BUTTONUP", "wheel")), held)
    BY <1>2, <2>1, <2>2
  <2>4. held' = held /\ Step(Push(Push(S, Sdl("WHEEL")), Button("BUTTONUP", "wheel")))
    BY <1>7 DEF Wheel, Input
  <2>. QED  BY <2>3, <2>4
<1>8. ASSUME Move \/ PushEvent \/ Quit
      PROVE  \E s : Kept(s, held') /\ Step(s)
  <2> DEFINE Harmless == {e \in Messages : e.type \notin {"KEYDOWN", "KEYUP"}}
  <2>1. Button("MOTION", IF "left" \in held THEN "left" ELSE "none") \in Harmless
    BY DEF Button, Messages, Buttons
  <2>2. User(Event("OTHER")) \in Harmless /\ Sdl("QUIT") \in Harmless
    <3>1. Event("OTHER") \in Events
      BY EventTypes DEF Names
    <3>2. User(Event("OTHER")) \in Messages /\ User(Event("OTHER")).type = "USER"
      BY <3>1 DEF User, Messages
    <3>. QED  BY <3>2 DEF Sdl, Messages
  <2>3. \A e \in Harmless : Kept(Push(S, e), held)
    BY <1>1, <1>2
  <2> HIDE DEF Harmless
  <2>4. PICK e \in Harmless : Step(Push(S, e)) /\ held' = held
    BY <1>8, <2>1, <2>2 DEF Move, PushEvent, Quit, Input
  <2>. QED  BY <2>3, <2>4
<1>9. \E s : Kept(s, held') /\ Step(s)
  BY <1>4, <1>5, <1>6, <1>7, <1>8 DEF Environment
<1>. QED  BY <1>3, <1>9

\* An event is processed: what it adds to the mask, its key answers for; when the last
\* KEYUP of a key goes, so do its bits.
LEMMA TakeAccounted ==
    ASSUME Accounted, TakeEvent
    PROVE  hist'.lost \/ Balanced(ui'.key_mask, queue', held')
<1> DEFINE e == Head(queue)
           s == [S EXCEPT !.queue = Tail(queue)]
           r == ProcessEvent(s, e)
<1>1. /\ e \in Messages /\ Tail(queue) \in Seq(Messages) /\ queue \in Seq(Messages) /\ queue # <<>>
      /\ Len(Tail(queue)) = Len(queue) - 1 /\ Len(queue) \in Nat /\ Len(queue) <= QueueMax
  BY DEF Accounted, IInv, QueueFits, TakeEvent
<1>2. Sound(s)
  <2>1. QueueFits(Tail(queue))
    BY <1>1, BoundAssumption DEF QueueFits
  <2>. QED  BY <1>1, <2>1, StepSound DEF Accounted, Sound, S
<1>3. s.ui = ui /\ s.queue = Tail(queue) /\ s.hist = hist
  BY DEF S
<1>4. ui' = r.ui /\ queue' = r.queue /\ hist' = r.hist /\ held' = held
  BY DEF TakeEvent, Step
<1>5. CASE hist.lost
  <2>1. r.hist.lost
    <3>1. e.type \notin {"KEYDOWN", "KEYUP"} \/ e.type = "KEYDOWN" \/ e.type = "KEYUP"
      OBVIOUS
    <3> HIDE DEF e, s
    <3>. QED  BY <1>1, <1>2, <1>3, <1>5, <3>1, OthersKeep, DownAdds, UpTakes
  <2>. QED  BY <1>4, <2>1
<1>6. CASE ~hist.lost
  <2>1. MaskOwned(ui.key_mask, queue, held) /\ DownsFollowed(queue, held)
    BY <1>6 DEF Accounted, Balanced
  <2>2. /\ \A k : Going(queue, k) => Going(Tail(queue), k) \/ Up(e, k)
        /\ e.type = "KEYDOWN" => e.sym \in held \/ Going(Tail(queue), e.sym)
        /\ DownsFollowed(Tail(queue), held)
    BY <1>1, <2>1, LeaveQueue
  <2> HIDE DEF e, s
  <2>3. CASE e.type \notin {"KEYDOWN", "KEYUP"}
    <3>1. r.ui.key_mask = ui.key_mask /\ r.queue = Tail(queue)
      BY <1>1, <1>2, <1>3, <2>3, OthersKeep
    <3>2. Balanced(ui.key_mask, Tail(queue), held)
      BY <2>1, <2>2, <2>3 DEF Balanced, MaskOwned, Up
    <3>. QED  BY <1>4, <3>1, <3>2
  <2>4. CASE e.type = "KEYDOWN"
    <3>1. /\ r.queue = Tail(queue)
          /\ \A b \in r.ui.key_mask : b \in ui.key_mask \/ Owns(e.sym, b)
      BY <1>2, <1>3, <2>4, DownAdds
    <3>2. e.sym \in Syms
      BY <1>1, <2>4 DEF Messages
    <3>3. \A b \in r.ui.key_mask : \E k \in Syms : Owns(k, b) /\ (k \in held \/ Going(Tail(queue), k))
      BY <2>1, <2>2, <2>4, <3>1, <3>2 DEF MaskOwned, Up
    <3>. QED  BY <1>4, <2>2, <3>1, <3>3 DEF Balanced, MaskOwned
  <2>5. CASE e.type = "KEYUP"
    <3>1. /\ \A b \in r.ui.key_mask : b \in ui.key_mask /\ ~Owns(e.sym, b)
          /\ \/ r.hist.lost
             \/ r.queue = Tail(queue)
             \/ \E m \in Messages : m.type = "USER" /\ r.queue = Append(Tail(queue), m)
      BY <1>2, <1>3, <2>5, UpTakes
    <3>2. \A b \in r.ui.key_mask : \E k \in Syms : Owns(k, b) /\ (k \in held \/ Going(Tail(queue), k))
      BY <2>1, <2>2, <3>1 DEF MaskOwned, Up
    <3>3. Balanced(r.ui.key_mask, Tail(queue), held)
      BY <2>2, <3>2 DEF Balanced, MaskOwned
    <3>4. \A m \in Messages : m.type = "USER" => Balanced(r.ui.key_mask, Append(Tail(queue), m), held)
      BY <1>1, <3>3, JoinBalanced
    <3>. QED  BY <1>4, <3>1, <3>3, <3>4
  <2>. QED  BY <2>3, <2>4, <2>5
<1>. QED  BY <1>5, <1>6

\* The timers leave the mask and the queue alone.
LEMMA TimersAccounted ==
    ASSUME Accounted, StartFrame
    PROVE  hist'.lost \/ Balanced(ui'.key_mask, queue', held')
<1> DEFINE Same(r) == /\ Sound(r) /\ r.ui.key_mask = ui.key_mask
                      /\ r.queue = queue /\ r.hist.lost = hist.lost
<1>1. PICK d \in FrameTimes : now' = (now + d) % ClockMod /\ Step(ProcessTimers(Older(S, d), now'))
  BY DEF StartFrame
<1>2. Same(Older(S, d))
  <2>1. Sound(Older(S, d))
    BY OlderSound DEF Accounted
  <2>2. hist \in HistType
    BY DEF Accounted, IInv
  <2>. QED  BY <2>1, <2>2 DEF Older, S, HistType
<1>3. ASSUME NEW r, NEW t, Same(r) PROVE Same(HidePointer(r, t))
  BY <1>3, HidePointerSound DEF HidePointer, Sound, UiType
<1>4. ASSUME NEW r, NEW t, Same(r) PROVE Same(MouseHold(r, t))
  BY ZenonT(60), <1>4, MouseHoldSound DEF MouseHold, ReportMouse, Dispatch, Sound, UiType, HistType
<1>5. ASSUME NEW r, NEW t, Same(r) PROVE Same(MouseLongHold(r, t))
  BY <1>5, MouseLongHoldSound DEF MouseLongHold, ReportMouse, Dispatch, Sound, UiType, HistType
<1>6. ASSUME NEW r, NEW t, Same(r) PROVE Same(KeyHold(r, t))
  <2> DEFINE v == [r EXCEPT !.ui.key_timeout = 0, !.ui.key_state = "SENT"]
  <2>1. /\ v.ui.key_mask = r.ui.key_mask /\ v.queue = r.queue /\ v.hist = r.hist
        /\ \A x : /\ ReportKey(v, x).ui = v.ui /\ ReportKey(v, x).queue = v.queue
                  /\ ReportKey(v, x).hist = [v.hist EXCEPT !.chord = Append(@, x)]
    BY <1>6 DEF ReportKey, Dispatch, Sound, UiType
  <2>2. \A x : ReportKey(v, x).hist.lost = r.hist.lost
    <3>1. r.hist \in HistType
      BY <1>6 DEF Sound
    <3>2. \A c : [r.hist EXCEPT !.chord = c].lost = r.hist.lost
      BY <3>1 DEF HistType
    <3> HIDE DEF v
    <3>3. \A x : ReportKey(v, x).hist = [r.hist EXCEPT !.chord = Append(v.hist.chord, x)]
      BY <2>1
    <3>. QED  BY <3>2, <3>3
  <2>3. Sound(KeyHold(r, t)) /\ \E x : KeyHold(r, t) \in {r, ReportKey(v, x)}
    <3>1. Sound(KeyHold(r, t))
      BY <1>6, KeyHoldSound
    <3>2. KeyHold(r, t) = r \/ KeyHold(r, t) = ReportKey(v, KeyEvent("KEY_HOLD", r.ui.key_mask))
      BY Zenon DEF KeyHold
    <3> HIDE DEF v
    <3>. QED  BY <3>1, <3>2
  <2> HIDE DEF v
  <2>4. PICK x : KeyHold(r, t) \in {r, ReportKey(v, x)}
    BY <2>3
  <2>5. CASE KeyHold(r, t) = ReportKey(v, x)
    BY <1>6, <2>1, <2>2, <2>3, <2>5
  <2>. QED  BY <1>6, <2>4, <2>5
<1> HIDE DEF Same
<1>7. Same(ProcessTimers(Older(S, d), now'))
  BY <1>2, <1>3, <1>4, <1>5, <1>6 DEF ProcessTimers
<1>8. ui'.key_mask = ui.key_mask /\ queue' = queue /\ hist'.lost = hist.lost /\ held' = held
  BY <1>1, <1>7 DEF Step, StartFrame, Same
<1>. QED  BY <1>8 DEF Accounted

\* For every keymap ordered as the code's is, whatever is pressed and in whatever order:
\* when no key is held and every event is processed, no bit is left in key_mask, unless an
\* event found the queue full (process_event).
THEOREM NeverStuck == Spec => []NothingStuck
<1>1. Init => Accounted
  <2> SUFFICES ASSUME Init PROVE Accounted
    OBVIOUS
  <2>1. IInv
    BY InitInv
  <2>2. Balanced(ui.key_mask, queue, held)
    BY DEF Init, Balanced, MaskOwned, DownsFollowed
  <2>. QED  BY <2>1, <2>2 DEF Accounted
<1>2. Accounted /\ [Next]_vars => Accounted'
  <2> SUFFICES ASSUME Accounted, [Next]_vars
               PROVE  hist'.lost \/ Balanced(ui'.key_mask, queue', held')
    BY InvariantStep DEF Accounted
  <2>1. CASE Environment
    BY <2>1, EnvironmentAccounted
  <2>2. CASE StartFrame
    BY <2>2, TimersAccounted
  <2>3. CASE TakeEvent
    BY <2>3, TakeAccounted
  <2>4. CASE EndFrame
    BY <2>4 DEF EndFrame, Accounted
  <2>5. CASE UNCHANGED vars
    BY <2>5 DEF vars, Accounted
  <2>. QED  BY <2>1, <2>2, <2>3, <2>4, <2>5 DEF Next, Loop
<1>3. Accounted => NothingStuck
  <2> SUFFICES ASSUME Accounted, held \cap Syms = {}, queue = <<>>, ~hist.lost
               PROVE  ui.key_mask = {}
    BY DEF NothingStuck
  <2>1. \A k : ~Going(queue, k)
    BY DEF Going
  <2>. QED  BY <2>1 DEF Accounted, Balanced, MaskOwned
<1>. QED  BY <1>1, <1>2, <1>3, PTL DEF Spec
=============================================================================
