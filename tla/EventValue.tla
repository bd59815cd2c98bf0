------------------------------ MODULE EventValue ------------------------------
(***************************************************************************)
(* The objects that carry an event (src/src/jive_event.c): what Event:new    *)
(* stores of its arguments, by type, in the fields of a union, each of its   *)
(* own width and sign, and what the getters and "tostring" make of them.     *)
(***************************************************************************)
EXTENDS Integers, Sequences, FiniteSets

CONSTANTS Unspecified,  \* what "%p" prints of a number
          Nil,          \* no value
          Error,        \* luaL_error
          Word,         \* numbers of an int, an Uint32 or an enum: 2^32
          Wide          \* whether a lua_Integer (ptrdiff_t) is wider than those

Signed(n, width) == ((n + width \div 2) % width) - width \div 2
Sint16(n) == Signed(n, 65536)
Uint16(n) == n % 65536
Sint32(n) == Signed(n, Word)
Uint32(n) == n % Word

\* An unsigned number becomes negative in a lua_Integer that is no wider.
Pushed(n) == IF Wide THEN n ELSE Sint32(n)

KeyTypes == {"KEY_DOWN", "KEY_UP", "KEY_PRESS", "KEY_HOLD"}
MouseTypes == {"MOUSE_DOWN", "MOUSE_UP", "MOUSE_PRESS", "MOUSE_HOLD", "MOUSE_MOVE", "MOUSE_DRAG"}
IRTypes == {"IR_DOWN", "IR_UP", "IR_PRESS", "IR_REPEAT", "IR_HOLD"}
Types == KeyTypes \cup MouseTypes \cup IRTypes \cup
    {"SCROLL", "ACTION_INDEX", "CHAR_PRESS", "GESTURE", "MOTION", "SWITCH", "SHOW"}

\* Missing arguments: lua_tointeger gives 0.
Arg(a, i) == IF i \in DOMAIN a THEN a[i] ELSE 0

\* The union as Event:new fills it: "a" are the arguments after the type, "mem" is
\* what the memory of the event held before, which Lua does not clear.
Filled(type, a, mem) ==
    CASE type \in MouseTypes ->
            [x |-> Uint16(Arg(a, 1)), y |-> Uint16(Arg(a, 2)), count |-> Uint16(Arg(a, 3)),
             width |-> Uint16(Arg(a, 4)), pressure |-> Uint16(Arg(a, 5)),
             chiral |-> Sint16(mem.code), chiralActive |-> mem.active]
      [] type = "MOTION" -> [x |-> Sint16(Arg(a, 1)), y |-> Sint16(Arg(a, 2)), z |-> Sint16(Arg(a, 3))]
      [] type = "SWITCH" -> [code |-> Uint16(mem.code), value |-> Uint16(mem.value)]
      [] type = "CHAR_PRESS" -> [code |-> Uint16(Arg(a, 1))]
      [] type \in {"SCROLL", "ACTION_INDEX"} -> [code |-> Sint32(Arg(a, 1))]
      [] type \in KeyTypes \cup {"IR_PRESS", "IR_HOLD", "GESTURE"} -> [code |-> Uint32(Arg(a, 1))]
      [] OTHER -> [code |-> Uint32(mem.code)]

\* The event itself is on the stack behind the arguments: luaL_optinteger finds it in
\* the place of the first missing argument, and refuses it. Arguments are not nil.
New(type, a, mem) ==
    IF type \in MouseTypes /\ Len(a) \in 2 .. 4 THEN Error
    ELSE [type |-> type, u |-> Filled(type, a, mem)]

getScroll(e) == IF e.type = "SCROLL" THEN <<e.u.code>> ELSE Error
getKeycode(e) == IF e.type \in KeyTypes THEN <<Pushed(e.u.code)>> ELSE Error
getUnicode(e) == IF e.type = "CHAR_PRESS" THEN <<e.u.code>> ELSE Error
getActionInternal(e) == IF e.type = "ACTION_INDEX" THEN <<e.u.code>> ELSE Error
getMotion(e) == IF e.type = "MOTION" THEN <<e.u.x, e.u.y, e.u.z>> ELSE Error
getSwitch(e) == IF e.type = "SWITCH" THEN <<Sint16(e.u.code), Sint16(e.u.value)>> ELSE Error
getIRCode(e) == IF e.type \in IRTypes THEN <<Pushed(e.u.code)>> ELSE Error
getGesture(e) == IF e.type = "GESTURE" THEN <<Pushed(e.u.code)>> ELSE Error

\* What a finger adds is left out when no finger is counted.
getMouse_PressureFirst(e) ==
    IF e.type \notin MouseTypes THEN Error
    ELSE IF e.u.count = 0 THEN <<e.u.x, e.u.y>>
    ELSE <<e.u.x, e.u.y, e.u.count, e.u.pressure, e.u.width, IF e.u.chiralActive THEN e.u.chiral ELSE Nil>>
getMouse(e) ==
    IF e.type \notin MouseTypes THEN Error
    ELSE IF e.u.count = 0 THEN <<e.u.x, e.u.y>>
    ELSE <<e.u.x, e.u.y, e.u.count, e.u.width, e.u.pressure, IF e.u.chiralActive THEN e.u.chiral ELSE Nil>>

event_methods(e) ==
    [getScroll |-> getScroll(e), getKeycode |-> getKeycode(e), getUnicode |-> getUnicode(e),
     getMouse |-> getMouse(e), getActionInternal |-> getActionInternal(e), getMotion |-> getMotion(e),
     getSwitch |-> getSwitch(e), getIRCode |-> getIRCode(e), getGesture |-> getGesture(e)]

\* The numbers "tostring" shows of an event, beside its ticks: "%d" takes an int, and
\* what the union holds goes there without the casts and conditions of the getters.
Tostring(e) ==
    CASE e.type \in MouseTypes ->
            IF e.u.count = 0 THEN <<e.u.x, e.u.y>>
            ELSE <<e.u.x, e.u.y, e.u.count, e.u.width, e.u.pressure, e.u.chiral>>
      [] e.type = "MOTION" -> <<e.u.x, e.u.y, e.u.z>>
      [] e.type = "SWITCH" -> <<e.u.code, e.u.value>>
      [] e.type \in IRTypes -> <<Unspecified>>
      [] e.type = "SHOW" -> <<>>
      [] OTHER -> <<Sint32(e.u.code)>>

-----------------------------------------------------------------------------
(* Properties *)

\* How many values an event of a type has, when it was made with them
Given(type, a) == CASE type \in MouseTypes -> IF Arg(a, 3) % 65536 = 0 THEN 2 ELSE 5
                    [] type = "MOTION" -> 3
                    [] type \in {"SWITCH", "IR_DOWN", "IR_UP", "IR_REPEAT"} -> 0
                    [] OTHER -> 1

\* The numbers that an event of a type can carry: how many there are, and the least
Width(type) == IF type \in MouseTypes \cup {"CHAR_PRESS", "MOTION", "SWITCH"} THEN 65536 ELSE Word
Least(type) ==
    IF type \in MouseTypes \cup {"CHAR_PRESS"} THEN 0
    ELSE IF type \in KeyTypes \cup IRTypes \cup {"GESTURE"} /\ Wide THEN 0
    ELSE -(Width(type) \div 2)

\* No getter reads another member of the union than the one that was stored, and what
\* was stored comes back: as it was given when the type can carry the number, as the
\* number of that type with the same bits when it cannot. So a negative code of a key,
\* of the remote or of a gesture comes back as it was where lua_Integer has 32 bits,
\* and as a positive one where it has 64. The chiral value of a finger, and the codes
\* of IR_DOWN, IR_UP, IR_REPEAT and of SWITCH, only come from the C side. "tostring"
\* shows the numbers of the getter up to their sign, but for the codes of a remote and
\* for a chiral value that is not active, which it shows all the same. An event of the
\* mouse is made with all of its five arguments, or with its x at most.
ReadsBack(type, a, mem) ==
    New(type, a, mem) # Error =>
    LET e == New(type, a, mem)
        got == {g \in DOMAIN event_methods(e) : event_methods(e)[g] # Error}
        SameBits(m, n) == (m - n) % Width(type) = 0
    IN  /\ Cardinality(got) = IF type = "SHOW" THEN 0 ELSE 1
        /\ \A g \in got :
            LET values == event_methods(e)[g]
            IN  /\ \A i \in 1 .. Given(type, a) :
                       /\ values[i] \in Least(type) .. Least(type) + Width(type) - 1
                       /\ SameBits(values[i], Arg(a, i))
                /\ Len(Tostring(e)) = Len(values)
                /\ \A i \in DOMAIN values :
                       type \in IRTypes \/ values[i] = Nil \/ SameBits(Tostring(e)[i], values[i])
=============================================================================
