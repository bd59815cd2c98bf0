CONSTANTS
    RETURN = RETURN
    END = END
    UP = UP
    A = A
    none = none
    alt = alt
    any = any
    Bits = {0, 1, 2}
    Syms = {RETURN, END, UP, A}
    Mods = {none, alt}
    AnyMod = any
    Keymap <- MCKeymap
    Presses <- MCPresses
    Repeatable = {UP}
    ClockMod = 5
    FrameTimes = {2}
    HOLD_TIMEOUT = 2
    LONG_HOLD_TIMEOUT = 3
    POINTER_TIMEOUT = 2
    QueueMax = 3
    MaxInputs = 3

SPECIFICATION Spec

INVARIANT StatesAgree
INVARIANT ReportsAgree
INVARIANT NothingStuck
PROPERTY NothingWaits

CHECK_DEADLOCK FALSE
