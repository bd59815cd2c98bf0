SPECIFICATION AllSpec
CONSTANTS
    a = a
    b = b
    c = c
    d = d
    None = None
    Tasks = {a, b, c, d}
    Priority <- MCPriority
    FrameTurns = 3
    Icons = {i1}
    Keys = {k1, k2}
    RemoteKeys = {k2}
    NoKey = NoKey
    MaxFetches = 2
    MaxQueue = 2
    MaxFaults = 3

INVARIANT ListIntact
PROPERTY StaleOnlyBehindRemoved
PROPERTY TurnComes
PROPERTY QueueDrains
