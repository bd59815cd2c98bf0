SPECIFICATION Spec
INVARIANT ReadAsGiven
INVARIANT MetersRead
INVARIANT AskedSuffices
INVARIANT SeenIsActedOn
INVARIANT HeardOnce
PROPERTY ConsumedStops
CHECK_DEADLOCK FALSE
