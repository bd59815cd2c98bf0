SPECIFICATION Spec
INVARIANT LayoutsFit
INVARIANT DrawnAsAsked
INVARIANT TextShown
INVARIANT TextInputSound
CHECK_DEADLOCK FALSE
