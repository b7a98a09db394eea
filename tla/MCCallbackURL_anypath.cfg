SPECIFICATION Spec
CONSTANTS
    Segments = {"bridge", "callback", "webhook"}
    Paths <- ShortPaths
    NoPath = NoPath
INVARIANTS PushesArrive
CHECK_DEADLOCK FALSE
