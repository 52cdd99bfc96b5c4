SPECIFICATION Spec
CONSTANTS
    Script <- LongComment
    Sending <- MCSending
    Flushing <- MCFlushing
    Asking <- MCAsking
    MaxIter = 3
    MaxFiles = 7
    Room = 3
INVARIANTS
    ScriptRuns
CHECK_DEADLOCK FALSE
