SPECIFICATION FairSpec
CONSTANTS
    Script <- ShortLines
    Sending <- MCSending
    Flushing <- MCFlushing
    Asking <- MCAsking
    MaxIter = 3
    MaxFiles = 7
    Room = 3
INVARIANTS
    TypeOK
    ScriptRuns
    PromptSent
PROPERTIES
    PromptAgain
CHECK_DEADLOCK FALSE
