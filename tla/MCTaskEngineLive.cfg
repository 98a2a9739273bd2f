\* Liveness of the task engine, without spurious wake-ups.
CONSTANTS
    Task = {e1, e2, quit, final, term}
    NoTask = NoTask
    SaveAndStop = quit
    Final = final
    Terminate = term
    Signals = {"SIGQUIT"}
    MaxDelay = 1
    MaxLate = 1
    MaxEventId = 1
    MaxCalls = 0
    Spurious = FALSE
SPECIFICATION FairSpec
PROPERTIES
    NoWakeUpIsLost
    ShutdownEnds
