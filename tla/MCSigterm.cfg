\* What otserv.cpp says of SIGTERM.
CONSTANTS
    Task = {e1, quit, final, term}
    NoTask = NoTask
    SaveAndStop = quit
    Final = final
    Terminate = term
    Signals = {"SIGTERM"}
    MaxDelay = 1
    MaxLate = 1
    MaxEventId = 1
    MaxCalls = 1
    Spurious = FALSE
SPECIFICATION FairSpec
PROPERTIES
    SigtermEnds
