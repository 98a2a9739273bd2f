\* Safety of the task engine: two ordinary tasks, save-and-shutdown signal.
CONSTANTS
    Task = {e1, e2, quit, final, term}
    NoTask = NoTask
    SaveAndStop = quit
    Final = final
    Terminate = term
    Signals = {"SIGQUIT"}
    MaxDelay = 1
    MaxLate = 1
    MaxEventId = 2
    MaxCalls = 1
    Spurious = TRUE
SPECIFICATION Spec
SYMMETRY OrdinarySymmetry
INVARIANTS
    OneOwner
    StoppedEventNeverRuns
    ActiveIdsAreExact
    ReturnedIdIsRead
    HandedEventsNeverExpire
    ClosedHasItsEnd
