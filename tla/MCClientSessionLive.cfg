\* Liveness of a client's session, without races on the counts.
CONSTANTS
    Msg = {m1}
    NoMsg = NoMsg
    LostUpdates = {}
SPECIFICATION FairSpec
PROPERTIES
    ClosedIsFreed
