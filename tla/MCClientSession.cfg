\* Safety of a client's session.
CONSTANTS
    Msg = {m1, m2}
    NoMsg = NoMsg
    LostUpdates = {0}
SPECIFICATION Spec
SYMMETRY MsgSymmetry
INVARIANTS
    RefsAreExact
    NoUseAfterDelete
    OneCloseTask
    OneOperation
    BufferIsNotEncoded
