\* Three addresses, three buckets, a script in a script, two timed calls.
CONSTANTS
    i1 = i1
    i2 = i2
    i3 = i3
    None = None
    Gone = Gone
    Item <- MCItem
    Types <- MCTypes
    Changes <- MCChanges
    Buckets = 3
    Scenes <- MCScenes
SPECIFICATION Spec
INVARIANTS
    ItemsAreCounted
    MarkedAreListed
    OnTime
    TimersAreDue
CHECK_DEADLOCK FALSE
