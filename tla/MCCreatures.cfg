\* One player, two monsters, two spots, one place of a spawn.
CONSTANTS
    p1 = p1
    m1 = m1
    m2 = m2
    None = None
    Player <- MCPlayer
    Monster <- MCMonster
    Order <- MCOrder
    Places <- MCPlaces
    Sight <- MCSight
SPECIFICATION Spec
INVARIANTS
    CountIsExact
    PointersAreInGame
    NobodyIsForgotten
PROPERTIES
    PlacesAreWatched
CHECK_DEADLOCK FALSE
