\* Two players, a house, a coin and a bag, two faults.
CONSTANTS
    p1 = p1
    p2 = p2
    h1 = h1
    coin = coin
    bag = bag
    None = None
    Player <- MCPlayer
    House <- MCHouse
    Thing <- MCThing
    Coin <- MCCoin
    Relational = TRUE
    WarningsLimit = 1
    MaxFaults = 2
SPECIFICATION Spec
SYMMETRY MCSymmetry
INVARIANTS
    HeldOnce
    CrashKeeps
    OwnerIsStored
PROPERTIES
    ImplementsLedger
