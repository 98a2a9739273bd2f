\* Safety of logins: one character on three clients; four characters on two, with
\* room for one.  The process may stop once the game has shut down.
CONSTANTS
    Client = {c1, c2, c3}
    Body = {b1, b2}
    plain = plain
    premium = premium
    master = master
    other = other
    Casts <- MCCasts
    Premium = {premium}
    AlwaysLogin = {master}
    AccountOf <- MCAccountOf
    MaxPlayers = 1
    PremiumSkips = FALSE
    OneOnAccount = TRUE
    NoClient = NoClient
    NoBody = NoBody
SPECIFICATION Spec
SYMMETRY LoginSymmetry
CHECK_DEADLOCK FALSE
INVARIANTS
    PlayersAreHeld
    OneClientEach
    ConnectingIsPending
    OncePerAccount
PROPERTIES
    WaitInOrder
