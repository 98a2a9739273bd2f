\* Safety of parties: three players, two parties, or one that shares experience.
CONSTANTS
    Player = {p1, p2, p3}
    Address = {a1, a2}
    Scenes <- MCScenes
    NoPlayer = NoPlayer
    NoParty = NoParty
SPECIFICATION Spec
SYMMETRY PartySymmetry
INVARIANTS
    PartiesAgree
    UsersAreOnline
    SharedIsCurrent
PROPERTIES
    EndsWhenAlone
