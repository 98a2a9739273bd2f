\* Safety of trades: three players, a bag in a bag, one house.
CONSTANTS
    Player = {p1, p2, p3}
    Item = {b1, b2, x}
    Bag = {b1, b2}
    House = {h}
    Ground = Ground
    NoPlayer = NoPlayer
    NoItem = NoItem
    NoHouse = NoHouse
    Premium = {p1, p2, p3}
    NeedPremium = FALSE
SPECIFICATION Spec
SYMMETRY TradeSymmetry
INVARIANTS
    PartnersAgree
    PromisedOnce
    RefsReturned
    OfferIsIntact
PROPERTIES
    HandedOverByTrade
