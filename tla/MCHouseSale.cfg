\* What houseSell and houseBuy say of who may get a house.
CONSTANTS
    Player = {p1, p2, p3}
    Item = {x}
    Bag = {}
    House = {h1, h2}
    Ground = Ground
    NoPlayer = NoPlayer
    NoItem = NoItem
    NoHouse = NoHouse
    Premium = {p1, p2, p3}
    NeedPremium = FALSE
SPECIFICATION Spec
PROPERTIES
    SoldAsChecked
