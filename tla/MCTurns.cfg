SPECIFICATION Spec
CONSTANTS
    Turns = {t1, t2}
    Queries = {hard, browse}
    browse = browse
    Similar <- MCSimilar
    Tier <- MCTier
    Endpoints <- MCEndpoints
    Price <- MCPrice
    Cap = 2
    L2Max = 1
    Switches = {"global"}
    GrantSize = 4
    Scopes <- MCScopes
INVARIANTS LadderTypeOK L1IsOfItsVersion FrontierWithinCap BooksAgree
SYMMETRY TurnSymmetry
