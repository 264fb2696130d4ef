SPECIFICATION AccountsSpec
CONSTANTS
    h1 = h1
    Consoles = {k1, k2}
    Handlers = {h1, h2}
    AdminHandlers = {h1}
    Devices = {d1, d2}
    BoxCounts = {2}
    MaxUsers = 2
    MaxCodes = 2
    None = None
SYMMETRY Symmetry
INVARIANT AccountsTypeOK
INVARIANT AdminRemains
INVARIANT CodePairsOne
INVARIANT BoxesHaveNoGap
PROPERTY CodeOpensItsAccount
PROPERTY TokenAfterBoxes
