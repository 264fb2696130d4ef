SPECIFICATION AccountsSpec
CONSTANTS
    h1 = h1
    Consoles = {k1}
    Handlers = {h1, h2}
    AdminHandlers = {h1, h2}
    Devices = {d1}
    BoxCounts = {1}
    MaxUsers = 2
    MaxCodes = 0
    None = None
INVARIANT AdminRemains
