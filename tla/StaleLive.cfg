SPECIFICATION RequestsSpec
CONSTANTS
    k1 = k1
    k2 = k2
    b1 = b1
    u1 = u1
    Consoles = {k1, k2}
    Switches = {}
    Users = {u1}
    Mons = {m1}
    SaveSlots = {i1}
    BankSlots = {b1, b2}
    Sessions = {s1, s2}
    Handlers = {h1, h2}
    Gens = {0, 1, 2}
    BankOwner <- OneOwner
    UserOf <- OneUser
    DestOf <- Separate
    Blank = Blank
    None = None
    Faults = {}
SYMMETRY Symmetry
PROPERTY CommittedOnlyWhenWritten
