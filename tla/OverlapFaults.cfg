SPECIFICATION RequestsSpec
CONSTANTS
    k1 = k1
    k2 = k2
    b1 = b1
    u1 = u1
    Consoles = {k1, k2}
    Switches = {k1, k2}
    Users = {u1}
    Mons = {m1}
    SaveSlots = {i1}
    BankSlots = {b1}
    Sessions = {s1, s2}
    Handlers = {h1, h2}
    Gens = {0, 1, 2}
    BankOwner <- OneOwner
    UserOf <- OneUser
    DestOf <- Shared
    Blank = Blank
    None = None
    Faults = {"lost", "crash", "saveChanges", "tornWrite"}
SYMMETRY Symmetry
INVARIANT RequestsTypeOK
PROPERTY PendingIsOwn
