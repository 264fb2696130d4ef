SPECIFICATION Spec
CONSTANTS
    k1 = k1
    k2 = k2
    b1 = b1
    u1 = u1
    u2 = u2
    Consoles = {k1, k2}
    Switches = {k2}
    Users = {u1, u2}
    Mons = {m1, m2}
    SaveSlots = {i1, i2}
    BankSlots = {b1, b2}
    Sessions = {s1, s2, s3}
    BankOwner <- OneOwner
    UserOf <- OneUser
    Blank = Blank
    None = None
    Faults = {"lost", "crash"}
SYMMETRY Symmetry
INVARIANTS ExactlyOnce NothingShownTwice
PROPERTY CommittedOnlyWhenWritten
