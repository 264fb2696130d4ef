SPECIFICATION Spec
CONSTANTS
    k1 = k1
    k2 = k2
    b1 = b1
    u1 = u1
    u2 = u2
    Consoles = {k1, k2}
    Switches = {k2}
    Users = {u1, u2}
    Mons = {m1, m2}
    SaveSlots = {i1, i2}
    BankSlots = {b1, b2}
    Sessions = {s1, s2}
    BankOwner <- OneOwner
    UserOf <- OneUser
    Blank = Blank
    None = None
    Faults = {"lost", "crash", "restart", "expiry"}
SYMMETRY Symmetry
INVARIANTS TypeOK NoLoss SessionBalance AbandonKeepsCopy FinalizeKeepsCopy

