SPECIFICATION FairSpec
CONSTANTS
    k1 = k1
    k2 = k2
    b1 = b1
    u1 = u1
    u2 = u2
    Consoles = {k1, k2}
    Switches = {k2}
    Users = {u1, u2}
    Mons = {m1, m2}
    SaveSlots = {i1}
    BankSlots = {b1, b2}
    Sessions = {s1, s2}
    BankOwner <- TwoOwners
    UserOf <- TwoUsers
    Blank = Blank
    None = None
    Faults = {"lost", "crash", "restart", "expiry", "saveChanges", "tornWrite"}

INVARIANT HoldsAreOwn
PROPERTIES KeepsLifecycle ForgottenHoldsEnd TransferEnds
