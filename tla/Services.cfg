SPECIFICATION ServicesSpec
CONSTANTS
    k1 = k1
    k2 = k2
    u1 = u1
    Consoles = {k1, k2}
    Switches = {k2}
    Users = {u1}
    Mons = {m1}
    SaveSlots = {i1}
    BankSlots = {b1, b2}
    Sessions = {s1, s2}
    BankOwner <- OneOwner
    UserOf <- OneUser
    Blank = Blank
    None = None
    Faults = {}
    Uploads <- EmptyFile
    MaxCopies = 2

    a1 = a1
    a2 = a2
    Owners = {a1, a2}
    AdminIds = {a1}
    Jobs = {j1, j2}
    KeepCopies = 1
    FileUploads <- TwoUsersFile
    MaxSecond = 1
    MaxJobs = 2
    MaxChanges = 2
    Nothing = Nothing

    Threads = {t1, t2}
    Ips = {p1}
    Logins = {l1}
    Counters = {1, 2, 3, 4}
    IpLimit = 3
    FailureLimit = 2
    Window = 2
    PruneEvery = 2
    MaxCalls = 4
    MaxClock = 3
    Null = Null

    Boxes = {0, 1}
    SlotNumbers <- NamedSlots
    SlotOptions = {2, 3}
    NotNamed = NotNamed
SYMMETRY Symmetry
INVARIANTS MaintenanceTypeOK RestoredIsKept RestoreCanBeUndone
INVARIANTS BackupTypeOK BackupRestorable ReplacedIsKept
INVARIANTS ThrottleTypeOK NoEarlyBlock GuessesBounded
INVARIANTS RoomIsFound FullIsFull
