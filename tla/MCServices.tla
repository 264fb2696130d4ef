-------------------------------- MODULE MCServices --------------------------------
(***************************************************************************)
(* Maintenance, Backup, LoginThrottle and BankSlots for TLC.  Their        *)
(* variables are their own, so each is explored by itself: part says which *)
(* one moves, and the others stay as they are at the start.                *)
(***************************************************************************)
EXTENDS MaintenanceProps, BackupProps, ThrottleProps, BankSlotsProps, TLC

CONSTANTS
    k1, k2, u1,      \* consoles and their user
    a1, a2           \* users in the backups, a1 an administrator

VARIABLE part

servicesVars == <<part, maintenanceVars, backupVars, throttleVars, slotVars>>

ServicesInit ==
    /\ part \in {"bank", "backup", "throttle", "slots"}
    /\ MaintenanceInit /\ BackupInit /\ ThrottleInit /\ SlotsInit
    /\ part # "bank" => /\ \A b \in BankSlots : rows[b] = None
                        /\ \A i \in SaveSlots : game[k2][i] = Blank
    /\ part # "slots" => \A n \in SlotOptions : slotsPerBox <= n

ServicesNext ==
    /\ UNCHANGED part
    /\ \/ /\ part = "bank" /\ MaintenanceNext
          /\ UNCHANGED <<backupVars, throttleVars, slotVars>>
       \/ /\ part = "backup" /\ BackupNext
          /\ UNCHANGED <<maintenanceVars, throttleVars, slotVars>>
       \/ /\ part = "throttle" /\ ThrottleNext
          /\ UNCHANGED <<maintenanceVars, backupVars, slotVars>>
       \/ /\ part = "slots" /\ SlotsNext
          /\ UNCHANGED <<maintenanceVars, backupVars, throttleVars>>

ServicesSpec == ServicesInit /\ [][ServicesNext]_servicesVars

OneOwner == [b \in BankSlots |-> u1]
OneUser == [c \in Consoles |-> u1]

\* A file from a bank with nothing in it.
EmptyFile == {[b \in BankSlots |-> None]}

\* A file with two users and their boxes.
TwoUsersFile == {[n \in TableNames |-> IF n \in {"users", "boxes"} THEN {a1, a2} ELSE {}]}

\* Slots that a box has, that one has after a restart, and that none has.
NamedSlots == -1..3

Symmetry == Permutations(Mons) \cup Permutations(BankSlots) \cup Permutations(Sessions)
              \cup Permutations(SaveSlots)

================================================================================
