------------------------------- MODULE Maintenance -------------------------------
(***************************************************************************)
(* What an administrator does to the bank while consoles are in the middle *)
(* of transfers: backups, restores and deleted Pokemon                     *)
(* (server/Services/DatabaseBackupService.cs, AdminService.cs).  These     *)
(* handlers know nothing of the save sessions, which are in memory, and    *)
(* the sessions are not told.                                              *)
(*                                                                         *)
(* A restore reads a file, keeps a safety copy of the bank and then        *)
(* replaces all rows in one transaction; transfers go on between the copy  *)
(* and the transaction.  Restores exclude each other (Gate).  The accounts *)
(* and their boxes are taken to be those of the backup; what a restore     *)
(* does to them, and to the files, is module Backup.                       *)
(***************************************************************************)
EXTENDS Transfer, FiniteSets

CONSTANTS
    Uploads,        \* tables in the files an administrator may upload (ImportAsync)
    MaxCopies       \* different copies of the bank that are ever written: a bound

Table == [BankSlots -> Row \cup {None}]

\* A faulty variant of Captured: a file says who holds a row.
CapturedWithHolder(t) == t

\* A file does not say who holds a row.
Captured(t) ==
    [b \in BankSlots |-> IF t[b] = None THEN None
                         ELSE [mon |-> t[b].mon, committed |-> t[b].committed, held |-> None]]

ASSUME UploadsAssumption == Uploads \subseteq {Captured(t) : t \in Table}
ASSUME MaxCopiesAssumption == MaxCopies \in Nat
ASSUME NoTableAssumption == None \notin Table

VARIABLES
    copies,       \* the tables in the backups and safety copies that were written
    target,       \* the table a running restore has read and will put in place
    safety,       \* the safety copy it has made
    kept,         \* the Pokemon of the last restored file that nobody deleted since
    forsaken      \* Pokemon that were deleted, or came between a safety copy and its restore

maintenanceVars == <<vars, copies, target, safety, kept, forsaken>>

MonsIn(t) == {m \in Mons : \E b \in BankSlots : t[b] # None /\ t[b].mon = m}

MaintenanceTypeOK ==
    /\ TypeOK
    /\ copies \subseteq Table /\ Cardinality(copies) <= MaxCopies
    /\ \A t \in copies, b \in BankSlots : t[b] # None => t[b].held = None
    /\ target \in Table \cup {None} /\ safety \in Table \cup {None}
    /\ kept \subseteq Mons /\ forsaken \subseteq Mons

MaintenanceInit ==
    /\ Init
    /\ copies = {} /\ target = None /\ safety = None
    /\ kept = {} /\ forsaken = {}

--------------------------------------------------------------------------------
(* Backups.  The rows of the bank are captured by one query. *)

\* CreateBackupAsync.
TakeBackup ==
    /\ copies' = copies \cup {Captured(rows)}
    /\ Cardinality(copies') <= MaxCopies
    /\ UNCHANGED <<vars, target, safety, kept, forsaken>>

\* A faulty variant of WithSafetyCopy: the copy is not written.
WithoutSafetyCopy(t) == copies

WithSafetyCopy(t) == copies \cup {t}

\* RestoreFromBackupAsync or ImportAsync, up to the transaction.
BeginRestore(t) ==
    /\ target = None
    /\ t \in copies \cup Uploads
    /\ target' = t
    /\ safety' = Captured(rows)
    /\ copies' = WithSafetyCopy(safety')
    /\ Cardinality(copies') <= MaxCopies
    /\ UNCHANGED <<vars, kept, forsaken>>

\* A faulty variant of Restored: a row that somebody holds now stays held.
RestoredStillHeld(t) ==
    [b \in BankSlots |->
       IF t[b] = None THEN None
       ELSE [mon |-> t[b].mon, committed |-> TRUE,
             held |-> IF rows[b] # None THEN rows[b].held ELSE None]]

Restored(t) == [b \in BankSlots |-> IF t[b] = None THEN None ELSE Settled(t[b])]

\* ReplaceAllAsync and the commit of its transaction.
Replace ==
    /\ target # None
    /\ rows' = Restored(target)
    /\ target' = None /\ safety' = None
    /\ kept' = MonsIn(target)
    /\ forsaken' = forsaken \cup (MonsIn(rows) \ MonsIn(safety))
    /\ UNCHANGED <<store, game, console, copies>>

\* The transaction is rolled back.
RestoreFails ==
    /\ target # None
    /\ target' = None /\ safety' = None
    /\ UNCHANGED <<vars, copies, kept, forsaken>>

\* DeletePokemonAsync takes any row, whoever holds it.
DeletePokemon(b) ==
    /\ rows[b] # None
    /\ rows' = [rows EXCEPT ![b] = None]
    /\ kept' = kept \ {rows[b].mon}
    /\ forsaken' = forsaken \cup {rows[b].mon}
    /\ UNCHANGED <<store, game, console, copies, target, safety>>

--------------------------------------------------------------------------------

TransferGoesOn ==
    /\ Next
    /\ UNCHANGED <<copies, target, safety, kept, forsaken>>

MaintenanceNext ==
    \/ TransferGoesOn
    \/ TakeBackup
    \/ \E t \in copies \cup Uploads : BeginRestore(t)
    \/ Replace \/ RestoreFails
    \/ \E b \in BankSlots : DeletePokemon(b)

MaintenanceSpec == MaintenanceInit /\ [][MaintenanceNext]_maintenanceVars

================================================================================
