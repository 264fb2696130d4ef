----------------------------- MODULE MaintenanceProofs -----------------------------
(***************************************************************************)
(* Restores and deletions under open transfers, for any number of consoles *)
(* and sessions.  A restore leaves every row in nobody's hands, so that a  *)
(* restored Pokemon starts out Safe in the sense of NoLossProofs, and no   *)
(* step of a transfer harms what is Safe.  A Pokemon that is not in the    *)
(* bank is Safe by its game alone, and no restore touches the games.       *)
(***************************************************************************)
EXTENDS NoLossProofs, MaintenanceProps, FiniteSetTheorems

MaintenanceTypes ==
    /\ copies \subseteq Table
    /\ \A t \in copies, b \in BankSlots : t[b] # None => t[b].held = None
    /\ target \in Table \cup {None} /\ safety \in Table \cup {None}
    /\ kept \subseteq Mons /\ forsaken \subseteq Mons

\* While a restore runs, the copy it made is among the files.
SafetyWritten == target # None => safety \in copies

Saved(m) == \E t \in copies : m \in MonsIn(t)

MaintenanceInv ==
    /\ TypeInv /\ HoldInv
    /\ MaintenanceTypes
    /\ SafetyWritten
    /\ \A m \in kept : Safe(m)
    /\ \A m \in Mons \ forsaken : Safe(m) \/ Saved(m)

--------------------------------------------------------------------------------
(* Tables. *)

\* What is captured is a table in which no row is held, with the same Pokemon.
LEMMA CapturedTable ==
    ASSUME NEW t \in Table
    PROVE  /\ Captured(t) \in Table
           /\ \A b \in BankSlots : Captured(t)[b] # None => Captured(t)[b].held = None
           /\ MonsIn(Captured(t)) = MonsIn(t)
<1>1. ASSUME NEW b \in BankSlots, t[b] # None
      PROVE  /\ Captured(t)[b] \in Row /\ Captured(t)[b].held = None
             /\ Captured(t)[b].mon = t[b].mon
  BY <1>1 DEF Captured, Table, Row
<1>2. ASSUME NEW b \in BankSlots
      PROVE  t[b] = None <=> Captured(t)[b] = None
  BY <1>1, <1>2, NoRowAssumption DEF Captured
<1>3. Captured(t) \in Table
  BY <1>1, <1>2 DEF Captured, Table
<1>4. MonsIn(Captured(t)) = MonsIn(t)
  BY <1>1, <1>2 DEF MonsIn
<1> QED
  BY <1>1, <1>2, <1>3, <1>4

\* A file that may be restored.
LEMMA FileIsTable ==
    ASSUME MaintenanceTypes, NEW t \in copies \cup Uploads
    PROVE  t \in Table
BY CapturedTable, UploadsAssumption DEF MaintenanceTypes

\* After a restore every row is banked and the Pokemon are those of the file.
LEMMA RestoredTable ==
    ASSUME NEW t \in Table
    PROVE  /\ Restored(t) \in Table
           /\ \A b \in BankSlots : Restored(t)[b] # None =>
                Restored(t)[b].committed /\ Restored(t)[b].held = None
           /\ MonsIn(Restored(t)) = MonsIn(t)
<1>1. ASSUME NEW b \in BankSlots, t[b] # None
      PROVE  /\ Restored(t)[b] \in Row
             /\ Restored(t)[b].committed /\ Restored(t)[b].held = None
             /\ Restored(t)[b].mon = t[b].mon
  BY <1>1, SettledIsRow DEF Restored, Table
<1>2. ASSUME NEW b \in BankSlots
      PROVE  t[b] = None <=> Restored(t)[b] = None
  BY <1>1, <1>2, NoRowAssumption DEF Restored
<1>3. Restored(t) \in Table
  BY <1>1, <1>2 DEF Restored, Table
<1>4. MonsIn(Restored(t)) = MonsIn(t)
  BY <1>1, <1>2 DEF MonsIn
<1> QED
  BY <1>1, <1>2, <1>3, <1>4

--------------------------------------------------------------------------------
(* What the steps of an administrator do to a Pokemon that is Safe. *)

\* Rows that are in nobody's hands need no console.
LEMMA RestoredSafe ==
    ASSUME NEW m \in Mons, Replace, target \in Table, m \in MonsIn(target)
    PROVE  Safe(m)'
<1>1. rows' = Restored(target) /\ m \in MonsIn(rows')
  BY RestoredTable DEF Replace
<1>2. PICK b \in BankSlots : rows'[b] # None /\ rows'[b].mon = m
  BY <1>1 DEF MonsIn
<1>3. rows'[b].held = None
  BY <1>1, <1>2, RestoredTable
<1> QED
  BY <1>2, <1>3 DEF Safe, FreeRow

\* A console that keeps a Pokemon without the help of the bank keeps it whatever
\* happens to the bank.
LEMMA KeptByGame ==
    ASSUME NEW m \in Mons, Safe(m), m \notin MonsIn(rows), UNCHANGED <<store, game, console>>
    PROVE  Safe(m)'
<1>1. ~FreeRow(m) /\ \A s : ~Withdrawing(s, m) /\ ~Depositing(s, m)
  BY DEF MonsIn, FreeRow, Withdrawing, Depositing, IsPending
<1>2. PICK c \in Consoles : Keeps(c, m)
  BY <1>1 DEF Safe
<1>3. Keeps(c, m)'
  BY <1>1, <1>2 DEF Keeps, Has, console, ActiveIds
<1> QED
  BY <1>3 DEF Safe

\* Deleting a row does not harm the other Pokemon.
LEMMA DeletionSafe ==
    ASSUME NEW m \in Mons, Safe(m), NEW b \in BankSlots, rows \in Table,
           rows[b] # None, rows[b].mon # m, rows' = [rows EXCEPT ![b] = None],
           UNCHANGED <<store, game, console>>
    PROVE  Safe(m)'
<1>1. \A x \in BankSlots : rows[x] # None /\ rows[x].mon = m => rows'[x] = rows[x]
  BY DEF Table
<1>2. CASE FreeRow(m)
  BY <1>1, <1>2 DEF FreeRow, Safe, console
<1>3. ASSUME NEW c \in Consoles, Keeps(c, m)
      PROVE  Keeps(c, m)'
  <2>1. /\ Withdrawing(sess[c], m) => Withdrawing(sess[c], m)'
        /\ Depositing(sess[c], m) => Depositing(sess[c], m)'
    BY <1>1 DEF Withdrawing, Depositing, IsPending, console
  <2> QED
    BY <1>3, <2>1 DEF Keeps, Has, console, ActiveIds
<1> QED
  BY <1>2, <1>3 DEF Safe

\* Safety depends on nothing but the transfers.
LEMMA SafeStays ==
    ASSUME NEW m \in Mons, Safe(m), UNCHANGED vars
    PROVE  Safe(m)'
BY DEF vars, Safe, FreeRow, Keeps, Has, Withdrawing, Depositing, IsPending, ActiveIds

--------------------------------------------------------------------------------

LEMMA RowsAreTable == TypeInv => rows \in Table
BY DEF TypeInv, TypeOK, Table

LEMMA MaintenanceInitInv == MaintenanceInit => MaintenanceInv
<1> SUFFICES ASSUME MaintenanceInit PROVE MaintenanceInv
  OBVIOUS
<1>1. TypeInv /\ HoldInv /\ Anchored
  BY InitType, InitHold, InitAnchored DEF MaintenanceInit
<1> QED
  BY <1>1 DEF MaintenanceInit, MaintenanceInv, MaintenanceTypes, SafetyWritten, Anchored, Safe

LEMMA MaintenanceStep ==
    ASSUME Faults \cap DestructiveFaults = {}
    PROVE  MaintenanceInv /\ [MaintenanceNext]_maintenanceVars => MaintenanceInv'
<1> SUFFICES ASSUME MaintenanceInv, [MaintenanceNext]_maintenanceVars PROVE MaintenanceInv'
  OBVIOUS
<1> USE DEF MaintenanceInv
<1>t. rows \in Table /\ MaintenanceTypes
  BY RowsAreTable
<1>1. CASE TransferGoesOn
  <2>1. TypeInv' /\ HoldInv'
    BY <1>1, TypeStep, HoldStep DEF TransferGoesOn
  <2>2. \A m \in Mons : Safe(m) => Safe(m)'
    BY <1>1, SafeStep DEF TransferGoesOn
  <2> QED
    BY <1>1, <1>t, <2>1, <2>2 DEF TransferGoesOn, MaintenanceTypes, SafetyWritten, Saved, MonsIn
<1>2. CASE UNCHANGED vars /\ UNCHANGED <<kept, forsaken>> /\ copies \subseteq copies'
           /\ MaintenanceTypes' /\ SafetyWritten'
  <2>1. TypeInv' /\ HoldInv'
    BY <1>2, TypeStep, HoldStep
  <2>2. \A m \in Mons : (Safe(m) => Safe(m)') /\ (Saved(m) => Saved(m)')
    BY <1>2, SafeStays DEF Saved, MonsIn
  <2> QED
    BY <1>2, <1>t, <2>1, <2>2 DEF MaintenanceTypes
<1>3. CASE TakeBackup
  BY <1>2, <1>3, <1>t, CapturedTable DEF TakeBackup, MaintenanceTypes, SafetyWritten
<1>4. ASSUME NEW t \in copies \cup Uploads, BeginRestore(t)
      PROVE  MaintenanceInv'
  <2>1. copies' = copies \cup {safety'} /\ safety' = Captured(rows) /\ target' = t
    BY <1>4 DEF BeginRestore, WithSafetyCopy
  <2>2. t \in Table
    BY <1>t, FileIsTable
  <2>3. MaintenanceTypes' /\ SafetyWritten'
    BY <1>4, <1>t, <2>1, <2>2, CapturedTable DEF BeginRestore, MaintenanceTypes, SafetyWritten
  <2> QED
    BY <1>2, <1>4, <2>1, <2>3 DEF BeginRestore
<1>5. CASE RestoreFails
  BY <1>2, <1>5, <1>t DEF RestoreFails, MaintenanceTypes, SafetyWritten
<1>6. CASE Replace
  <2>1. target \in Table /\ safety \in copies /\ rows' = Restored(target)
        /\ UNCHANGED <<store, game, console, copies>>
    BY <1>6, <1>t DEF Replace, MaintenanceTypes, SafetyWritten
  <2>2. TypeInv'
    BY <2>1, RestoredTable DEF TypeInv, TypeOK, Table, PhaseOK, console, CommitTries
  <2>3. HoldInv'
    BY <2>1, RestoredTable
    DEF HoldInv, PendingIsHeld, SessionsUnique, HoldsAreOwn, IsPending, console
  <2>4. MaintenanceTypes' /\ SafetyWritten'
    BY <1>6, <1>t DEF Replace, MaintenanceTypes, SafetyWritten, MonsIn
  <2>5. \A m \in kept' : Safe(m)'
    BY <1>6, <2>1, RestoredSafe DEF Replace, MonsIn
  <2>6. ASSUME NEW m \in Mons \ forsaken'
        PROVE  Safe(m)' \/ Saved(m)'
    <3>1. m \notin forsaken /\ (m \in MonsIn(rows) => m \in MonsIn(safety))
      BY <1>6, <2>6 DEF Replace
    <3>2. CASE m \in MonsIn(safety) \/ Saved(m)
      BY <2>1, <3>2 DEF Saved, MonsIn
    <3>3. CASE m \notin MonsIn(rows) /\ Safe(m)
      BY <2>1, <3>3, KeptByGame
    <3> QED
      BY <3>1, <3>2, <3>3
  <2> QED
    BY <2>2, <2>3, <2>4, <2>5, <2>6
<1>7. ASSUME NEW b \in BankSlots, DeletePokemon(b)
      PROVE  MaintenanceInv'
  <2>1. rows[b] \in Row /\ rows[b] # None /\ rows' = [rows EXCEPT ![b] = None]
        /\ UNCHANGED <<store, game, console, copies, target, safety>>
    BY <1>7, <1>t DEF DeletePokemon, Table
  <2>2. TypeInv'
    BY <2>1, <1>t DEF TypeInv, TypeOK, Table, PhaseOK, console, CommitTries
  <2>3. HoldInv'
    <3>1. \A x \in BankSlots : rows'[x] # None => rows'[x] = rows[x]
      BY <2>1, <1>t DEF Table
    <3> QED
      BY <2>1, <3>1
      DEF HoldInv, PendingIsHeld, SessionsUnique, HoldsAreOwn, IsPending, console
  <2>4. MaintenanceTypes' /\ SafetyWritten'
    BY <1>7, <1>t, <2>1 DEF DeletePokemon, MaintenanceTypes, SafetyWritten, Row
  <2>5. \A m \in Mons : Safe(m) /\ m # rows[b].mon => Safe(m)'
    BY <2>1, <1>t, DeletionSafe
  <2>6. \A m \in kept' : Safe(m)'
    BY <1>7, <1>t, <2>5 DEF DeletePokemon, MaintenanceTypes
  <2>7. ASSUME NEW m \in Mons \ forsaken'
        PROVE  Safe(m)' \/ Saved(m)'
    BY <1>7, <2>1, <2>5, <2>7 DEF DeletePokemon, Saved, MonsIn
  <2> QED
    BY <2>2, <2>3, <2>4, <2>6, <2>7
<1>8. CASE UNCHANGED maintenanceVars
  BY <1>2, <1>8, <1>t DEF maintenanceVars, MaintenanceTypes, SafetyWritten
<1> QED
  BY <1>1, <1>3, <1>4, <1>5, <1>6, <1>7, <1>8 DEF MaintenanceNext

--------------------------------------------------------------------------------

\* What is safe is in the bank, where somebody can get at it, or in a game.
LEMMA SafeIsThere ==
    ASSUME TypeInv, HoldInv, NEW m \in Mons, Safe(m)
    PROVE  Reachable(m) \/ \E c \in Consoles : Has(game[c], m)
<1>1. \A b \in BankSlots : rows[b] # None => rows[b].committed \/ rows[b].held # None
  BY DEF HoldInv, PendingIsHeld, IsPending
<1>2. CASE FreeRow(m)
  BY <1>1, <1>2 DEF FreeRow, Reachable
<1>3. ASSUME NEW c \in Consoles, Keeps(c, m)
      PROVE  Reachable(m) \/ Has(game[c], m)
  <2>1. pc[c] \in Phases
    BY DEF TypeInv, TypeOK
  <2> QED
    BY <1>1, <1>3, <2>1 DEF Keeps, Phases, Withdrawing, Depositing, IsPending, Reachable
<1> QED
  BY <1>2, <1>3 DEF Safe

\* A restored Pokemon stays, whatever the sessions that were open go on to do: for
\* any number of consoles, with lost calls, crashes, restarts and expiry.
THEOREM RestoredStays ==
    ASSUME Faults \cap DestructiveFaults = {}
    PROVE  MaintenanceSpec => []RestoredIsKept
<1>1. MaintenanceInit => MaintenanceInv
  BY MaintenanceInitInv
<1>2. MaintenanceInv /\ [MaintenanceNext]_maintenanceVars => MaintenanceInv'
  BY MaintenanceStep
<1>3. MaintenanceInv => RestoredIsKept
  BY SafeIsThere DEF MaintenanceInv, RestoredIsKept, MaintenanceTypes
<1> QED
  BY <1>1, <1>2, <1>3, PTL DEF MaintenanceSpec

\* The safety copy makes a restore undoable, except for what came to the bank after
\* the copy was made and for what an administrator deleted.
THEOREM UndoIsPossible ==
    ASSUME Faults \cap DestructiveFaults = {}
    PROVE  MaintenanceSpec => []RestoreCanBeUndone
<1>1. MaintenanceInit => MaintenanceInv
  BY MaintenanceInitInv
<1>2. MaintenanceInv /\ [MaintenanceNext]_maintenanceVars => MaintenanceInv'
  BY MaintenanceStep
<1>3. MaintenanceInv => RestoreCanBeUndone
  BY SafeIsThere DEF MaintenanceInv, RestoreCanBeUndone, Saved, Reachable, InBank
<1> QED
  BY <1>1, <1>2, <1>3, PTL DEF MaintenanceSpec

\* The bank, the consoles and the files keep their types, and no file ever says who
\* holds a row (CaptureAsync leaves HeldBySessionId out).
THEOREM MaintenanceTypeCorrect ==
    ASSUME Faults \cap DestructiveFaults = {}
    PROVE  MaintenanceSpec => []MaintenanceTypeOK
<1> DEFINE Bounded == Cardinality(copies) <= MaxCopies
<1>1. MaintenanceInit => MaintenanceInv /\ Bounded
  BY MaintenanceInitInv, FS_EmptySet, MaxCopiesAssumption DEF MaintenanceInit
<1>2. MaintenanceInv /\ Bounded /\ [MaintenanceNext]_maintenanceVars => (MaintenanceInv /\ Bounded)'
  <2>1. Bounded /\ [MaintenanceNext]_maintenanceVars => Bounded'
    BY DEF MaintenanceNext, maintenanceVars, TransferGoesOn, TakeBackup, BeginRestore,
           Replace, RestoreFails, DeletePokemon
  <2> QED
    BY <2>1, MaintenanceStep
<1>3. MaintenanceInv /\ Bounded => MaintenanceTypeOK
  BY DEF MaintenanceInv, MaintenanceTypes, MaintenanceTypeOK, TypeInv
<1> QED
  BY <1>1, <1>2, <1>3, PTL DEF MaintenanceSpec

====================================================================================
