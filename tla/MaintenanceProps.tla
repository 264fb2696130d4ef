----------------------------- MODULE MaintenanceProps -----------------------------
(***************************************************************************)
(* What restoring the bank under open transfers preserves.                 *)
(***************************************************************************)
EXTENDS Maintenance, TransferProps

\* A Pokemon that can be had: some row of it is banked, or is one that a session
\* will give back or take (VisibleInBank, HeldForUserAsync, ReconcileOrphansAsync
\* overlook any other row for ever).
Reachable(m) ==
    \E b \in BankSlots :
      rows[b] # None /\ rows[b].mon = m /\ (rows[b].committed \/ rows[b].held # None)

\* A Pokemon that a restore brought back is in the bank or in a game from then on,
\* until somebody deletes it, although consoles that opened their sessions before
\* the restore go on with copies, holds and deposits of the bank that is gone
\* (DatabaseBackupService.cs:299-300: Committed = true, HeldBySessionId = null).
RestoredIsKept ==
    \A m \in kept : Reachable(m) \/ \E c \in Consoles : Has(game[c], m)

\* Nothing is lost beyond what a restore throws away for good: every Pokemon that
\* nobody deleted is in a game, in the bank or in a file that was written, unless
\* it came to the bank between the safety copy of a restore and its transaction
\* (DatabaseBackupService.cs:155-158).
RestoreCanBeUndone ==
    \A m \in Mons \ forsaken :
      \/ InBank(m)
      \/ \E c \in Consoles : Has(game[c], m)
      \/ \E t \in copies : m \in MonsIn(t)

================================================================================
