------------------------------ MODULE BackupProps ------------------------------
(* What the files of backups are good for. *)
EXTENDS Backup

\* A backup or safety copy can be restored, unless a user or boxes were added while it
\* was captured, or a second job opened its temporary file before the first had moved it:
\* it is whole, although the server may stop at any moment, and changes and deletions
\* between its five queries do no harm (DatabaseBackupService.cs:168-174, 425-462, 464-469).
BackupRestorable ==
    \A f \in FileNames : files[f] # Nothing =>
      \/ files[f].shared
      \/ files[f].tables # Nothing /\ (ValidTables(files[f].tables) \/ files[f].torn)

\* What the last restore replaced is in the folder under the name of its safety copy,
\* unless the database was changed while the copy was made or before the transaction, an
\* administrator deleted it, another restore took the same name in the same second, or
\* KeepCopies newer safety copies were made (DatabaseBackupService.cs:152-160, 356-375).
ReplacedIsKept ==
    past # Nothing =>
      \/ past.changed
      \/ /\ files[past.name] # Nothing
         /\ files[past.name].again \/ files[past.name].tables = past.tables

================================================================================
