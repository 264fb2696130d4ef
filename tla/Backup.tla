--------------------------------- MODULE Backup ---------------------------------
(***************************************************************************)
(* Backup and restore of the whole database, and the files they leave      *)
(* (server/Services/DatabaseBackupService.cs, as Pages/Admin/Database      *)
(* calls it).  A capture is one query per table, in no transaction, while  *)
(* other requests change the tables; the captures and the restores of all  *)
(* requests exclude each other by a semaphore, but a backup is written     *)
(* after it has released it.  Files are named by the second and written    *)
(* through a temporary file.                                               *)
(*                                                                         *)
(* A table is the set of the users that have rows in it: what a restore    *)
(* may refuse, or spoil, is that a row's user or box is missing.  Devices  *)
(* and pairing codes are read and checked alike, and are one table here.   *)
(***************************************************************************)
EXTENDS Integers, FiniteSets, Sequences

CONSTANTS
    Owners,          \* ids of users
    AdminIds,        \* those that are administrators
    Jobs,            \* requests of administrators
    KeepCopies,      \* 10 in the code
    FileUploads,     \* what uploaded files hold
    MaxSecond, MaxJobs, MaxChanges,   \* bounds: of the clock, of jobs, of changes to the tables
    Nothing

TableNames == {"users", "devices", "boxes", "pokemon"}
Tables == [TableNames -> SUBSET Owners]

\* "pockettransfer-" and "pre-restore-".
FileNames == {"backup", "copy"} \X (0..MaxSecond)

\* What is under a name: the tables, or Nothing if it is not all written.  torn: users or
\* boxes were added while they were read; shared: a job opened it while another wrote it or
\* had not moved it yet; again: it replaced a file of this name.
File == [tables : Tables \cup {Nothing}, torn : BOOLEAN, shared : BOOLEAN, again : BOOLEAN]

\* next: the table to read; changed: since it read the first one the database was changed,
\* or its safety copy was deleted.
Job == [kind : {"create", "download", "restore"},
        place : {"gate", "read", "open", "write", "move", "prune", "replace"},
        next : 1..5, tables : Tables, name : FileNames \cup {Nothing},
        torn : BOOLEAN, changed : BOOLEAN, target : Tables \cup {Nothing}]

\* The tables that a restore replaced, and the name of its safety copy.
Past == [tables : Tables, name : FileNames, changed : BOOLEAN]

ASSUME BackupAssumption ==
    /\ AdminIds \subseteq Owners
    /\ KeepCopies \in Nat \ {0}
    /\ FileUploads \subseteq Tables
    /\ MaxSecond \in Nat /\ MaxJobs \in Nat /\ MaxChanges \in Nat
ASSUME NothingAssumption ==
    Nothing \notin Tables \cup File \cup Job \cup Past \cup FileNames \cup Jobs

VARIABLES
    db,
    jobs,
    gate,        \* who has the semaphore
    files, tmp,  \* the folder
    second,      \* the clock: it is not set back
    started, changes,   \* how many jobs and changes there were
    past         \* of the last restore, as long as its copy is not deleted or pruned on purpose

backupVars == <<db, jobs, gate, files, tmp, second, started, changes, past>>

\* The gate is held by a job that has entered it.
BackupTypeOK ==
    /\ db \in Tables
    /\ jobs \in [Jobs -> Job \cup {Nothing}]
    /\ gate \in Jobs \cup {Nothing}
    /\ gate # Nothing => jobs[gate] # Nothing /\ jobs[gate].place # "gate"
    /\ files \in [FileNames -> File \cup {Nothing}] /\ tmp \in [FileNames -> File \cup {Nothing}]
    /\ second \in 0..MaxSecond /\ started \in 0..MaxJobs /\ changes \in 0..MaxChanges
    /\ past \in Past \cup {Nothing}

NoRows == [n \in TableNames |-> {}]

BackupInit ==
    /\ \E u \in AdminIds : db = [NoRows EXCEPT !["users"] = {u}, !["boxes"] = {u}]
    /\ jobs = [j \in Jobs |-> Nothing]
    /\ gate = Nothing
    /\ files = [f \in FileNames |-> Nothing] /\ tmp = [f \in FileNames |-> Nothing]
    /\ second = 0 /\ started = 0 /\ changes = 0
    /\ past = Nothing

--------------------------------------------------------------------------------
(* What other requests do to the tables meanwhile. *)

RowsAdded(name, u) == [db EXCEPT ![name] = @ \cup {u}]

RowsRemoved(names, u) == [n \in TableNames |-> IF n \in names THEN db[n] \ {u} ELSE db[n]]

\* A job that reads tables sees it happen.
Changed(newDb, tears) ==
    /\ changes < MaxChanges /\ changes' = changes + 1
    /\ newDb # db /\ db' = newDb
    /\ jobs' = [j \in Jobs |->
                  IF jobs[j] # Nothing /\ jobs[j].next > 1
                    THEN [jobs[j] EXCEPT !.changed = TRUE,
                                         !.torn = @ \/ (tears /\ jobs[j].place = "read")]
                    ELSE jobs[j]]
    /\ UNCHANGED <<gate, files, tmp, second, started, past>>

AddUser(u) == Changed(RowsAdded("users", u), TRUE)
AddBoxes(u) == u \in db["users"] /\ Changed(RowsAdded("boxes", u), TRUE)
AddDevice(u) == u \in db["users"] /\ Changed(RowsAdded("devices", u), FALSE)
RemoveDevice(u) == Changed(RowsRemoved({"devices"}, u), FALSE)
AddPokemon(u) == u \in db["boxes"] /\ Changed(RowsAdded("pokemon", u), FALSE)
RemovePokemon(u) == Changed(RowsRemoved({"pokemon"}, u), FALSE)

\* DeleteUserAsync: with all rows of the user, and not the last administrator.
RemoveUser(u) ==
    /\ (db["users"] \ {u}) \cap AdminIds # {}
    /\ Changed(RowsRemoved(TableNames, u), FALSE)

--------------------------------------------------------------------------------
(* Jobs. *)

InPlace(j, place) == jobs[j] # Nothing /\ jobs[j].place = place
MovesTo(j, job) == jobs' = [jobs EXCEPT ![j] = job]
Finishes(j) == jobs' = [jobs EXCEPT ![j] = Nothing]

\* A faulty variant of ReleaseGate: a restore keeps it.
ReleaseByBackup(j) ==
    gate' = IF gate = j /\ jobs[j].kind # "restore" THEN Nothing ELSE gate

\* "finally": if the job has it.
ReleaseGate(j) == gate' = IF gate = j THEN Nothing ELSE gate

NewJob(kind, t) ==
    [kind |-> kind, place |-> "gate", next |-> 1, tables |-> NoRows, name |-> Nothing,
     torn |-> FALSE, changed |-> FALSE, target |-> t]

BeginJob(j, kind, t) ==
    /\ jobs[j] = Nothing
    /\ started < MaxJobs /\ started' = started + 1
    /\ MovesTo(j, NewJob(kind, t))
    /\ UNCHANGED <<db, gate, files, tmp, second, changes, past>>

\* Validate.
ValidTables(t) ==
    /\ t["users"] \cap AdminIds # {}
    /\ t["devices"] \subseteq t["users"] /\ t["boxes"] \subseteq t["users"]
    /\ t["pokemon"] \subseteq t["boxes"]

Written == {files[f].tables : f \in {n \in FileNames : files[n] # Nothing}}

\* RestoreFromBackupAsync and ImportAsync: the file is read and parsed before all else.
BeginFileRestore(j, t) ==
    /\ t \in (Written \cup FileUploads) \ {Nothing}
    /\ ValidTables(t)
    /\ BeginJob(j, "restore", t)

\* A faulty variant of GateOpen: a backup, which changes nothing, does not wait.
GateOpenToBackups(j) == gate = Nothing \/ jobs[j].kind # "restore"

GateOpen(j) == gate = Nothing

EnterGate(j) ==
    /\ InPlace(j, "gate")
    /\ GateOpen(j)
    /\ gate' = j
    /\ MovesTo(j, [jobs[j] EXCEPT !.place = "read"])
    /\ UNCHANGED <<db, files, tmp, second, started, changes, past>>

ReadOrder == <<"users", "devices", "boxes", "pokemon">>

\* CaptureAsync: the next table.
ReadTable(j) ==
    LET job == jobs[j]
        name == ReadOrder[job.next] IN
    /\ InPlace(j, "read") /\ job.next <= Len(ReadOrder)
    /\ MovesTo(j, [job EXCEPT !.next = @ + 1, !.tables = [@ EXCEPT ![name] = db[name]]])
    /\ UNCHANGED <<db, gate, files, tmp, second, started, changes, past>>

\* The name is made.  A backup releases the gate before it is written, and a download is
\* done.
Captures(j) ==
    LET job == jobs[j] IN
    /\ InPlace(j, "read") /\ job.next > Len(ReadOrder)
    /\ IF job.kind = "download"
         THEN Finishes(j)
         ELSE MovesTo(j, [job EXCEPT !.place = "open",
                            !.name = <<IF job.kind = "restore" THEN "copy" ELSE "backup", second>>])
    /\ IF job.kind = "restore" THEN UNCHANGED gate ELSE ReleaseGate(j)
    /\ UNCHANGED <<db, files, tmp, second, started, changes, past>>

--------------------------------------------------------------------------------
(* WriteAtomicallyAsync. *)

BeingWritten(f) == \E j \in Jobs : InPlace(j, "write") /\ jobs[j].name = f

\* Another job has written the temporary file and not moved it yet.
Waiting(f) == \E j \in Jobs : InPlace(j, "move") /\ jobs[j].name = f

HalfFile(f) ==
    [tables |-> Nothing, torn |-> FALSE, shared |-> BeingWritten(f) \/ Waiting(f), again |-> FALSE]

\* A faulty variant of OpensFile: the file itself is written.
OpensInPlace(f) ==
    /\ files' = [files EXCEPT ![f] = HalfFile(f)]
    /\ tmp' = [tmp EXCEPT ![f] = HalfFile(f)]

OpensFile(f) ==
    /\ tmp' = [tmp EXCEPT ![f] = HalfFile(f)]
    /\ UNCHANGED files

OpenTmp(j) ==
    /\ InPlace(j, "open")
    /\ OpensFile(jobs[j].name)
    /\ MovesTo(j, [jobs[j] EXCEPT !.place = "write"])
    /\ UNCHANGED <<db, gate, second, started, changes, past>>

\* What a file is when a job has written it: if two have it open, either's or a mixture.
Outcomes(file, job) ==
    LET own == [file EXCEPT !.tables = job.tables, !.torn = job.torn] IN
    IF file.shared THEN {own, file, [file EXCEPT !.tables = Nothing]} ELSE {own}

\* All bytes are written.  A file that two jobs opened may have been moved by the other
\* meanwhile, and deleted.
WriteTmp(j) ==
    LET job == jobs[j]
        f == job.name IN
    /\ InPlace(j, "write")
    /\ \/ /\ tmp[f] # Nothing
          /\ \E file \in Outcomes(tmp[f], job) : tmp' = [tmp EXCEPT ![f] = file]
          /\ UNCHANGED files
       \/ /\ tmp[f] # Nothing => tmp[f].shared
          /\ \/ UNCHANGED files
             \/ /\ files[f] # Nothing /\ files[f].shared
                /\ \E file \in Outcomes(files[f], job) : files' = [files EXCEPT ![f] = file]
          /\ UNCHANGED tmp
    /\ MovesTo(j, [job EXCEPT !.place = "move"])
    /\ UNCHANGED <<db, gate, second, started, changes, past>>

SafetyCopies(fs) == {f \in FileNames : f[1] = "copy" /\ fs[f] # Nothing}

Newer(fs, f) == Cardinality({g \in SafetyCopies(fs) : g[2] > f[2]})
Older(fs, f) == Cardinality({g \in SafetyCopies(fs) : g[2] < f[2]})

\* A faulty variant of Extra: the first ones are kept.
AllButOldest(fs) == {f \in SafetyCopies(fs) : Older(fs, f) >= KeepCopies}

Extra(fs) == {f \in SafetyCopies(fs) : Newer(fs, f) >= KeepCopies}

\* The file gets its name, whoever wrote the temporary file last.
MoveFile(j) ==
    LET job == jobs[j]
        f == job.name
        file == [tmp[f] EXCEPT !.again = files[f] # Nothing] IN
    /\ InPlace(j, "move") /\ tmp[f] # Nothing
    /\ tmp' = [tmp EXCEPT ![f] = Nothing]
    /\ files' = [files EXCEPT ![f] = file]
    /\ IF job.kind = "restore" THEN MovesTo(j, [job EXCEPT !.place = "prune"]) ELSE Finishes(j)
    /\ UNCHANGED <<db, gate, second, started, changes, past>>

\* PrunePreRestore deletes the newest of the extra files first; the restore fails with it
\* if one cannot be deleted.
Prune(j) ==
    /\ InPlace(j, "prune")
    /\ \E gone \in SUBSET Extra(files) :
         /\ \A f \in gone, g \in Extra(files) \ gone : g[2] < f[2]
         /\ files' = [f \in FileNames |-> IF f \in gone THEN Nothing ELSE files[f]]
         /\ IF gone = Extra(files)
              THEN MovesTo(j, [jobs[j] EXCEPT !.place = "replace"]) /\ UNCHANGED gate
              ELSE Finishes(j) /\ ReleaseGate(j)
    /\ past' = IF past # Nothing /\ Newer(files, past.name) >= KeepCopies THEN Nothing ELSE past
    /\ UNCHANGED <<db, tmp, second, started, changes>>

\* ReplaceAllAsync, committed.
ReplaceAll(j) ==
    LET job == jobs[j] IN
    /\ InPlace(j, "replace")
    /\ db' = job.target
    /\ past' = [tables |-> db, name |-> job.name, changed |-> job.changed]
    /\ Finishes(j) /\ ReleaseGate(j)
    /\ UNCHANGED <<files, tmp, second, started, changes>>

\* Cancelled, or an I/O or database error, such as a temporary file that another job has
\* moved away: the transaction, if there is one, is rolled back.
JobFails(j) ==
    /\ jobs[j] # Nothing
    /\ Finishes(j) /\ ReleaseGate(j)
    /\ UNCHANGED <<db, files, tmp, second, started, changes, past>>

DeleteFile(f) ==
    /\ files[f] # Nothing
    /\ files' = [files EXCEPT ![f] = Nothing]
    /\ past' = IF past # Nothing /\ past.name = f THEN Nothing ELSE past
    /\ jobs' = [j \in Jobs |->
                  IF (InPlace(j, "prune") \/ InPlace(j, "replace")) /\ jobs[j].name = f
                    THEN [jobs[j] EXCEPT !.changed = TRUE] ELSE jobs[j]]
    /\ UNCHANGED <<db, gate, tmp, second, started, changes>>

--------------------------------------------------------------------------------

NextSecond ==
    /\ second < MaxSecond /\ second' = second + 1
    /\ UNCHANGED <<db, jobs, gate, files, tmp, started, changes, past>>

\* The server stops and starts again.
RestartServer ==
    /\ jobs' = [j \in Jobs |-> Nothing]
    /\ gate' = Nothing
    /\ UNCHANGED <<db, files, tmp, second, started, changes, past>>

BackupNext ==
    \/ \E u \in Owners : \/ AddUser(u) \/ AddBoxes(u) \/ AddDevice(u) \/ RemoveDevice(u)
                         \/ AddPokemon(u) \/ RemovePokemon(u) \/ RemoveUser(u)
    \/ \E j \in Jobs :
         \/ \E kind \in {"create", "download"} : BeginJob(j, kind, Nothing)
         \/ \E t \in Written \cup FileUploads : BeginFileRestore(j, t)
         \/ EnterGate(j) \/ ReadTable(j) \/ Captures(j)
         \/ OpenTmp(j) \/ WriteTmp(j) \/ MoveFile(j) \/ Prune(j)
         \/ ReplaceAll(j) \/ JobFails(j)
    \/ \E f \in FileNames : DeleteFile(f)
    \/ NextSecond \/ RestartServer

BackupSpec == BackupInit /\ [][BackupNext]_backupVars

================================================================================
