------------------------------- MODULE BackupProofs -------------------------------
(***************************************************************************)
(* A file of the backups can be restored, for any number of users and      *)
(* requests.  The argument is the order of the five queries: the rows that *)
(* a capture read later refer to rows that it read earlier, because those  *)
(* were there and what is added meanwhile is recorded as torn (ReadSoFar); *)
(* the semaphore keeps a restore out while a capture reads (JobOK); and a  *)
(* temporary file that is moved is whole unless two jobs write it (TmpOK). *)
(***************************************************************************)
EXTENDS BackupProps, FiniteSetTheorems, TLAPS

ReadSoFar(job) ==
    /\ job.next > 1 => /\ job.tables["users"] \cap AdminIds # {}
                       /\ db["users"] \subseteq job.tables["users"]
    /\ job.next > 2 => job.tables["devices"] \subseteq job.tables["users"]
    /\ job.next > 3 => /\ job.tables["boxes"] \subseteq job.tables["users"]
                       /\ db["boxes"] \subseteq job.tables["boxes"]
    /\ job.next > 4 => job.tables["pokemon"] \subseteq job.tables["boxes"]

JobOK(j, job) ==
    /\ job.kind = "restore" => job.target # Nothing /\ ValidTables(job.target)
    /\ job.place = "read" => gate = j
    /\ job.kind = "restore" /\ job.place # "gate" => gate = j
    /\ gate = j => job.kind = "restore" \/ job.place = "read"
    /\ job.place \in {"prune", "replace"} => job.kind = "restore"
    /\ job.place = "gate" => job.next = 1
    /\ job.place = "read" => job.torn \/ ReadSoFar(job)
    /\ job.place \in {"open", "write", "move", "prune", "replace"} =>
         job.name \in FileNames /\ (job.torn \/ ValidTables(job.tables))

TmpOK(f) ==
    tmp[f] # Nothing =>
      /\ tmp[f].tables # Nothing => tmp[f].torn \/ ValidTables(tmp[f].tables)
      /\ tmp[f].tables = Nothing /\ Waiting(f) => tmp[f].shared

FileOK(f) ==
    files[f] # Nothing =>
      \/ files[f].shared
      \/ files[f].tables # Nothing /\ (ValidTables(files[f].tables) \/ files[f].torn)

BackupInv ==
    /\ BackupTypeOK
    /\ ValidTables(db)
    /\ \A j \in Jobs : jobs[j] # Nothing => JobOK(j, jobs[j])
    /\ \A f \in FileNames : TmpOK(f) /\ FileOK(f)

--------------------------------------------------------------------------------

LEMMA BackupInitInv ==
    ASSUME BackupInit
    PROVE  BackupInv
<1>1. PICK u \in AdminIds : db = [NoRows EXCEPT !["users"] = {u}, !["boxes"] = {u}]
  BY DEF BackupInit
<1>2. db \in Tables /\ ValidTables(db)
  BY <1>1, BackupAssumption DEF Tables, TableNames, NoRows, ValidTables
<1>3. BackupTypeOK
  BY <1>2, BackupAssumption DEF BackupInit, BackupTypeOK
<1> QED
  BY <1>2, <1>3 DEF BackupInit, BackupInv, TmpOK, FileOK

\* A change of the tables that keeps them valid.  If it does not tear a capture it adds
\* neither users nor boxes.
LEMMA ChangedStep ==
    ASSUME BackupInv, NEW newDb \in Tables, NEW tears \in BOOLEAN, Changed(newDb, tears),
           ValidTables(newDb),
           tears \/ (newDb["users"] \subseteq db["users"] /\ newDb["boxes"] \subseteq db["boxes"])
    PROVE  BackupInv'
<1>1. /\ BackupTypeOK
      /\ db' = newDb
      /\ UNCHANGED <<gate, files, tmp, second, started, past>>
      /\ changes' \in 0..MaxChanges
  <2>1. changes \in 0..MaxChanges /\ changes < MaxChanges /\ changes' = changes + 1
    BY DEF BackupInv, BackupTypeOK, Changed
  <2>2. changes' \in 0..MaxChanges
    BY <2>1, BackupAssumption
  <2> QED
    BY <2>2 DEF BackupInv, Changed
<1>2. ASSUME NEW j \in Jobs, jobs[j] # Nothing
      PROVE  /\ jobs'[j] \in Job /\ jobs'[j] # Nothing
             /\ jobs'[j].kind = jobs[j].kind /\ jobs'[j].place = jobs[j].place
             /\ jobs'[j].next = jobs[j].next /\ jobs'[j].tables = jobs[j].tables
             /\ jobs'[j].name = jobs[j].name /\ jobs'[j].target = jobs[j].target
             /\ jobs[j].torn => jobs'[j].torn
             /\ jobs[j].next > 1 /\ jobs[j].place = "read" /\ tears => jobs'[j].torn
  <2>1. jobs[j] \in Job
    BY <1>1, <1>2 DEF BackupTypeOK
  <2>2. CASE jobs[j].next > 1
    <3> DEFINE t == jobs[j].torn \/ (tears /\ jobs[j].place = "read")
    <3>1. jobs'[j] = [jobs[j] EXCEPT !.changed = TRUE, !.torn = t]
      BY <1>2, <2>2 DEF Changed
    <3>2. t \in BOOLEAN /\ (jobs[j].torn => t) /\ (jobs[j].place = "read" /\ tears => t)
      OBVIOUS
    <3> HIDE DEF t
    <3>3. jobs'[j] \in Job /\ jobs'[j].torn = t
      BY <2>1, <3>1, <3>2 DEF Job
    <3> QED
      BY <2>1, <3>1, <3>2, <3>3, NothingAssumption DEF Job
  <2>3. CASE ~(jobs[j].next > 1)
    <3>1. jobs'[j] = jobs[j]
      BY <2>3 DEF Changed
    <3> QED
      BY <1>2, <2>1, <2>3, <3>1
  <2> QED
    BY <2>2, <2>3
<1>3. ASSUME NEW j \in Jobs, jobs[j] = Nothing
      PROVE  jobs'[j] = Nothing
  BY <1>3 DEF Changed
<1>4. BackupTypeOK'
  <2>1. jobs' \in [Jobs -> Job \cup {Nothing}]
    <3>1. jobs' = [j \in Jobs |-> jobs'[j]]
      BY DEF Changed
    <3> QED
      BY <1>2, <1>3, <3>1
  <2>2. gate' # Nothing => jobs'[gate'] # Nothing /\ jobs'[gate'].place # "gate"
    BY <1>1, <1>2 DEF BackupTypeOK
  <2> QED
    BY <1>1, <2>1, <2>2 DEF BackupTypeOK
<1>5. ASSUME NEW j \in Jobs, jobs'[j] # Nothing
      PROVE  JobOK(j, jobs[j])'
  <2>1. jobs[j] # Nothing /\ JobOK(j, jobs[j]) /\ jobs[j] \in Job
    BY <1>1, <1>3, <1>5 DEF BackupInv, BackupTypeOK
  <2>2. jobs'[j].place = "read" => jobs'[j].torn \/ ReadSoFar(jobs[j])'
    BY <1>1, <1>2, <2>1 DEF JobOK, ReadSoFar, Job
  <2> QED
    BY <1>1, <1>2, <2>1, <2>2 DEF JobOK, ValidTables
<1>6. ASSUME NEW f \in FileNames
      PROVE  TmpOK(f)' /\ FileOK(f)'
  <2>1. Waiting(f)' => Waiting(f)
    BY <1>2, <1>3 DEF Waiting, InPlace
  <2> QED
    BY <1>1, <2>1 DEF BackupInv, TmpOK, FileOK, ValidTables
<1> QED
  BY <1>1, <1>4, <1>5, <1>6 DEF BackupInv

LEMMA ChangesOfTables ==
    ASSUME BackupInv, NEW u \in Owners,
           AddUser(u) \/ AddBoxes(u) \/ AddDevice(u) \/ RemoveDevice(u)
             \/ AddPokemon(u) \/ RemovePokemon(u) \/ RemoveUser(u)
    PROVE  BackupInv'
<1>1. /\ db \in Tables /\ ValidTables(db)
      /\ \A n \in TableNames : db[n] \subseteq Owners
  BY DEF BackupInv, BackupTypeOK, Tables
<1>2. \A n \in TableNames :
        /\ RowsAdded(n, u) \in Tables
        /\ RowsAdded(n, u)[n] = db[n] \cup {u}
        /\ \A m \in TableNames \ {n} : RowsAdded(n, u)[m] = db[m]
  BY <1>1 DEF RowsAdded, Tables
<1>3. ASSUME NEW names \in SUBSET TableNames
      PROVE  /\ RowsRemoved(names, u) \in Tables
             /\ \A n \in names : RowsRemoved(names, u)[n] = db[n] \ {u}
             /\ \A n \in TableNames \ names : RowsRemoved(names, u)[n] = db[n]
  BY <1>1 DEF RowsRemoved, Tables
<1>4. CASE AddUser(u)
  BY <1>1, <1>2, <1>4, ChangedStep DEF AddUser, ValidTables, TableNames
<1>5. CASE AddBoxes(u)
  BY <1>1, <1>2, <1>5, ChangedStep DEF AddBoxes, ValidTables, TableNames
<1>6. CASE AddDevice(u)
  BY <1>1, <1>2, <1>6, ChangedStep DEF AddDevice, ValidTables, TableNames
<1>7. CASE AddPokemon(u)
  BY <1>1, <1>2, <1>7, ChangedStep DEF AddPokemon, ValidTables, TableNames
<1>8. CASE RemoveDevice(u)
  BY <1>1, <1>3, <1>8, ChangedStep DEF RemoveDevice, ValidTables, TableNames
<1>9. CASE RemovePokemon(u)
  BY <1>1, <1>3, <1>9, ChangedStep DEF RemovePokemon, ValidTables, TableNames
<1>10. CASE RemoveUser(u)
  <2> DEFINE new == RowsRemoved(TableNames, u)
  <2>1. new \in Tables /\ \A n \in TableNames : new[n] = db[n] \ {u}
    BY <1>3
  <2>2. Changed(new, FALSE) /\ (db["users"] \ {u}) \cap AdminIds # {}
    BY <1>10 DEF RemoveUser
  <2> HIDE DEF new
  <2>3. ValidTables(new)
    BY <1>1, <2>1, <2>2 DEF ValidTables, TableNames
  <2> QED
    BY <2>1, <2>2, <2>3, ChangedStep DEF TableNames
<1> QED
  BY <1>4, <1>5, <1>6, <1>7, <1>8, <1>9, <1>10

--------------------------------------------------------------------------------
(* Jobs. *)

\* What a step of one job leaves to show when it does not change the tables.
LEMMA JobStep ==
    ASSUME BackupInv, NEW j \in Jobs,
           jobs'[j] \in Job \cup {Nothing},
           jobs' = [jobs EXCEPT ![j] = jobs'[j]],
           UNCHANGED db,
           gate' \in {gate, j, Nothing}, gate' # gate => gate \in {j, Nothing},
           gate' = j => jobs'[j] # Nothing /\ jobs'[j].place # "gate",
           files' \in [FileNames -> File \cup {Nothing}],
           tmp' \in [FileNames -> File \cup {Nothing}],
           second' \in 0..MaxSecond, started' \in 0..MaxJobs, changes' \in 0..MaxChanges,
           past' \in Past \cup {Nothing},
           jobs'[j] # Nothing => JobOK(j, jobs[j])',
           \A f \in FileNames : TmpOK(f)' /\ FileOK(f)'
    PROVE  BackupInv'
<1>1. /\ BackupTypeOK
      /\ \A x \in Jobs \ {j} : jobs'[x] = jobs[x]
      /\ j # Nothing
  BY NothingAssumption DEF BackupInv, BackupTypeOK
<1>2. BackupTypeOK'
  BY <1>1 DEF BackupTypeOK
<1>3. ASSUME NEW x \in Jobs \ {j}, jobs'[x] # Nothing
      PROVE  JobOK(x, jobs[x])'
  <2>1. jobs'[x] = jobs[x] /\ JobOK(x, jobs[x]) /\ x # Nothing
    BY <1>1, <1>3, NothingAssumption DEF BackupInv
  <2>2. gate = x <=> gate' = x
    BY <1>1, <2>1, <1>3
  <2> QED
    BY <2>1, <2>2 DEF JobOK, ReadSoFar, ValidTables
<1> QED
  BY <1>2, <1>3 DEF BackupInv, ValidTables

\* A job that writes nothing.
LEMMA FilesStay ==
    ASSUME BackupInv, UNCHANGED <<files, tmp>>,
           \A f \in FileNames : Waiting(f)' => Waiting(f)
    PROVE  \A f \in FileNames : TmpOK(f)' /\ FileOK(f)'
BY DEF BackupInv, TmpOK, FileOK, ValidTables

LEMMA BeginJobStep ==
    ASSUME BackupInv, NEW j \in Jobs, NEW kind \in {"create", "download", "restore"},
           NEW t \in Tables \cup {Nothing}, kind = "restore" => t # Nothing /\ ValidTables(t),
           BeginJob(j, kind, t)
    PROVE  BackupInv'
<1> DEFINE r == NewJob(kind, t)
<1>1. /\ BackupTypeOK /\ jobs[j] = Nothing
      /\ UNCHANGED <<db, gate, files, tmp, second, changes, past>>
      /\ jobs' = [jobs EXCEPT ![j] = r] /\ jobs'[j] = r
      /\ \A x \in Jobs \ {j} : jobs'[x] = jobs[x]
  BY DEF BackupInv, BackupTypeOK, BeginJob, MovesTo
<1>2. /\ NoRows \in Tables
      /\ r = [kind |-> kind, place |-> "gate", next |-> 1, tables |-> NoRows, name |-> Nothing,
              torn |-> FALSE, changed |-> FALSE, target |-> t]
      /\ r \in Job
  BY DEF NewJob, Job, NoRows, Tables
<1>3. r # Nothing /\ r.place = "gate" /\ r.next = 1 /\ r.kind = kind /\ r.target = t
  <2>1. r.place = "gate" /\ r.next = 1 /\ r.kind = kind /\ r.target = t
    BY <1>2
  <2> HIDE DEF r
  <2> QED
    BY <1>2, <2>1, NothingAssumption
<1> HIDE DEF r
<1>4. gate # j
  BY <1>1, NothingAssumption DEF BackupTypeOK
<1>5. started' \in 0..MaxJobs
  <2>1. started \in 0..MaxJobs /\ started < MaxJobs /\ started' = started + 1
    BY <1>1 DEF BackupTypeOK, BeginJob
  <2> QED
    BY <2>1, BackupAssumption
<1>6. \A f \in FileNames : Waiting(f)' => Waiting(f)
  BY <1>1, <1>3 DEF Waiting, InPlace
<1>7. JobOK(j, jobs[j])'
  BY <1>1, <1>3, <1>4 DEF JobOK, ValidTables
<1> QED
  BY <1>1, <1>2, <1>4, <1>5, <1>6, <1>7, FilesStay, JobStep DEF BackupTypeOK

LEMMA EnterGateStep ==
    ASSUME BackupInv, NEW j \in Jobs, EnterGate(j)
    PROVE  BackupInv'
<1> DEFINE r == [jobs[j] EXCEPT !.place = "read"]
<1>1. /\ BackupTypeOK /\ jobs[j] # Nothing /\ jobs[j] \in Job
      /\ jobs[j].place = "gate" /\ JobOK(j, jobs[j])
      /\ gate = Nothing /\ gate' = j
      /\ UNCHANGED <<db, files, tmp, second, started, changes, past>>
      /\ jobs' = [jobs EXCEPT ![j] = r] /\ jobs'[j] = r
      /\ \A x \in Jobs \ {j} : jobs'[x] = jobs[x]
  BY DEF BackupInv, BackupTypeOK, EnterGate, InPlace, GateOpen, MovesTo
<1>2. /\ r \in Job /\ r # Nothing
      /\ r.place = "read" /\ r.next = 1 /\ r.kind = jobs[j].kind /\ r.target = jobs[j].target
  BY <1>1, NothingAssumption DEF Job, JobOK
<1> HIDE DEF r
<1>3. \A f \in FileNames : Waiting(f)' => Waiting(f)
  BY <1>1, <1>2 DEF Waiting, InPlace
<1>4. JobOK(j, jobs[j])'
  BY <1>1, <1>2 DEF JobOK, ReadSoFar, ValidTables
<1> QED
  BY <1>1, <1>2, <1>3, <1>4, FilesStay, JobStep DEF BackupTypeOK

LEMMA ReadTableStep ==
    ASSUME BackupInv, NEW j \in Jobs, ReadTable(j)
    PROVE  BackupInv'
<1> DEFINE name == ReadOrder[jobs[j].next]
           ts == [jobs[j].tables EXCEPT ![name] = db[name]]
           r == [jobs[j] EXCEPT !.next = jobs[j].next + 1, !.tables = ts]
<1>1. /\ BackupTypeOK /\ jobs[j] # Nothing /\ jobs[j] \in Job
      /\ jobs[j].place = "read" /\ JobOK(j, jobs[j]) /\ ValidTables(db) /\ db \in Tables
      /\ UNCHANGED <<db, gate, files, tmp, second, started, changes, past>>
      /\ jobs' = [jobs EXCEPT ![j] = r] /\ jobs'[j] = r
      /\ \A x \in Jobs \ {j} : jobs'[x] = jobs[x]
  BY DEF BackupInv, BackupTypeOK, ReadTable, InPlace, MovesTo
<1>2. jobs[j].next \in 1..4
  BY <1>1 DEF ReadTable, ReadOrder, Job
<1>3. /\ jobs[j].next = 1 => name = "users"
      /\ jobs[j].next = 2 => name = "devices"
      /\ jobs[j].next = 3 => name = "boxes"
      /\ jobs[j].next = 4 => name = "pokemon"
      /\ name \in TableNames
  BY <1>2 DEF ReadOrder, TableNames
<1> HIDE DEF name
<1>4. /\ ts \in Tables /\ ts[name] = db[name]
      /\ \A n \in TableNames \ {name} : ts[n] = jobs[j].tables[n]
  BY <1>1, <1>3 DEF Tables, Job
<1> HIDE DEF ts
<1>5. /\ r \in Job /\ r # Nothing
      /\ r.place = "read" /\ r.next = jobs[j].next + 1 /\ r.kind = jobs[j].kind
      /\ r.target = jobs[j].target /\ r.torn = jobs[j].torn /\ r.tables = ts
  <2>1. jobs[j].next + 1 \in 1..5
    BY <1>2
  <2>2. /\ r \in Job
        /\ r.place = "read" /\ r.next = jobs[j].next + 1 /\ r.kind = jobs[j].kind
        /\ r.target = jobs[j].target /\ r.torn = jobs[j].torn /\ r.tables = ts
    BY <1>1, <1>4, <2>1 DEF Job
  <2> HIDE DEF r
  <2> QED
    BY <2>2, NothingAssumption
<1> HIDE DEF r
<1>6. \A f \in FileNames : Waiting(f)' => Waiting(f)
  BY <1>1, <1>5 DEF Waiting, InPlace
<1>7. ReadSoFar(jobs[j]) => ReadSoFar(jobs[j])'
  <2> SUFFICES ASSUME ReadSoFar(jobs[j]) PROVE ReadSoFar(jobs[j])'
    OBVIOUS
  <2>1. CASE jobs[j].next = 1
    BY <1>1, <1>3, <1>4, <1>5, <2>1 DEF ReadSoFar, ValidTables
  <2>2. CASE jobs[j].next = 2
    BY <1>1, <1>3, <1>4, <1>5, <2>2 DEF ReadSoFar, ValidTables, TableNames
  <2>3. CASE jobs[j].next = 3
    BY <1>1, <1>3, <1>4, <1>5, <2>3 DEF ReadSoFar, ValidTables, TableNames
  <2>4. CASE jobs[j].next = 4
    BY <1>1, <1>3, <1>4, <1>5, <2>4 DEF ReadSoFar, ValidTables, TableNames
  <2> QED
    BY <1>2, <2>1, <2>2, <2>3, <2>4
<1>8. JobOK(j, jobs[j])'
  BY <1>1, <1>5, <1>7 DEF JobOK, ValidTables
<1>9. gate' = j => jobs'[j] # Nothing /\ jobs'[j].place # "gate"
  BY <1>1, <1>5
<1> QED
  BY <1>1, <1>5, <1>6, <1>8, <1>9, FilesStay, JobStep DEF BackupTypeOK

LEMMA CapturesStep ==
    ASSUME BackupInv, NEW j \in Jobs, Captures(j)
    PROVE  BackupInv'
<1> DEFINE name == <<IF jobs[j].kind = "restore" THEN "copy" ELSE "backup", second>>
           r == [jobs[j] EXCEPT !.place = "open", !.name = name]
<1>1. /\ BackupTypeOK /\ jobs[j] # Nothing /\ jobs[j] \in Job
      /\ jobs[j].place = "read" /\ JobOK(j, jobs[j]) /\ gate = j
      /\ UNCHANGED <<db, files, tmp, second, started, changes, past>>
  BY DEF BackupInv, BackupTypeOK, Captures, InPlace, JobOK
<1>2. jobs[j].next = 5
  BY <1>1 DEF Captures, ReadOrder, Job
<1>3. jobs[j].torn \/ ValidTables(jobs[j].tables)
  BY <1>1, <1>2 DEF JobOK, ReadSoFar, ValidTables
<1>4. name \in FileNames
  BY <1>1 DEF FileNames, BackupTypeOK
<1> HIDE DEF name
<1>5. r \in Job /\ r # Nothing /\ r.place = "open" /\ r.kind = jobs[j].kind /\ r.name = name
      /\ r.target = jobs[j].target /\ r.torn = jobs[j].torn /\ r.tables = jobs[j].tables
  <2>1. r \in Job /\ r.place = "open" /\ r.kind = jobs[j].kind /\ r.name = name
        /\ r.target = jobs[j].target /\ r.torn = jobs[j].torn /\ r.tables = jobs[j].tables
    BY <1>1, <1>4 DEF Job
  <2> HIDE DEF r
  <2> QED
    BY <2>1, NothingAssumption
<1>6. \/ /\ jobs[j].kind # "restore" /\ gate' = Nothing
         /\ \/ jobs' = [jobs EXCEPT ![j] = Nothing]
            \/ jobs' = [jobs EXCEPT ![j] = r]
      \/ jobs[j].kind = "restore" /\ gate' = gate /\ jobs' = [jobs EXCEPT ![j] = r]
  BY <1>1 DEF Captures, Finishes, MovesTo, ReleaseGate, name
<1> HIDE DEF r
<1>7. /\ jobs'[j] \in {Nothing, r} /\ jobs' = [jobs EXCEPT ![j] = jobs'[j]]
      /\ \A x \in Jobs \ {j} : jobs'[x] = jobs[x]
  BY <1>1, <1>6 DEF BackupTypeOK
<1>8. \A f \in FileNames : Waiting(f)' => Waiting(f)
  BY <1>5, <1>7 DEF Waiting, InPlace
<1>9. jobs'[j] # Nothing => JobOK(j, jobs[j])'
  BY <1>1, <1>3, <1>4, <1>5, <1>6, <1>7, NothingAssumption DEF JobOK, ValidTables
<1>10. gate' = j => jobs'[j] # Nothing /\ jobs'[j].place # "gate"
  BY <1>1, <1>5, <1>6, <1>7, NothingAssumption DEF BackupTypeOK
<1> QED
  BY <1>1, <1>5, <1>6, <1>7, <1>8, <1>9, <1>10, FilesStay, JobStep DEF BackupTypeOK

LEMMA OpenTmpStep ==
    ASSUME BackupInv, NEW j \in Jobs, OpenTmp(j)
    PROVE  BackupInv'
<1> DEFINE f == jobs[j].name
           w == BeingWritten(f) \/ Waiting(f)
           half == [tables |-> Nothing, torn |-> FALSE, shared |-> w, again |-> FALSE]
           r == [jobs[j] EXCEPT !.place = "write"]
<1>1. /\ BackupTypeOK /\ jobs[j] # Nothing /\ jobs[j] \in Job
      /\ jobs[j].place = "open" /\ JobOK(j, jobs[j]) /\ f \in FileNames
      /\ UNCHANGED <<db, gate, files, second, started, changes, past>>
      /\ tmp' = [tmp EXCEPT ![f] = half]
      /\ jobs' = [jobs EXCEPT ![j] = r] /\ jobs'[j] = r
      /\ \A x \in Jobs \ {j} : jobs'[x] = jobs[x]
  BY DEF BackupInv, BackupTypeOK, OpenTmp, OpensFile, HalfFile, InPlace, MovesTo, JobOK
<1>2. r \in Job /\ r # Nothing /\ r.place = "write" /\ r.kind = jobs[j].kind /\ r.name = f
      /\ r.target = jobs[j].target /\ r.torn = jobs[j].torn /\ r.tables = jobs[j].tables
  <2>1. r \in Job /\ r.place = "write" /\ r.kind = jobs[j].kind /\ r.name = f
        /\ r.target = jobs[j].target /\ r.torn = jobs[j].torn /\ r.tables = jobs[j].tables
    BY <1>1 DEF Job
  <2> HIDE DEF r
  <2> QED
    BY <2>1, NothingAssumption
<1> HIDE DEF r
<1>3. \A g \in FileNames : Waiting(g)' => Waiting(g)
  BY <1>1, <1>2 DEF Waiting, InPlace
<1>4. w \in BOOLEAN /\ (Waiting(f) => w)
  OBVIOUS
<1> HIDE DEF w
<1>5. half \in File /\ half.tables = Nothing /\ half.shared = w
  BY <1>4 DEF File
<1> HIDE DEF half
<1>6. tmp' \in [FileNames -> File \cup {Nothing}] /\ tmp'[f] = half
      /\ \A g \in FileNames \ {f} : tmp'[g] = tmp[g]
  BY <1>1, <1>5 DEF BackupTypeOK
<1>7. ASSUME NEW g \in FileNames PROVE TmpOK(g)' /\ FileOK(g)'
  <2>1. FileOK(g)'
    BY <1>1 DEF BackupInv, FileOK, ValidTables
  <2>2. CASE g = f
    BY <1>3, <1>4, <1>5, <1>6, <2>1, <2>2 DEF TmpOK
  <2>3. CASE g # f
    BY <1>3, <1>6, <2>1, <2>3 DEF BackupInv, TmpOK, ValidTables
  <2> QED
    BY <2>2, <2>3
<1>8. JobOK(j, jobs[j])'
  BY <1>1, <1>2 DEF JobOK, ValidTables
<1>9. gate' = j => jobs'[j] # Nothing /\ jobs'[j].place # "gate"
  BY <1>1, <1>2
<1> QED
  BY <1>1, <1>2, <1>6, <1>7, <1>8, <1>9, JobStep DEF BackupTypeOK

\* What a job has written is its tables, unless two jobs have the file open.
LEMMA WrittenFile ==
    ASSUME NEW job \in Job, NEW file \in File, NEW new \in Outcomes(file, job)
    PROVE  /\ new \in File /\ new # Nothing /\ new.shared = file.shared
           /\ \/ new.tables = job.tables /\ new.torn = job.torn
              \/ file.shared /\ new.tables = Nothing
              \/ file.shared /\ new = file
<1> DEFINE own == [file EXCEPT !.tables = job.tables, !.torn = job.torn]
           mixed == [file EXCEPT !.tables = Nothing]
<1>1. /\ own \in File /\ own.shared = file.shared /\ own.tables = job.tables /\ own.torn = job.torn
      /\ mixed \in File /\ mixed.shared = file.shared /\ mixed.tables = Nothing
  BY DEF File, Job
<1>2. new \in (IF file.shared THEN {own, file, mixed} ELSE {own})
  BY DEF Outcomes
<1> HIDE DEF own, mixed
<1> QED
  BY <1>1, <1>2, NothingAssumption

LEMMA WriteTmpStep ==
    ASSUME BackupInv, NEW j \in Jobs, WriteTmp(j)
    PROVE  BackupInv'
<1> DEFINE f == jobs[j].name
           r == [jobs[j] EXCEPT !.place = "move"]
<1>1. /\ BackupTypeOK /\ jobs[j] # Nothing /\ jobs[j] \in Job
      /\ jobs[j].place = "write" /\ JobOK(j, jobs[j]) /\ f \in FileNames
      /\ UNCHANGED <<db, gate, second, started, changes, past>>
      /\ jobs' = [jobs EXCEPT ![j] = r] /\ jobs'[j] = r
      /\ \A x \in Jobs \ {j} : jobs'[x] = jobs[x]
  BY DEF BackupInv, BackupTypeOK, WriteTmp, InPlace, MovesTo, JobOK
<1>2. r \in Job /\ r # Nothing /\ r.place = "move" /\ r.kind = jobs[j].kind /\ r.name = f
      /\ r.target = jobs[j].target /\ r.torn = jobs[j].torn /\ r.tables = jobs[j].tables
  <2>1. r \in Job /\ r.place = "move" /\ r.kind = jobs[j].kind /\ r.name = f
        /\ r.target = jobs[j].target /\ r.torn = jobs[j].torn /\ r.tables = jobs[j].tables
    BY <1>1 DEF Job
  <2> HIDE DEF r
  <2> QED
    BY <2>1, NothingAssumption
<1> HIDE DEF r
<1>3. \A g \in FileNames \ {f} : Waiting(g)' => Waiting(g)
  BY <1>1, <1>2 DEF Waiting, InPlace
<1>4. jobs[j].tables # Nothing /\ (jobs[j].torn \/ ValidTables(jobs[j].tables))
  BY <1>1, NothingAssumption DEF JobOK, Job
<1>5. \/ tmp[f] # Nothing /\ files' = files
         /\ \E file \in Outcomes(tmp[f], jobs[j]) : tmp' = [tmp EXCEPT ![f] = file]
      \/ (tmp[f] = Nothing \/ tmp[f].shared) /\ files' = files /\ tmp' = tmp
      \/ (tmp[f] = Nothing \/ tmp[f].shared) /\ tmp' = tmp
         /\ files[f] # Nothing /\ files[f].shared
         /\ \E file \in Outcomes(files[f], jobs[j]) : files' = [files EXCEPT ![f] = file]
  BY DEF WriteTmp
<1>6. /\ tmp' \in [FileNames -> File \cup {Nothing}]
      /\ files' \in [FileNames -> File \cup {Nothing}]
      /\ \A g \in FileNames \ {f} : tmp'[g] = tmp[g] /\ files'[g] = files[g]
      /\ files'[f] = files[f] \/ files'[f].shared
      /\ \/ tmp'[f] = Nothing
         \/ tmp'[f].tables = jobs[j].tables /\ tmp'[f].torn = jobs[j].torn
         \/ tmp'[f].shared /\ (tmp'[f] = tmp[f] \/ tmp'[f].tables = Nothing)
  <2>1. /\ tmp \in [FileNames -> File \cup {Nothing}] /\ files \in [FileNames -> File \cup {Nothing}]
    BY <1>1 DEF BackupTypeOK
  <2>2. ASSUME NEW file \in Outcomes(tmp[f], jobs[j]), tmp[f] # Nothing,
               tmp' = [tmp EXCEPT ![f] = file], files' = files
        PROVE  <1>6!:
    BY <1>1, <2>1, <2>2, WrittenFile
  <2>3. ASSUME NEW file \in Outcomes(files[f], jobs[j]), files[f] # Nothing, files[f].shared,
               files' = [files EXCEPT ![f] = file], tmp' = tmp, tmp[f] = Nothing \/ tmp[f].shared
        PROVE  <1>6!:
    BY <1>1, <2>1, <2>3, WrittenFile
  <2> QED
    BY <1>5, <2>1, <2>2, <2>3
<1>7. ASSUME NEW g \in FileNames PROVE TmpOK(g)' /\ FileOK(g)'
  <2>1. CASE g = f
    BY <1>4, <1>6, <2>1 DEF BackupInv, TmpOK, FileOK, ValidTables
  <2>2. CASE g # f
    BY <1>3, <1>6, <2>2 DEF BackupInv, TmpOK, FileOK, ValidTables
  <2> QED
    BY <2>1, <2>2
<1>8. JobOK(j, jobs[j])'
  BY <1>1, <1>2 DEF JobOK, ValidTables
<1>9. gate' = j => jobs'[j] # Nothing /\ jobs'[j].place # "gate"
  BY <1>1, <1>2
<1> QED
  BY <1>1, <1>2, <1>6, <1>7, <1>8, <1>9, JobStep DEF BackupTypeOK

LEMMA MoveFileStep ==
    ASSUME BackupInv, NEW j \in Jobs, MoveFile(j)
    PROVE  BackupInv'
<1> DEFINE f == jobs[j].name
           again == files[f] # Nothing
           file == [tmp[f] EXCEPT !.again = again]
           r == [jobs[j] EXCEPT !.place = "prune"]
<1>1. /\ BackupTypeOK /\ jobs[j] # Nothing /\ jobs[j] \in Job
      /\ jobs[j].place = "move" /\ JobOK(j, jobs[j]) /\ f \in FileNames
      /\ tmp[f] # Nothing /\ tmp[f] \in File
      /\ UNCHANGED <<db, gate, second, started, changes, past>>
      /\ tmp' = [tmp EXCEPT ![f] = Nothing] /\ files' = [files EXCEPT ![f] = file]
  BY DEF BackupInv, BackupTypeOK, MoveFile, InPlace, JobOK
<1>2. r \in Job /\ r # Nothing /\ r.place = "prune" /\ r.kind = jobs[j].kind /\ r.name = f
      /\ r.target = jobs[j].target /\ r.torn = jobs[j].torn /\ r.tables = jobs[j].tables
  <2>1. r \in Job /\ r.place = "prune" /\ r.kind = jobs[j].kind /\ r.name = f
        /\ r.target = jobs[j].target /\ r.torn = jobs[j].torn /\ r.tables = jobs[j].tables
    BY <1>1 DEF Job
  <2> HIDE DEF r
  <2> QED
    BY <2>1, NothingAssumption
<1>3. \/ jobs[j].kind = "restore" /\ jobs' = [jobs EXCEPT ![j] = r]
      \/ jobs[j].kind # "restore" /\ jobs' = [jobs EXCEPT ![j] = Nothing]
  BY DEF MoveFile, MovesTo, Finishes
<1> HIDE DEF r
<1>4. Waiting(f)
  BY <1>1 DEF Waiting, InPlace
<1>5. again \in BOOLEAN
  OBVIOUS
<1> HIDE DEF again
<1>6. file \in File /\ file.tables = tmp[f].tables /\ file.torn = tmp[f].torn
      /\ file.shared = tmp[f].shared
  BY <1>1, <1>5 DEF File
<1>7. \/ file.shared
      \/ file.tables # Nothing /\ (ValidTables(file.tables) \/ file.torn)
  BY <1>1, <1>4, <1>6 DEF BackupInv, TmpOK
<1> HIDE DEF file
<1>8. files' \in [FileNames -> File \cup {Nothing}] /\ files'[f] = file
      /\ \A g \in FileNames \ {f} : files'[g] = files[g]
  BY <1>1, <1>6 DEF BackupTypeOK
<1>9. /\ jobs'[j] \in {r, Nothing} /\ jobs' = [jobs EXCEPT ![j] = jobs'[j]]
      /\ \A x \in Jobs \ {j} : jobs'[x] = jobs[x]
      /\ jobs[j].kind = "restore" => jobs'[j] = r
      /\ jobs'[j] # Nothing => jobs'[j] = r /\ jobs[j].kind = "restore"
  BY <1>1, <1>3 DEF BackupTypeOK
<1>10. \A g \in FileNames : Waiting(g)' => Waiting(g)
  BY <1>2, <1>9 DEF Waiting, InPlace
<1>11. /\ tmp' \in [FileNames -> File \cup {Nothing}] /\ tmp'[f] = Nothing
       /\ \A g \in FileNames \ {f} : tmp'[g] = tmp[g]
  BY <1>1 DEF BackupTypeOK
<1>12. ASSUME NEW g \in FileNames PROVE TmpOK(g)' /\ FileOK(g)'
  <2>1. TmpOK(g)'
    BY <1>10, <1>11 DEF BackupInv, TmpOK, ValidTables
  <2>2. FileOK(g)'
    BY <1>7, <1>8 DEF BackupInv, FileOK, ValidTables
  <2> QED
    BY <2>1, <2>2
<1>13. jobs'[j] # Nothing => JobOK(j, jobs[j])'
  BY <1>1, <1>2, <1>9 DEF JobOK, ValidTables
<1>14. gate' = j => jobs'[j] # Nothing /\ jobs'[j].place # "gate"
  BY <1>1, <1>2, <1>9 DEF JobOK
<1> QED
  BY <1>1, <1>2, <1>8, <1>9, <1>11, <1>12, <1>13, <1>14, JobStep DEF BackupTypeOK

\* What Prune does, to the job and to the files: it only takes files away.
LEMMA PruneEffect ==
    ASSUME BackupInv, NEW j \in Jobs, Prune(j)
    PROVE  LET r == [jobs[j] EXCEPT !.place = "replace"] IN
           /\ jobs[j] # Nothing /\ jobs[j] \in Job /\ jobs[j].place = "prune" /\ JobOK(j, jobs[j])
           /\ UNCHANGED <<db, tmp, second, started, changes>>
           /\ past' \in {past, Nothing}
           /\ files' \in [FileNames -> File \cup {Nothing}]
           /\ \A f \in FileNames : files'[f] = files[f] \/ (files'[f] = Nothing /\ f \in Extra(files))
           /\ \A x \in Jobs \ {j} : jobs'[x] = jobs[x]
           /\ jobs' = [jobs EXCEPT ![j] = jobs'[j]]
           /\ \/ jobs'[j] = r /\ gate' = gate
              \/ jobs'[j] = Nothing /\ gate' = (IF gate = j THEN Nothing ELSE gate)
<1> DEFINE r == [jobs[j] EXCEPT !.place = "replace"]
<1>1. BackupTypeOK /\ jobs[j] # Nothing /\ jobs[j].place = "prune" /\ JobOK(j, jobs[j])
  BY DEF Prune, InPlace, BackupInv
<1>2. PICK gone \in SUBSET Extra(files) :
        /\ files' = [f \in FileNames |-> IF f \in gone THEN Nothing ELSE files[f]]
        /\ IF gone = Extra(files)
             THEN MovesTo(j, r) /\ UNCHANGED gate
             ELSE Finishes(j) /\ ReleaseGate(j)
  BY DEF Prune
<1>3. /\ files' \in [FileNames -> File \cup {Nothing}]
      /\ \A f \in FileNames : files'[f] = files[f] \/ (files'[f] = Nothing /\ f \in Extra(files))
  BY <1>1, <1>2 DEF BackupTypeOK
<1>4. \/ jobs' = [jobs EXCEPT ![j] = r] /\ gate' = gate
      \/ jobs' = [jobs EXCEPT ![j] = Nothing] /\ gate' = (IF gate = j THEN Nothing ELSE gate)
  BY <1>2 DEF MovesTo, Finishes, ReleaseGate
<1> HIDE DEF r
<1>5. /\ \A x \in Jobs \ {j} : jobs'[x] = jobs[x]
      /\ jobs' = [jobs EXCEPT ![j] = jobs'[j]]
      /\ \/ jobs'[j] = r /\ gate' = gate
         \/ jobs'[j] = Nothing /\ gate' = (IF gate = j THEN Nothing ELSE gate)
  BY <1>1, <1>4 DEF BackupTypeOK
<1>6. UNCHANGED <<db, tmp, second, started, changes>> /\ past' \in {past, Nothing}
  BY DEF Prune
<1>7. jobs[j] \in Job
  BY <1>1 DEF BackupTypeOK
<1> QED
  BY <1>1, <1>3, <1>5, <1>6, <1>7 DEF r

LEMMA PruneStep ==
    ASSUME BackupInv, NEW j \in Jobs, Prune(j)
    PROVE  BackupInv'
<1> DEFINE r == [jobs[j] EXCEPT !.place = "replace"]
<1>1. BackupTypeOK /\ past' \in Past \cup {Nothing}
  BY PruneEffect DEF BackupInv, BackupTypeOK
<1>2. /\ jobs[j] # Nothing /\ jobs[j] \in Job /\ jobs[j].place = "prune" /\ JobOK(j, jobs[j])
      /\ UNCHANGED <<db, tmp, second, started, changes>>
      /\ files' \in [FileNames -> File \cup {Nothing}]
      /\ \A f \in FileNames : files'[f] \in {files[f], Nothing}
      /\ \A x \in Jobs \ {j} : jobs'[x] = jobs[x]
      /\ jobs' = [jobs EXCEPT ![j] = jobs'[j]]
      /\ \/ jobs'[j] = r /\ gate' = gate
         \/ jobs'[j] = Nothing /\ gate' = (IF gate = j THEN Nothing ELSE gate)
  BY PruneEffect
<1>3. r \in Job /\ r # Nothing /\ r.place = "replace" /\ r.kind = jobs[j].kind
      /\ r.name = jobs[j].name /\ r.target = jobs[j].target /\ r.torn = jobs[j].torn
      /\ r.tables = jobs[j].tables
  <2>1. r \in Job /\ r.place = "replace" /\ r.kind = jobs[j].kind
        /\ r.name = jobs[j].name /\ r.target = jobs[j].target /\ r.torn = jobs[j].torn
        /\ r.tables = jobs[j].tables
    BY <1>2 DEF Job
  <2> HIDE DEF r
  <2> QED
    BY <2>1, NothingAssumption
<1> HIDE DEF r
<1>4. \A f \in FileNames : Waiting(f)' => Waiting(f)
  BY <1>2, <1>3 DEF Waiting, InPlace
<1>5. ASSUME NEW f \in FileNames PROVE TmpOK(f)' /\ FileOK(f)'
  BY <1>2, <1>4 DEF BackupInv, TmpOK, FileOK, ValidTables
<1>6. jobs'[j] # Nothing => JobOK(j, jobs[j])'
  BY <1>2, <1>3 DEF JobOK, ValidTables
<1>7. gate' = j => jobs'[j] # Nothing /\ jobs'[j].place # "gate"
  BY <1>2, <1>3, NothingAssumption
<1> QED
  BY <1>1, <1>2, <1>3, <1>5, <1>6, <1>7, JobStep DEF BackupTypeOK

LEMMA JobFailsStep ==
    ASSUME BackupInv, NEW j \in Jobs, JobFails(j)
    PROVE  BackupInv'
<1>1. /\ BackupTypeOK /\ UNCHANGED <<db, files, tmp, second, started, changes, past>>
      /\ jobs' = [jobs EXCEPT ![j] = Nothing] /\ jobs'[j] = Nothing
      /\ \A x \in Jobs \ {j} : jobs'[x] = jobs[x]
      /\ gate' = (IF gate = j THEN Nothing ELSE gate)
  BY DEF BackupInv, BackupTypeOK, JobFails, Finishes, ReleaseGate
<1>2. \A f \in FileNames : Waiting(f)' => Waiting(f)
  BY <1>1 DEF Waiting, InPlace
<1>3. gate' # j
  BY <1>1, NothingAssumption
<1> QED
  BY <1>1, <1>2, <1>3, FilesStay, JobStep DEF BackupTypeOK

LEMMA ReplaceAllStep ==
    ASSUME BackupInv, NEW j \in Jobs, ReplaceAll(j)
    PROVE  BackupInv'
<1>1. /\ BackupTypeOK /\ jobs[j] # Nothing /\ jobs[j] \in Job
      /\ jobs[j].place = "replace" /\ JobOK(j, jobs[j]) /\ gate = j
      /\ UNCHANGED <<files, tmp, second, started, changes>>
      /\ db' = jobs[j].target /\ gate' = Nothing
      /\ past' = [tables |-> db, name |-> jobs[j].name, changed |-> jobs[j].changed]
      /\ jobs' = [jobs EXCEPT ![j] = Nothing] /\ jobs'[j] = Nothing
      /\ \A x \in Jobs \ {j} : jobs'[x] = jobs[x]
  BY DEF BackupInv, BackupTypeOK, ReplaceAll, InPlace, JobOK, Finishes, ReleaseGate
<1>2. db' \in Tables /\ ValidTables(db)'
  BY <1>1 DEF JobOK, Job, ValidTables
<1>3. past' \in Past
  BY <1>1 DEF BackupTypeOK, JobOK, Past, Job
<1>4. BackupTypeOK'
  BY <1>1, <1>2, <1>3 DEF BackupTypeOK
<1>5. ASSUME NEW x \in Jobs, jobs'[x] # Nothing
      PROVE  JobOK(x, jobs[x])'
  <2>1. x # j /\ jobs'[x] = jobs[x] /\ JobOK(x, jobs[x])
    BY <1>1, <1>5 DEF BackupInv
  <2>2. gate # x /\ gate' # x
    BY <1>1, <2>1, NothingAssumption
  <2> QED
    BY <2>1, <2>2 DEF JobOK, ValidTables
<1>6. \A f \in FileNames : Waiting(f)' => Waiting(f)
  BY <1>1 DEF Waiting, InPlace
<1> QED
  BY <1>1, <1>2, <1>4, <1>5, <1>6, FilesStay DEF BackupInv

LEMMA DeleteFileStep ==
    ASSUME BackupInv, NEW f \in FileNames, DeleteFile(f)
    PROVE  BackupInv'
<1>1. /\ BackupTypeOK /\ UNCHANGED <<db, gate, tmp, second, started, changes>>
      /\ past' \in {past, Nothing}
      /\ files' = [files EXCEPT ![f] = Nothing]
  BY DEF BackupInv, DeleteFile
<1>2. ASSUME NEW j \in Jobs
      PROVE  \/ jobs'[j] = jobs[j]
             \/ jobs[j] # Nothing /\ jobs'[j] = [jobs[j] EXCEPT !.changed = TRUE]
  BY DEF DeleteFile, InPlace
<1>3. ASSUME NEW j \in Jobs, jobs[j] # Nothing
      PROVE  /\ jobs'[j] \in Job /\ jobs'[j] # Nothing
             /\ jobs'[j].kind = jobs[j].kind /\ jobs'[j].place = jobs[j].place
             /\ jobs'[j].next = jobs[j].next /\ jobs'[j].tables = jobs[j].tables
             /\ jobs'[j].name = jobs[j].name /\ jobs'[j].target = jobs[j].target
             /\ jobs'[j].torn = jobs[j].torn
  <2>1. jobs[j] \in Job
    BY <1>1, <1>3 DEF BackupTypeOK
  <2>2. CASE jobs'[j] = jobs[j]
    BY <1>3, <2>1, <2>2
  <2>3. CASE jobs'[j] = [jobs[j] EXCEPT !.changed = TRUE]
    <3>1. jobs'[j] \in Job
      BY <2>1, <2>3 DEF Job
    <3> QED
      BY <2>1, <2>3, <3>1, NothingAssumption DEF Job
  <2> QED
    BY <1>2, <2>2, <2>3
<1>4. ASSUME NEW j \in Jobs, jobs[j] = Nothing PROVE jobs'[j] = Nothing
  BY <1>2, <1>4
<1>5. BackupTypeOK'
  <2>1. jobs' \in [Jobs -> Job \cup {Nothing}]
    <3>1. jobs' = [j \in Jobs |-> jobs'[j]]
      BY DEF DeleteFile
    <3> QED
      BY <1>3, <1>4, <3>1
  <2>2. gate' # Nothing => jobs'[gate'] # Nothing /\ jobs'[gate'].place # "gate"
    BY <1>1, <1>3 DEF BackupTypeOK
  <2>3. files' \in [FileNames -> File \cup {Nothing}]
    BY <1>1 DEF BackupTypeOK
  <2> QED
    BY <1>1, <2>1, <2>2, <2>3 DEF BackupTypeOK
<1>6. ASSUME NEW j \in Jobs, jobs'[j] # Nothing PROVE JobOK(j, jobs[j])'
  <2>1. jobs[j] # Nothing /\ JobOK(j, jobs[j])
    BY <1>4, <1>6 DEF BackupInv
  <2> QED
    BY <1>1, <1>3, <2>1 DEF JobOK, ReadSoFar, ValidTables
<1>7. ASSUME NEW g \in FileNames PROVE TmpOK(g)' /\ FileOK(g)'
  <2>1. Waiting(g)' => Waiting(g)
    BY <1>3, <1>4 DEF Waiting, InPlace
  <2>2. files'[g] \in {files[g], Nothing}
    BY <1>1 DEF BackupTypeOK
  <2> QED
    BY <1>1, <2>1, <2>2 DEF BackupInv, TmpOK, FileOK, ValidTables
<1> QED
  BY <1>1, <1>5, <1>6, <1>7 DEF BackupInv, ValidTables

LEMMA NextSecondStep ==
    ASSUME BackupInv, NextSecond
    PROVE  BackupInv'
<1>1. /\ BackupTypeOK /\ UNCHANGED <<db, jobs, gate, files, tmp, started, changes, past>>
      /\ second \in 0..MaxSecond /\ second < MaxSecond /\ second' = second + 1
  BY DEF BackupInv, BackupTypeOK, NextSecond
<1>2. second' \in 0..MaxSecond
  BY <1>1, BackupAssumption
<1>3. BackupTypeOK'
  BY <1>1, <1>2 DEF BackupTypeOK
<1> QED
  BY <1>1, <1>3 DEF BackupInv, ValidTables, JobOK, ReadSoFar, TmpOK, FileOK, Waiting, InPlace

LEMMA RestartServerStep ==
    ASSUME BackupInv, RestartServer
    PROVE  BackupInv'
<1>1. /\ BackupTypeOK /\ UNCHANGED <<db, files, tmp, second, started, changes, past>>
      /\ gate' = Nothing /\ jobs' = [j \in Jobs |-> Nothing]
  BY DEF BackupInv, RestartServer
<1>2. BackupTypeOK'
  BY <1>1 DEF BackupTypeOK
<1>3. \A f \in FileNames : Waiting(f)' => Waiting(f)
  BY <1>1 DEF Waiting, InPlace
<1> QED
  BY <1>1, <1>2, <1>3, FilesStay DEF BackupInv, ValidTables

LEMMA BeginFileRestoreStep ==
    ASSUME BackupInv, NEW j \in Jobs, NEW t, BeginFileRestore(j, t)
    PROVE  BackupInv'
<1>1. /\ t \in (Written \cup FileUploads) \ {Nothing}
      /\ ValidTables(t) /\ BeginJob(j, "restore", t)
  BY DEF BeginFileRestore
<1>2. Written \subseteq Tables \cup {Nothing}
  BY DEF Written, BackupInv, BackupTypeOK, File
<1>3. t \in Tables /\ t # Nothing
  BY <1>1, <1>2, BackupAssumption
<1> QED
  BY <1>1, <1>3, BeginJobStep

LEMMA BackupStep ==
    ASSUME BackupInv, [BackupNext]_backupVars
    PROVE  BackupInv'
<1>1. CASE \E u \in Owners : \/ AddUser(u) \/ AddBoxes(u) \/ AddDevice(u) \/ RemoveDevice(u)
                             \/ AddPokemon(u) \/ RemovePokemon(u) \/ RemoveUser(u)
  BY <1>1, ChangesOfTables
<1>2. ASSUME NEW j \in Jobs,
             \/ \E kind \in {"create", "download"} : BeginJob(j, kind, Nothing)
             \/ \E t \in Written \cup FileUploads : BeginFileRestore(j, t)
             \/ EnterGate(j) \/ ReadTable(j) \/ Captures(j)
             \/ OpenTmp(j) \/ WriteTmp(j) \/ MoveFile(j) \/ Prune(j)
             \/ ReplaceAll(j) \/ JobFails(j)
      PROVE  BackupInv'
  <2>1. CASE \E kind \in {"create", "download"} : BeginJob(j, kind, Nothing)
    BY <2>1, BeginJobStep
  <2>2. CASE \E t \in Written \cup FileUploads : BeginFileRestore(j, t)
    BY <2>2, BeginFileRestoreStep
  <2> QED
    BY <1>2, <2>1, <2>2, EnterGateStep, ReadTableStep, CapturesStep, OpenTmpStep,
       WriteTmpStep, MoveFileStep, PruneStep, ReplaceAllStep, JobFailsStep
<1>3. CASE \E f \in FileNames : DeleteFile(f)
  BY <1>3, DeleteFileStep
<1>4. CASE UNCHANGED backupVars
  <2>1. UNCHANGED <<db, jobs, gate, files, tmp, second, started, changes, past>>
    BY <1>4 DEF backupVars
  <2> QED
    BY <2>1 DEF BackupInv, BackupTypeOK, ValidTables, JobOK, ReadSoFar, TmpOK, FileOK,
                Waiting, InPlace
<1> QED
  BY <1>1, <1>2, <1>3, <1>4, NextSecondStep, RestartServerStep DEF BackupNext

--------------------------------------------------------------------------------

LEMMA BackupInvHolds == BackupSpec => []BackupInv
<1>1. BackupInit => BackupInv
  BY BackupInitInv
<1>2. BackupInv /\ [BackupNext]_backupVars => BackupInv'
  BY BackupStep
<1> QED
  BY <1>1, <1>2, PTL DEF BackupSpec

\* Whatever the requests and the order of their steps, all values are of their types, and
\* the semaphore is held only by a request that has entered it: none that ended, failed
\* or was cut off by a restart keeps it (DatabaseBackupService.cs:19, 146-165, 214-234).
THEOREM BackupTypeCorrect == BackupSpec => []BackupTypeOK
BY BackupInvHolds, PTL DEF BackupInv

\* Every file in the folder is whole and can be restored unless a user or boxes were added
\* during its capture or two requests wrote its temporary file, for any number of users,
\* requests and files (DatabaseBackupService.cs:168-174, 425-462, 464-469).
THEOREM BackupsRestorable == BackupSpec => []BackupRestorable
<1>1. BackupInv => BackupRestorable
  BY DEF BackupInv, FileOK, BackupRestorable
<1> QED
  BY <1>1, BackupInvHolds, PTL

--------------------------------------------------------------------------------
(***************************************************************************)
(* What a restore replaced is kept.  While a restore holds the semaphore   *)
(* nobody else replaces the tables or writes a safety copy, so what it     *)
(* has read is what is there, unless the database was changed, from its    *)
(* first query to its transaction (CopyOK); and its safety copy is the     *)
(* newest of all when the old ones are pruned.                             *)
(***************************************************************************)

ReadIsDb(job) == \A i \in 1..4 : i < job.next => job.tables[ReadOrder[i]] = db[ReadOrder[i]]

Named(job) == job.place \in {"open", "write", "move", "prune", "replace"}

NameOK(job) ==
    Named(job) =>
      /\ job.next = 5
      /\ job.name[1] = "copy" <=> job.kind = "restore"
      /\ job.name[2] <= second

\* Of a restore: what it has read, the temporary file and the file of its safety copy.
CopyOK(job) ==
    /\ job.place # "gate" => job.changed \/ ReadIsDb(job)
    /\ Named(job) => \A f \in SafetyCopies(files) : f[2] <= job.name[2]
    /\ job.place \in {"write", "move"} => tmp[job.name] # Nothing /\ ~tmp[job.name].shared
    /\ job.place = "move" => tmp[job.name].tables = job.tables
    /\ job.place \in {"prune", "replace"} =>
         job.changed \/ (files[job.name] # Nothing /\ files[job.name].tables = job.tables)

KeptJob(job) == NameOK(job) /\ (job.kind = "restore" => CopyOK(job))

KeptInv ==
    /\ BackupInv
    /\ \A j \in Jobs : jobs[j] # Nothing => KeptJob(jobs[j])
    /\ \A f \in SafetyCopies(files) : f[2] <= second
    /\ past # Nothing => past.name[1] = "copy"
    /\ ReplacedIsKept

LEMMA KeptInitInv == BackupInit => KeptInv
BY BackupInitInv DEF BackupInit, KeptInv, SafetyCopies, ReplacedIsKept

\* A restore that has entered the gate is the only one.
LEMMA OneRestore ==
    ASSUME KeptInv, NEW j \in Jobs, NEW x \in Jobs, x # j,
           jobs[j] # Nothing, jobs[j].kind = "restore", jobs[j].place # "gate",
           jobs[x] # Nothing, jobs[x].kind = "restore"
    PROVE  jobs[x].place = "gate" /\ jobs[x].next = 1
BY DEF KeptInv, BackupInv, JobOK

\* Steps that leave the tables and the files as they are.
LEMMA QuietKept ==
    ASSUME KeptInv, BackupInv', UNCHANGED <<db, files, tmp, past>>,
           second' \in {second, second + 1},
           \A x \in Jobs : \/ jobs'[x] = jobs[x]
                           \/ jobs'[x] # Nothing => KeptJob(jobs[x])'
    PROVE  KeptInv'
<1>1. second \in Int /\ second' >= second
  BY BackupAssumption DEF KeptInv, BackupInv, BackupTypeOK
<1>2. \A f \in FileNames : f[2] \in Int
  BY BackupAssumption DEF FileNames
<1>3. ASSUME NEW x \in Jobs, jobs'[x] # Nothing
      PROVE  KeptJob(jobs[x])'
  <2>1. CASE jobs'[x] = jobs[x]
    <3>1. KeptJob(jobs[x]) /\ (Named(jobs[x]) => jobs[x].name \in FileNames)
      BY <1>3, <2>1 DEF KeptInv, BackupInv, JobOK, Named
    <3>2. NameOK(jobs[x])'
      BY <1>1, <1>2, <2>1, <3>1 DEF KeptJob, NameOK, Named
    <3>3. (jobs[x].kind = "restore" => CopyOK(jobs[x]))'
      BY <2>1, <3>1 DEF KeptJob, CopyOK, Named, ReadIsDb, SafetyCopies
    <3> QED
      BY <3>2, <3>3 DEF KeptJob
  <2> QED
    BY <1>3, <2>1
<1>4. \A f \in SafetyCopies(files') : f[2] <= second'
  BY <1>1, <1>2 DEF KeptInv, SafetyCopies
<1> QED
  BY <1>3, <1>4 DEF KeptInv, ReplacedIsKept

LEMMA QuietStepsKept ==
    ASSUME KeptInv, BackupInv', NEW j \in Jobs,
           \/ \E kind \in {"create", "download"} : BeginJob(j, kind, Nothing)
           \/ \E t \in Written \cup FileUploads : BeginFileRestore(j, t)
           \/ EnterGate(j) \/ JobFails(j)
    PROVE  KeptInv'
<1>1. UNCHANGED <<db, files, tmp, past, second>>
  BY DEF BeginJob, BeginFileRestore, EnterGate, JobFails
<1>2. /\ \A c : jobs' = [jobs EXCEPT ![j] = c] => jobs'[j] = c
      /\ \A x \in Jobs : x # j /\ (\E c : jobs' = [jobs EXCEPT ![j] = c]) => jobs'[x] = jobs[x]
  BY DEF KeptInv, BackupInv, BackupTypeOK
<1>3. /\ \E c : jobs' = [jobs EXCEPT ![j] = c]
      /\ jobs'[j] # Nothing => KeptJob(jobs[j])'
  <2>1. ASSUME NEW kind, NEW t, BeginJob(j, kind, t)
        PROVE  /\ \E c : jobs' = [jobs EXCEPT ![j] = c]
               /\ jobs'[j].place = "gate" /\ jobs'[j].next = 1
    <3> DEFINE c == NewJob(kind, t)
    <3>1. jobs' = [jobs EXCEPT ![j] = c] /\ jobs'[j] = c
      BY <1>2, <2>1 DEF BeginJob, MovesTo
    <3>2. c.place = "gate" /\ c.next = 1
      BY DEF NewJob
    <3> QED
      BY <3>1, <3>2
  <2>2. ASSUME EnterGate(j)
        PROVE  /\ \E c : jobs' = [jobs EXCEPT ![j] = c]
               /\ jobs'[j].place = "read" /\ jobs'[j].next = 1
    <3> DEFINE c == [jobs[j] EXCEPT !.place = "read"]
    <3>1. jobs' = [jobs EXCEPT ![j] = c] /\ jobs'[j] = c
      BY <1>2, <2>2 DEF EnterGate, MovesTo
    <3>2. c.place = "read" /\ c.next = 1
      <4>1. jobs[j] \in Job /\ jobs[j].next = 1
        BY <2>2 DEF KeptInv, BackupInv, BackupTypeOK, JobOK, EnterGate, InPlace
      <4> QED
        BY <4>1 DEF Job
    <3> QED
      BY <3>1, <3>2
  <2>3. ASSUME jobs'[j].place \in {"gate", "read"}, jobs'[j].next = 1
        PROVE  KeptJob(jobs[j])'
    BY <2>3 DEF KeptJob, NameOK, CopyOK, Named, ReadIsDb
  <2>4. ASSUME JobFails(j)
        PROVE  /\ \E c : jobs' = [jobs EXCEPT ![j] = c]
               /\ jobs'[j] = Nothing
    BY <1>2, <2>4 DEF JobFails, Finishes
  <2> QED
    BY <2>1, <2>2, <2>3, <2>4 DEF BeginFileRestore
<1> QED
  BY <1>1, <1>2, <1>3, QuietKept

LEMMA ReadTableKept ==
    ASSUME KeptInv, BackupInv', NEW j \in Jobs, ReadTable(j)
    PROVE  KeptInv'
<1> DEFINE job == jobs[j]
           name == ReadOrder[job.next]
           ts == [job.tables EXCEPT ![name] = db[name]]
           c == [job EXCEPT !.next = job.next + 1, !.tables = ts]
<1>1. /\ UNCHANGED <<db, files, tmp, past, second>>
      /\ job \in Job /\ job # Nothing /\ job.place = "read" /\ job.next \in 1..4
      /\ jobs' = [jobs EXCEPT ![j] = c] /\ jobs'[j] = c
      /\ \A x \in Jobs \ {j} : jobs'[x] = jobs[x]
  BY DEF KeptInv, BackupInv, BackupTypeOK, ReadTable, InPlace, MovesTo, ReadOrder, Job
<1>2. /\ \A i \in 1..4 : ReadOrder[i] \in TableNames
      /\ \A i, k \in 1..4 : ReadOrder[i] = ReadOrder[k] => i = k
  BY DEF ReadOrder, TableNames
<1>3. /\ ts[name] = db[name]
      /\ \A n \in TableNames : n # name => ts[n] = job.tables[n]
  BY <1>1, <1>2 DEF Job, Tables
<1>4. /\ c.place = "read" /\ c.next = job.next + 1 /\ c.tables = ts /\ c.kind = job.kind
      /\ c.changed = job.changed
  BY <1>1 DEF Job
<1> HIDE DEF c, ts
<1>5. job.kind = "restore" => job.changed \/ ReadIsDb(job)
  BY <1>1 DEF KeptInv, KeptJob, CopyOK
<1>6. ReadIsDb(job) => ReadIsDb(c)
  <2> SUFFICES ASSUME ReadIsDb(job), NEW i \in 1..4, i < c.next
               PROVE  c.tables[ReadOrder[i]] = db[ReadOrder[i]]
    BY DEF ReadIsDb
  <2>1. CASE i = job.next
    BY <1>3, <1>4, <2>1
  <2>2. CASE i < job.next
    <3>1. ReadOrder[i] # name /\ ReadOrder[i] \in TableNames
      BY <1>1, <1>2, <2>2
    <3> QED
      BY <1>3, <1>4, <2>2, <3>1 DEF ReadIsDb
  <2> QED
    BY <1>1, <1>4, <2>1, <2>2
<1>7. KeptJob(jobs[j])'
  BY <1>1, <1>4, <1>5, <1>6 DEF KeptJob, NameOK, CopyOK, Named, ReadIsDb
<1> QED
  BY <1>1, <1>7, QuietKept

LEMMA CapturesKept ==
    ASSUME KeptInv, BackupInv', NEW j \in Jobs, Captures(j)
    PROVE  KeptInv'
<1> DEFINE job == jobs[j]
           name == <<IF job.kind = "restore" THEN "copy" ELSE "backup", second>>
           c == [job EXCEPT !.place = "open", !.name = name]
<1>1. /\ UNCHANGED <<db, files, tmp, past, second>>
      /\ job \in Job /\ job # Nothing /\ job.place = "read" /\ job.next = 5
      /\ second \in Int
  BY BackupAssumption
  DEF KeptInv, BackupInv, BackupTypeOK, Captures, InPlace, ReadOrder, Job
<1>2. /\ c.place = "open" /\ c.next = job.next /\ c.tables = job.tables /\ c.kind = job.kind
      /\ c.changed = job.changed /\ c.name = name
  BY <1>1 DEF Job
<1>3. name[2] = second /\ (name[1] = "copy" <=> job.kind = "restore")
  OBVIOUS
<1> HIDE DEF c, name
<1>4. /\ \A x \in Jobs \ {j} : jobs'[x] = jobs[x]
      /\ jobs'[j] = Nothing \/ jobs'[j] = c
  <2>1. jobs' = [jobs EXCEPT ![j] = Nothing] \/ jobs' = [jobs EXCEPT ![j] = c]
    BY DEF Captures, Finishes, MovesTo, c, name
  <2> QED
    BY <2>1 DEF KeptInv, BackupInv, BackupTypeOK
<1>5. job.kind = "restore" => job.changed \/ ReadIsDb(job)
  BY <1>1 DEF KeptInv, KeptJob, CopyOK
<1>6. \A f \in SafetyCopies(files) : f[2] <= second
  BY DEF KeptInv
<1>7. jobs'[j] = c => KeptJob(jobs[j])'
  BY <1>1, <1>2, <1>3, <1>5, <1>6 DEF KeptJob, NameOK, CopyOK, Named, ReadIsDb
<1> QED
  BY <1>1, <1>4, <1>7, QuietKept

\* The database was changed, or its safety copy deleted: the job is marked.
LEMMA MarkedJob ==
    ASSUME NEW job \in Job, NEW new, new = [job EXCEPT !.changed = TRUE]
    PROVE  /\ new.changed /\ new.kind = job.kind /\ new.place = job.place /\ new.next = job.next
           /\ new.tables = job.tables /\ new.name = job.name
BY DEF Job

LEMMA ChangedKept ==
    ASSUME KeptInv, BackupInv', NEW newDb, NEW tears \in BOOLEAN, Changed(newDb, tears)
    PROVE  KeptInv'
<1>1. UNCHANGED <<gate, files, tmp, second, past>>
  BY DEF Changed
<1>2. ASSUME NEW j \in Jobs, jobs'[j] # Nothing
      PROVE  KeptJob(jobs[j])'
  <2>1. jobs[j] # Nothing /\ jobs[j] \in Job /\ KeptJob(jobs[j])
    BY <1>2 DEF Changed, KeptInv, BackupInv, BackupTypeOK
  <2>2. CASE jobs[j].next > 1
    <3> DEFINE t == jobs[j].torn \/ (tears /\ jobs[j].place = "read")
    <3>1. jobs'[j] = [jobs[j] EXCEPT !.changed = TRUE, !.torn = t] /\ t \in BOOLEAN
      BY <2>1, <2>2 DEF Changed
    <3> HIDE DEF t
    <3>2. /\ jobs'[j].changed /\ jobs'[j].kind = jobs[j].kind /\ jobs'[j].place = jobs[j].place
          /\ jobs'[j].next = jobs[j].next /\ jobs'[j].tables = jobs[j].tables
          /\ jobs'[j].name = jobs[j].name
      BY <2>1, <3>1 DEF Job
    <3> QED
      BY <1>1, <2>1, <3>2 DEF KeptJob, NameOK, CopyOK, Named, SafetyCopies
  <2>3. CASE ~(jobs[j].next > 1)
    <3>1. jobs'[j] = jobs[j] /\ jobs[j].next = 1
      <4>1. jobs[j].next \in 1..5
        BY <2>1 DEF Job
      <4>2. jobs'[j] = jobs[j]
        BY <2>3 DEF Changed
      <4> QED
        BY <2>3, <4>1, <4>2
    <3>2. ~Named(jobs[j])
      BY <2>1, <3>1 DEF KeptJob, NameOK
    <3>3. ReadIsDb(jobs[j])'
      BY <3>1 DEF ReadIsDb
    <3> QED
      BY <3>1, <3>2, <3>3 DEF KeptJob, NameOK, CopyOK, Named
  <2> QED
    BY <2>2, <2>3
<1> QED
  BY <1>1, <1>2 DEF KeptInv, SafetyCopies, ReplacedIsKept

LEMMA DeleteFileKept ==
    ASSUME KeptInv, BackupInv', NEW f \in FileNames, DeleteFile(f)
    PROVE  KeptInv'
<1>1. /\ UNCHANGED <<db, gate, second, tmp>>
      /\ files' = [files EXCEPT ![f] = Nothing] /\ files'[f] = Nothing
      /\ \A g \in FileNames \ {f} : files'[g] = files[g]
  BY DEF DeleteFile, KeptInv, BackupInv, BackupTypeOK
<1>2. SafetyCopies(files') \subseteq SafetyCopies(files)
  BY <1>1 DEF SafetyCopies
<1>3. ASSUME NEW j \in Jobs, jobs'[j] # Nothing
      PROVE  KeptJob(jobs[j])'
  <2>1. jobs[j] # Nothing /\ jobs[j] \in Job /\ KeptJob(jobs[j]) /\ JobOK(j, jobs[j])
    BY <1>3 DEF DeleteFile, InPlace, KeptInv, BackupInv, BackupTypeOK
  <2>2. CASE jobs[j].place \in {"prune", "replace"} /\ jobs[j].name = f
    <3>1. jobs'[j] = [jobs[j] EXCEPT !.changed = TRUE]
      BY <2>1, <2>2 DEF DeleteFile, InPlace
    <3>2. /\ jobs'[j].changed /\ jobs'[j].kind = jobs[j].kind /\ jobs'[j].place = jobs[j].place
          /\ jobs'[j].next = jobs[j].next /\ jobs'[j].tables = jobs[j].tables
          /\ jobs'[j].name = jobs[j].name
      BY <2>1, <3>1, MarkedJob
    <3> QED
      BY <1>1, <1>2, <2>1, <2>2, <3>2 DEF KeptJob, NameOK, CopyOK, Named
  <2>3. CASE ~(jobs[j].place \in {"prune", "replace"} /\ jobs[j].name = f)
    <3>1. jobs'[j] = jobs[j]
      BY <2>3 DEF DeleteFile, InPlace
    <3>2. jobs[j].place \in {"prune", "replace"} =>
            files'[jobs[j].name] = files[jobs[j].name]
      BY <1>1, <2>1, <2>3 DEF JobOK
    <3> QED
      BY <1>1, <1>2, <2>1, <3>1, <3>2 DEF KeptJob, NameOK, CopyOK, Named, ReadIsDb
  <2> QED
    BY <2>2, <2>3
<1>4. past' # Nothing => past' = past /\ past.name # f /\ past.name \in FileNames
  BY DEF DeleteFile, KeptInv, BackupInv, BackupTypeOK, Past
<1>5. ReplacedIsKept' /\ (past' # Nothing => past'.name[1] = "copy")
  BY <1>1, <1>4 DEF KeptInv, ReplacedIsKept
<1> QED
  BY <1>1, <1>2, <1>3, <1>5 DEF KeptInv

\* The transaction: what it replaces is what its safety copy holds.
LEMMA ReplaceAllKept ==
    ASSUME KeptInv, BackupInv', NEW j \in Jobs, ReplaceAll(j)
    PROVE  KeptInv'
<1> DEFINE job == jobs[j]
<1>1. /\ job # Nothing /\ job \in Job /\ job.place = "replace" /\ job.kind = "restore"
      /\ job.name \in FileNames
      /\ UNCHANGED <<files, tmp, second>>
      /\ past' = [tables |-> db, name |-> job.name, changed |-> job.changed]
      /\ jobs'[j] = Nothing /\ \A x \in Jobs \ {j} : jobs'[x] = jobs[x]
      /\ KeptJob(job)
  BY DEF KeptInv, BackupInv, BackupTypeOK, ReplaceAll, InPlace, JobOK, Finishes
<1>2. job.next = 5 /\ job.name[1] = "copy"
  BY <1>1 DEF KeptJob, NameOK, Named
<1>3. ReadIsDb(job) => job.tables = db
  <2> SUFFICES ASSUME ReadIsDb(job) PROVE job.tables = db
    OBVIOUS
  <2>1. /\ job.tables[ReadOrder[1]] = db[ReadOrder[1]] /\ job.tables[ReadOrder[2]] = db[ReadOrder[2]]
        /\ job.tables[ReadOrder[3]] = db[ReadOrder[3]] /\ job.tables[ReadOrder[4]] = db[ReadOrder[4]]
    BY <1>2 DEF ReadIsDb
  <2>2. \A n \in TableNames : job.tables[n] = db[n]
    BY <2>1 DEF ReadOrder, TableNames
  <2>3. job.tables \in Tables /\ db \in Tables
    BY <1>1 DEF Job, KeptInv, BackupInv, BackupTypeOK
  <2> QED
    BY <2>2, <2>3 DEF Tables
<1>4. /\ past'.tables = db /\ past'.name = job.name /\ past'.changed = job.changed
  BY <1>1
<1>5. ReplacedIsKept'
  BY <1>1, <1>3, <1>4 DEF ReplacedIsKept, KeptJob, CopyOK
<1>6. ASSUME NEW x \in Jobs, jobs'[x] # Nothing
      PROVE  KeptJob(jobs[x])'
  <2>1. x # j /\ jobs'[x] = jobs[x] /\ jobs[x] # Nothing /\ KeptJob(jobs[x])
    BY <1>1, <1>6 DEF KeptInv
  <2>2. jobs[x].kind = "restore" => jobs[x].place = "gate"
    BY <1>1, <2>1, OneRestore
  <2> QED
    BY <1>1, <2>1, <2>2 DEF KeptJob, NameOK, CopyOK, Named
<1> QED
  BY <1>1, <1>2, <1>4, <1>5, <1>6 DEF KeptInv, SafetyCopies

--------------------------------------------------------------------------------
(* The files. *)

\* A step of one job that changes its own file and temporary file at most.
LEMMA WritesKept ==
    ASSUME KeptInv, BackupInv', NEW j \in Jobs, jobs[j] # Nothing, Named(jobs[j]),
           UNCHANGED <<db, second, past>>,
           \A x \in Jobs \ {j} : jobs'[x] = jobs[x],
           \A f \in FileNames \ {jobs[j].name} : files'[f] = files[f] /\ tmp'[f] = tmp[f],
           jobs[j].kind = "restore" => files' = files,
           jobs'[j] # Nothing => KeptJob(jobs[j])'
    PROVE  KeptInv'
<1>1. NameOK(jobs[j]) /\ jobs[j].place # "gate" /\ jobs[j].name \in FileNames
  BY DEF KeptInv, KeptJob, Named, BackupInv, JobOK
<1>2. \A f \in FileNames : f[1] = "copy" => files'[f] = files[f]
  BY <1>1 DEF NameOK
<1>3. SafetyCopies(files') = SafetyCopies(files)
  BY <1>2 DEF SafetyCopies
<1>4. ASSUME NEW x \in Jobs, jobs'[x] # Nothing
      PROVE  KeptJob(jobs[x])'
  <2>1. CASE x # j
    <3>1. jobs'[x] = jobs[x] /\ jobs[x] # Nothing /\ KeptJob(jobs[x])
          /\ (Named(jobs[x]) => jobs[x].name \in FileNames)
      BY <1>4, <2>1 DEF KeptInv, Named, BackupInv, JobOK
    <3>2. NameOK(jobs[x])'
      BY <3>1 DEF KeptJob, NameOK, Named
    <3>3. ASSUME jobs[x].kind = "restore" PROVE CopyOK(jobs[x])'
      <4>1. CASE jobs[x].place = "gate"
        BY <3>1, <3>3, <4>1 DEF CopyOK, Named
      <4>2. CASE jobs[x].place # "gate"
        <5>1. jobs[j].kind # "restore"
          BY <1>1, <2>1, <3>1, <3>3, <4>2, OneRestore
        <5>2. Named(jobs[x]) =>
                /\ jobs[x].name[1] = "copy" /\ jobs[x].name # jobs[j].name
                /\ files'[jobs[x].name] = files[jobs[x].name]
                /\ tmp'[jobs[x].name] = tmp[jobs[x].name]
          BY <1>1, <3>1, <3>3, <5>1 DEF KeptJob, NameOK
        <5>3. CopyOK(jobs[x])
          BY <3>1, <3>3 DEF KeptJob
        <5> QED
          BY <1>3, <3>1, <5>2, <5>3 DEF CopyOK, Named, ReadIsDb
      <4> QED
        BY <4>1, <4>2
    <3> QED
      BY <3>1, <3>2, <3>3 DEF KeptJob
  <2>2. CASE x = j
    BY <1>4, <2>2
  <2> QED
    BY <2>1, <2>2
<1>5. past # Nothing => past.name \in FileNames /\ files'[past.name] = files[past.name]
  BY <1>2 DEF KeptInv, BackupInv, BackupTypeOK, Past
<1> QED
  BY <1>3, <1>4, <1>5 DEF KeptInv, ReplacedIsKept

LEMMA OpenTmpKept ==
    ASSUME KeptInv, BackupInv', NEW j \in Jobs, OpenTmp(j)
    PROVE  KeptInv'
<1> DEFINE job == jobs[j]
           c == [job EXCEPT !.place = "write"]
<1>1. /\ UNCHANGED <<db, files, past, second>>
      /\ job \in Job /\ job # Nothing /\ job.place = "open" /\ job.name \in FileNames
      /\ jobs'[j] = c /\ \A x \in Jobs \ {j} : jobs'[x] = jobs[x]
      /\ tmp' = [tmp EXCEPT ![job.name] = HalfFile(job.name)]
      /\ KeptJob(job) /\ Named(job)
  BY DEF KeptInv, BackupInv, BackupTypeOK, JobOK, OpenTmp, OpensFile, InPlace, MovesTo, Named
<1>2. /\ c.place = "write" /\ c.next = job.next /\ c.tables = job.tables /\ c.kind = job.kind
      /\ c.changed = job.changed /\ c.name = job.name
  BY <1>1 DEF Job
<1> HIDE DEF c
<1>3. job.kind = "restore" => ~BeingWritten(job.name) /\ ~Waiting(job.name)
  <2> SUFFICES ASSUME job.kind = "restore", NEW x \in Jobs, jobs[x] # Nothing,
                      jobs[x].place \in {"write", "move"}, jobs[x].name = job.name
               PROVE  FALSE
    BY DEF BeingWritten, Waiting, InPlace
  <2>1. x # j /\ KeptJob(jobs[x])
    BY <1>1 DEF KeptInv
  <2>2. jobs[x].kind = "restore"
    BY <1>1, <2>1 DEF KeptJob, NameOK, Named
  <2> QED
    BY <1>1, <2>1, <2>2, OneRestore
<1>4. /\ tmp'[job.name] # Nothing /\ \A f \in FileNames \ {job.name} : tmp'[f] = tmp[f]
      /\ job.kind = "restore" => ~tmp'[job.name].shared
  <2> DEFINE h == HalfFile(job.name)
  <2>1. h \in File /\ h.shared = (BeingWritten(job.name) \/ Waiting(job.name))
    BY DEF HalfFile, File
  <2> HIDE DEF h
  <2> QED
    BY <1>1, <1>3, <2>1, NothingAssumption DEF KeptInv, BackupInv, BackupTypeOK, h
<1>5. KeptJob(jobs[j])'
  BY <1>1, <1>2, <1>4 DEF KeptJob, NameOK, CopyOK, Named, ReadIsDb
<1> QED
  BY <1>1, <1>4, <1>5, WritesKept

LEMMA WriteTmpKept ==
    ASSUME KeptInv, BackupInv', NEW j \in Jobs, WriteTmp(j)
    PROVE  KeptInv'
<1> DEFINE job == jobs[j]
           f == job.name
           c == [job EXCEPT !.place = "move"]
<1>1. /\ UNCHANGED <<db, past, second>>
      /\ job \in Job /\ job # Nothing /\ job.place = "write" /\ f \in FileNames
      /\ jobs'[j] = c /\ \A x \in Jobs \ {j} : jobs'[x] = jobs[x]
      /\ KeptJob(job) /\ Named(job)
      /\ tmp \in [FileNames -> File \cup {Nothing}] /\ files \in [FileNames -> File \cup {Nothing}]
  BY DEF KeptInv, BackupInv, BackupTypeOK, JobOK, WriteTmp, InPlace, MovesTo, Named
<1>2. /\ c.place = "move" /\ c.next = job.next /\ c.tables = job.tables /\ c.kind = job.kind
      /\ c.changed = job.changed /\ c.name = f
  BY <1>1 DEF Job
<1> HIDE DEF c
<1>3. \A g \in FileNames \ {f} : tmp'[g] = tmp[g] /\ files'[g] = files[g]
  BY <1>1 DEF WriteTmp
<1>4. ASSUME job.kind = "restore"
      PROVE  /\ files' = files /\ tmp'[f] # Nothing /\ ~tmp'[f].shared
             /\ tmp'[f].tables = job.tables
  <2>1. tmp[f] # Nothing /\ tmp[f] \in File /\ ~tmp[f].shared
    BY <1>1, <1>4 DEF KeptJob, CopyOK
  <2>2. PICK file \in Outcomes(tmp[f], job) : tmp' = [tmp EXCEPT ![f] = file] /\ files' = files
    BY <2>1 DEF WriteTmp
  <2> QED
    BY <1>1, <2>1, <2>2, WrittenFile
<1>5. KeptJob(jobs[j])'
  BY <1>1, <1>2, <1>4 DEF KeptJob, NameOK, CopyOK, Named, ReadIsDb
<1> QED
  BY <1>1, <1>3, <1>4, <1>5, WritesKept

LEMMA MoveFileKept ==
    ASSUME KeptInv, BackupInv', NEW j \in Jobs, MoveFile(j)
    PROVE  KeptInv'
<1> DEFINE job == jobs[j]
           f == job.name
           again == files[f] # Nothing
           file == [tmp[f] EXCEPT !.again = again]
           c == [job EXCEPT !.place = "prune"]
<1>1. /\ UNCHANGED <<db, second, past>>
      /\ job \in Job /\ job # Nothing /\ job.place = "move" /\ f \in FileNames
      /\ tmp[f] \in File /\ tmp' = [tmp EXCEPT ![f] = Nothing]
      /\ files' = [files EXCEPT ![f] = file]
      /\ KeptJob(job) /\ Named(job)
      /\ tmp \in [FileNames -> File \cup {Nothing}] /\ files \in [FileNames -> File \cup {Nothing}]
  BY DEF KeptInv, BackupInv, BackupTypeOK, JobOK, MoveFile, InPlace, Named
<1>2. /\ c.place = "prune" /\ c.next = job.next /\ c.tables = job.tables /\ c.kind = job.kind
      /\ c.changed = job.changed /\ c.name = f
  BY <1>1 DEF Job
<1>3. IF job.kind = "restore" THEN jobs' = [jobs EXCEPT ![j] = c]
                              ELSE jobs' = [jobs EXCEPT ![j] = Nothing]
  BY DEF MoveFile, MovesTo, Finishes
<1> HIDE DEF c
<1>4. /\ \A x \in Jobs \ {j} : jobs'[x] = jobs[x]
      /\ IF job.kind = "restore" THEN jobs'[j] = c ELSE jobs'[j] = Nothing
  BY <1>3 DEF KeptInv, BackupInv, BackupTypeOK
<1>5. again \in BOOLEAN /\ (again <=> files[f] # Nothing)
  OBVIOUS
<1> HIDE DEF again
<1>6. file \in File /\ file # Nothing /\ file.tables = tmp[f].tables /\ file.again = again
  <2>1. file \in File /\ file.tables = tmp[f].tables /\ file.again = again
    BY <1>1, <1>5 DEF File
  <2> HIDE DEF file
  <2> QED
    BY <2>1, NothingAssumption
<1> HIDE DEF file
<1>7. /\ files' \in [FileNames -> File \cup {Nothing}] /\ files'[f] = file
      /\ \A g \in FileNames \ {f} : files'[g] = files[g] /\ tmp'[g] = tmp[g]
  BY <1>1, <1>6
<1>8. CASE job.kind # "restore"
  BY <1>1, <1>4, <1>7, <1>8, WritesKept
<1>9. CASE job.kind = "restore"
  <2>1. /\ CopyOK(job) /\ f[1] = "copy" /\ f[2] <= second
        /\ \A g \in SafetyCopies(files) : g[2] <= f[2]
        /\ tmp[f].tables = job.tables
    BY <1>1, <1>9 DEF KeptJob, NameOK, CopyOK
  <2>2. SafetyCopies(files') \subseteq SafetyCopies(files) \cup {f}
    BY <1>7 DEF SafetyCopies
  <2>3. f[2] \in Int /\ second \in Int /\ \A g \in FileNames : g[2] \in Int
    BY <1>1, BackupAssumption DEF FileNames, KeptInv, BackupInv, BackupTypeOK
  <2>4. \A g \in SafetyCopies(files') : g[2] <= f[2]
    BY <2>1, <2>2, <2>3
  <2>5. KeptJob(jobs[j])'
    <3>1. NameOK(jobs[j])'
      BY <1>1, <1>2, <1>4, <1>9 DEF KeptJob, NameOK, Named
    <3>2. jobs'[j] = c /\ files'[f] # Nothing /\ files'[f].tables = job.tables
      BY <1>4, <1>6, <1>7, <1>9, <2>1
    <3>3. CopyOK(jobs[j])'
      BY <1>1, <1>2, <2>1, <2>4, <3>2 DEF CopyOK, Named, ReadIsDb
    <3> QED
      BY <3>1, <3>2, <3>3 DEF KeptJob
  <2>6. ASSUME NEW x \in Jobs \ {j}, jobs'[x] # Nothing
        PROVE  KeptJob(jobs[x])'
    <3>1. jobs'[x] = jobs[x] /\ jobs[x] # Nothing /\ KeptJob(jobs[x])
      BY <1>4, <2>6 DEF KeptInv
    <3>2. jobs[x].kind = "restore" => jobs[x].place = "gate"
      BY <1>1, <1>9, <3>1, OneRestore
    <3> QED
      BY <1>1, <3>1, <3>2 DEF KeptJob, NameOK, CopyOK, Named
  <2>7. \A g \in SafetyCopies(files') : g[2] <= second'
    BY <1>1, <2>1, <2>3, <2>4 DEF SafetyCopies
  <2>8. ReplacedIsKept'
    <3> SUFFICES ASSUME past # Nothing, ~past.changed
                 PROVE  /\ files'[past.name] # Nothing
                        /\ files'[past.name].again \/ files'[past.name].tables = past.tables
      BY <1>1 DEF ReplacedIsKept
    <3>1. /\ past.name \in FileNames /\ files[past.name] # Nothing
          /\ files[past.name].again \/ files[past.name].tables = past.tables
      BY DEF KeptInv, ReplacedIsKept, BackupInv, BackupTypeOK, Past
    <3> QED
      BY <1>5, <1>6, <1>7, <3>1
  <2> QED
    BY <1>1, <1>4, <2>5, <2>6, <2>7, <2>8 DEF KeptInv
<1> QED
  BY <1>8, <1>9

\* The newest safety copy is not one of the extra files.
LEMMA NewestStays ==
    ASSUME NEW f \in FileNames, \A g \in SafetyCopies(files) : g[2] <= f[2]
    PROVE  f \notin Extra(files)
<1>1. \A g \in FileNames : g[2] \in Int
  BY BackupAssumption DEF FileNames
<1>2. {g \in SafetyCopies(files) : g[2] > f[2]} = {}
  BY <1>1 DEF SafetyCopies
<1>3. Newer(files, f) = 0
  BY <1>2, FS_EmptySet DEF Newer
<1> QED
  BY <1>3, BackupAssumption DEF Extra

LEMMA PruneKept ==
    ASSUME KeptInv, BackupInv', NEW j \in Jobs, Prune(j)
    PROVE  KeptInv'
<1> DEFINE job == jobs[j]
           f == job.name
           c == [job EXCEPT !.place = "replace"]
<1>1. /\ UNCHANGED <<db, tmp, second>>
      /\ job # Nothing /\ job \in Job /\ job.place = "prune" /\ job.kind = "restore"
      /\ f \in FileNames /\ KeptJob(job) /\ Named(job)
      /\ \A g \in FileNames : files'[g] = files[g] \/ (files'[g] = Nothing /\ g \in Extra(files))
      /\ \A x \in Jobs \ {j} : jobs'[x] = jobs[x]
      /\ jobs'[j] = c \/ jobs'[j] = Nothing
  BY PruneEffect DEF KeptInv, JobOK, Named
<1>2. /\ c.place = "replace" /\ c.next = job.next /\ c.tables = job.tables /\ c.kind = job.kind
      /\ c.changed = job.changed /\ c.name = f
  BY <1>1 DEF Job
<1> HIDE DEF c
<1>3. /\ CopyOK(job) /\ \A g \in SafetyCopies(files) : g[2] <= f[2]
  BY <1>1 DEF KeptJob, CopyOK
<1>4. files'[f] = files[f]
  BY <1>1, <1>3, NewestStays
<1>5. SafetyCopies(files') \subseteq SafetyCopies(files)
  BY <1>1 DEF SafetyCopies
<1>6. jobs'[j] # Nothing => KeptJob(jobs[j])'
  <2> SUFFICES ASSUME jobs'[j] = c PROVE KeptJob(jobs[j])'
    BY <1>1
  <2>1. NameOK(jobs[j])'
    BY <1>1, <1>2 DEF KeptJob, NameOK, Named
  <2>2. CopyOK(jobs[j])'
    BY <1>1, <1>2, <1>3, <1>4, <1>5 DEF CopyOK, Named, ReadIsDb
  <2> QED
    BY <2>1, <2>2 DEF KeptJob
<1>7. ASSUME NEW x \in Jobs \ {j}, jobs'[x] # Nothing
      PROVE  KeptJob(jobs[x])'
  <2>1. jobs'[x] = jobs[x] /\ jobs[x] # Nothing /\ KeptJob(jobs[x])
    BY <1>1, <1>7 DEF KeptInv
  <2>2. jobs[x].kind = "restore" => jobs[x].place = "gate"
    BY <1>1, <2>1, OneRestore
  <2> QED
    BY <1>1, <2>1, <2>2 DEF KeptJob, NameOK, CopyOK, Named
<1>8. past' # Nothing => past' = past /\ ~(Newer(files, past.name) >= KeepCopies)
  BY DEF Prune
<1>9. ReplacedIsKept'
  <2> SUFFICES ASSUME past' # Nothing, ~past.changed
               PROVE  /\ files'[past.name] # Nothing
                      /\ files'[past.name].again \/ files'[past.name].tables = past.tables
    BY <1>8 DEF ReplacedIsKept
  <2>1. past # Nothing /\ past.name \in FileNames /\ past.name \notin Extra(files)
    BY <1>8 DEF Extra, KeptInv, BackupInv, BackupTypeOK, Past
  <2>2. files'[past.name] = files[past.name]
    BY <1>1, <2>1
  <2> QED
    BY <1>8, <2>1, <2>2 DEF KeptInv, ReplacedIsKept
<1>10. \A g \in SafetyCopies(files') : g[2] <= second'
  BY <1>1, <1>5 DEF KeptInv
<1> QED
  BY <1>6, <1>7, <1>8, <1>9, <1>10 DEF KeptInv

LEMMA KeptStep ==
    ASSUME KeptInv, [BackupNext]_backupVars
    PROVE  KeptInv'
<1>1. BackupInv'
  BY BackupStep DEF KeptInv
<1>2. CASE \E u \in Owners : \/ AddUser(u) \/ AddBoxes(u) \/ AddDevice(u) \/ RemoveDevice(u)
                             \/ AddPokemon(u) \/ RemovePokemon(u) \/ RemoveUser(u)
  <2>1. \E newDb, tears : tears \in BOOLEAN /\ Changed(newDb, tears)
    BY <1>2 DEF AddUser, AddBoxes, AddDevice, RemoveDevice, AddPokemon, RemovePokemon, RemoveUser
  <2> QED
    BY <1>1, <2>1, ChangedKept
<1>3. ASSUME NEW j \in Jobs,
             \/ \E kind \in {"create", "download"} : BeginJob(j, kind, Nothing)
             \/ \E t \in Written \cup FileUploads : BeginFileRestore(j, t)
             \/ EnterGate(j) \/ ReadTable(j) \/ Captures(j)
             \/ OpenTmp(j) \/ WriteTmp(j) \/ MoveFile(j) \/ Prune(j)
             \/ ReplaceAll(j) \/ JobFails(j)
      PROVE  KeptInv'
  BY <1>1, <1>3, QuietStepsKept, ReadTableKept, CapturesKept, OpenTmpKept, WriteTmpKept,
     MoveFileKept, PruneKept, ReplaceAllKept
<1>4. CASE \E f \in FileNames : DeleteFile(f)
  BY <1>1, <1>4, DeleteFileKept
<1>5. CASE NextSecond \/ RestartServer \/ UNCHANGED backupVars
  <2>1. /\ UNCHANGED <<db, files, tmp, past>> /\ second' \in {second, second + 1}
        /\ \A x \in Jobs : jobs'[x] = jobs[x] \/ jobs'[x] = Nothing
    BY <1>5 DEF NextSecond, RestartServer, backupVars
  <2> QED
    BY <1>1, <2>1, QuietKept
<1> QED
  BY <1>2, <1>3, <1>4, <1>5 DEF BackupNext

\* A restore can be undone for any number of users, requests, seconds and copies to keep:
\* what it replaced is in its safety copy unless one of the exceptions of ReplacedIsKept
\* happened (DatabaseBackupService.cs:152-160, 356-375).
THEOREM WhatIsReplacedIsKept == BackupSpec => []ReplacedIsKept
<1>1. KeptInv /\ [BackupNext]_backupVars => KeptInv'
  BY KeptStep
<1>2. KeptInv => ReplacedIsKept
  BY DEF KeptInv
<1> QED
  BY <1>1, <1>2, KeptInitInv, PTL DEF BackupSpec

================================================================================
