# Pocket Transfer: formal models

Pocket Transfer keeps a bank of Pokemon on a self-hosted server.  A console (a 3DS or a
Switch running a homebrew client) copies a game's save to the server, moves Pokemon between
that copy and the bank, downloads the patched copy, writes it back to the game and then tells
the server to make the moves final.  No transaction spans the game's save, the in-memory copy
on the server and the bank's database, so the system lives or dies by what happens when a
transfer stops half way.  This directory models that, checks it with TLC and proves the main
results with TLAPS.

Paths below are relative to the repository's root; `BankService.cs` and the like are in
`server/Services/`, `ApiController.cs` in `server/Controllers/`.

## 1. Inventory

### Server (ASP.NET Core, EF Core over SQLite or PostgreSQL)

| component | state | operations | what makes it correct |
|---|---|---|---|
| Bank (`BankService.cs`, `Data/Entities.cs`) | rows `BankPokemon`: Pokemon, box and slot (unique), `Committed`, `HeldBySessionId` | deposit, withdraw, commit, abandon, reconcile, list | no Pokemon lost or copied; a row is reserved by one session at a time; a session's reservations end together |
| Session store (`SaveSessionStore.cs`) | in memory: session id, user, the parsed save, expiry | create, get, touch, remove, sweep | a session that is gone holds nothing for ever |
| API (`ApiController.cs`) | none | one handler per route; authorisation gives the user | a handler's database change and its change of the in-memory save belong together |
| Accounts (`AccountService.cs`, `Auth/`) | users, pairing codes, device tokens, boxes | register, authenticate, create code, pair, enroll | a code pairs one device; there is always an admin |
| Administration (`AdminService.cs`, `Pages/Admin`) | the same tables | set admin, delete user, revoke device, delete Pokemon | never zero admins |
| Login throttle (`LoginThrottle.cs`) | concurrent dictionary of counters | allow, record failure, record success, prune | nobody is locked out early; few guesses get through |
| Backup (`DatabaseBackupService.cs`, `Pages/Admin/Database`) | files, one semaphore | capture, restore in a transaction, safety copy, prune | what was captured can be restored; a restore can be undone |
| Start-up (`DatabaseBootstrap.cs`, `Program.cs`) | schema | migrate, seed admins | |
| PKHeX adapter, conversion rules, game catalogue | none | pure | |

### Clients (C)

| component | state | operations | what makes it correct |
|---|---|---|---|
| 3DS transfer (`clients/3ds/source/main.c`, `boxes.c`) | locals of `transfer_flow`: session id, downloaded file; `UiBoxView.dirty` | upload, edit, download, write, commit up to three times, or abandon once | the bank is finalised only after the game was written; back to the home menu, if the calls return |
| DS save chip (`ds_spi.c`) | chip type | read, write page by page | |
| Switch transfer (`clients/switch/source/main.c`) | locals | upload, one edit, download, write, commit once or abandon once | as for the 3DS |
| shared HTTP, JSON, PKM check, log (`clients/shared`) | token, handle | one request at a time, no retry, no time limit for an answer | |
| screens (`ui.c`) | cursor | drawing and input | |

### How they interact

Console to server: HTTP calls only, one at a time, each of which may be lost before or after it
took effect.  Inside the server: handlers of different requests run concurrently; they share the
session store (one lock per operation, none across operations), the `SaveFile` object inside a
session (no lock) and the database (one `SaveChangesAsync`, that is one transaction, at the end
of each bank operation).  The store is lost on a restart, the rows are not.

### What is hard

The hazards are listed, each at its line, in `PROJECT.json`: steps of two consoles interleaved
at any point; calls lost and commits repeated; crashes between writing the game and finalising
the bank; a restart that forgets the sessions; sessions that expire between two calls; a
database error after the in-memory save was changed; a save written in part; rows that only a
later, unrelated request releases.

## 2. Modules

| module | models | how |
|---|---|---|
| `BankService` | the bank's table and the five operations on it | the table is a function from bank slots to rows; each operation is an acceptance condition (the early throws) and an operator giving the table after its `SaveChangesAsync` |
| `Transfer` | consoles, API, session store | `rows` is the database, `store` the session store, `game` the saves on the cards, `pc`, `sess`, `dirty`, `file`, `tries` the locals of `transfer_flow` |
| `RowLifecycle` | what the bank promises about a slot | abstract specification: empty, pending for a session, banked, held by a session |
| `TransferProps` | the properties | |
| `Requests` | `Transfer` with handlers that run at the same time, each split at its awaits | `reqs` holds what a running handler has in its locals, `gen` tells a slot's row from earlier ones (the row's id) |
| `RequestProps` | the properties under that interleaving | |
| `Accounts` | accounts, pairing codes, device tokens, boxes, admins | `users`, `codes`, `devices` are the tables, `reqs` the running handlers, each split at its awaits; `pairedBy` is the code by which a console got its latest token |
| `AccountProps` | its properties | |
| `Maintenance` | backups, restores and deleted Pokemon while transfers go on: extends `Transfer` | `copies` are the tables in the files, `target` and `safety` the locals of a running restore; `kept` and `forsaken` are history |
| `Backup` | the files of backups and the semaphore, for the whole database | `db` is the tables (a table is the set of users that have rows in it), `jobs` the running requests, `gate` the semaphore, `files` and `tmp` the folder |
| `LoginThrottle` | the counters of `LoginThrottle` under interleaved threads | `entry` is the dictionary, `heap` its objects, `calls` the threads inside; `recorded` and `guessed` are history |
| `BankSlots` | the choice of a box and a slot | `used` is the slots of each box, `slotsPerBox` the option |
| `MaintenanceProps`, `BackupProps`, `ThrottleProps`, `BankSlotsProps` | their properties | |
| `MCTransfer`, `MCRequests`, `MCAccounts`, `MCServices` | instances for TLC; `MCServices` explores the last four components in one run, each by itself (`part` says which) | |
| `TransferProofs`, `NoLossProofs`, `RequestProofs`, `AccountProofs`, `MaintenanceProofs`, `BackupProofs`, `ThrottleProofs`, `BankSlotsProofs` | the proofs | |

**Actions of `Transfer`.**  One action is one HTTP call, with the whole handler and what the
client does with the answer, or one step the client takes by itself.  `heard` says whether the
answer arrives.  `OpenSession` and `ListBank` reconcile first, as `OpenSession` and `GetBank` do.
`Deposit`/`Withdraw` check the session, the save slot, the owner and the row, change row and
in-memory save together; `DepositFails`/`WithdrawFails` are the same handlers when
`SaveChangesAsync` throws, after the in-memory save was changed.  `Download`, `WriteSave` (or
`WriteFails`, `TornWrite`), `Finalize` with `Retry`, and `Abandon` are the rest of
`transfer_flow`.  The two clients differ where the code does: the 3DS stays in the boxes and
needs `dirty` to write; the Switch makes one edit, ignores the answer to a deposit, goes home
without a DELETE when a withdrawal fails, ignores a short `fwrite` and commits once.  `Crash`,
`Restart` and `Expire` are the environment.  A request that is refused changes nothing and is
not a step.

**Actions of `Requests`.**  A handler is three steps: `Begin...` (session and save looked up, the
live sessions taken), `Read...` (the query, the decisions on what it returned, the change of the
in-memory save) and `Save...` (`SaveChangesAsync` and the answer).  What was read may be stale
when it is saved.  `SaveChanges` is what EF Core does: the changed columns of each tracked row,
by id, in one transaction, which fails as a whole (`SaveThrows`) when a row is gone or an
inserted row's slot is taken, or, with `saveChanges`, for any other reason.  A console waits
for one answer at a time; with `lost` it may give up (`LoseConnection`) and then the handler runs on
unheard or is cancelled (`Cancel`).  At the end of a commit or a DELETE the save and
the removal of the session are one step (`SaveEnd`): a handler that looks the session up between the two
finds what it would have found just before.  A restart, which ends everything in flight, is only in
`Transfer`.

**Actions of `Accounts`.**  A handler begins (`Begin...`), makes one query or one
`SaveChangesAsync` per action and ends with an answer (`Answers`, `Ends`) or, at any moment, without one
(`Stop`: it is refused, its save throws, or it is cancelled).  So registering is `BeginRegister`,
`ReadAdmins` (is there an admin?), `InsertUser`, then as for a login `CountBoxes`, `FillBoxes`,
`InsertDevice`; pairing is `BeginPair`, `FindCode`, `InsertDevice`, `SpendCode`; enrolling is
`BeginEnroll` (with its sweep), `NewestCode` and then pairing, or `CountUsers`, `OnlyUser` and
`InsertDevice`; an admin's requests are `LoadUser`, `NotLastAdmin` and `SaveAdmin`, or `SelectCodes`,
`SelectDevices` and `DeleteUser`.  A website page does
what the API does and stops before a token.  Removing rows that a query has just returned
(`Sweep`, `RevokeDevice`) is one action, because nothing depends on what was read.  A new row has
a new id, a row that refers to an account goes with it (foreign keys with cascading deletes), and
a save that removes a row which is gone fails.  `Restart` runs `SeedAdminsAsync` and may change
the option `BoxCount`.  Names and passwords are left out: whether the configuration makes an account
an admin is a free choice.  A token is answered to any console or to none, since the server does not know
who asks.

**Actions of `Maintenance`.**  Everything `Transfer` does, and what an administrator does without
knowing of the sessions: `TakeBackup`, `BeginRestore` (the file is read, the safety copy is
written), `Replace` (the transaction commits) or `RestoreFails`, `DeletePokemon`.  A file does not
say who holds a row (`Captured`) and a restored row is banked (`Restored`), so consoles go on with
holds and pending deposits of a bank that is gone.

**Actions of `Backup`.**  A request of an administrator (a job) begins, enters the semaphore
(`EnterGate`), reads one table per action (`ReadTable`), releases the semaphore if it is a backup
(`Captures`), opens the temporary file (`OpenTmp`), writes it (`WriteTmp`), moves it (`MoveFile`)
and, if it is a restore, prunes the safety copies (`Prune`, which may fail half way) and replaces the
tables (`ReplaceAll`).  Nothing keeps two jobs of one second from opening the same temporary
file; such a file is `shared`, and what it holds once one of them has written it is left open (`Outcomes`),
also when the other has moved it to its name by then.  It may fail at any of these places (`JobFails`), and `RestartServer` ends all of
them.  Meanwhile other requests add and remove rows (`AddUser` to `RemoveUser`), a file is deleted
(`DeleteFile`) and the clock goes on (`NextSecond`); names are made of the second.

**Actions of `LoginThrottle`.**  `Allow` is `BeginAllow`, for every `PruneEvery`-th call the pruning
(`LookAt`, `DropKey`, `PruneDone`), then for the address and for the login `GetCounter` (the atomic
`GetOrAdd`), `Touch` (under the object's lock) and `CountAttempt` or `CheckLogin` (under the lock
again).  `WrongPassword` and `RightPassword` are `AuthenticateAsync`; the first goes on with `GetCounter`,
`Touch` and `CountFailure`.  Between any two of these another thread may remove the object from the
dictionary.

**Actions of `BankSlots`.**  `DepositAt` finds the box and the slot, both of which a request may
name, `FreeSlot` frees one, `RestartWith` changes `SlotsPerBox`.

**Faults.**  The constant `Faults` says what may go wrong, so that each run and each theorem
names its assumption: `lost`, `crash`, `restart`, `expiry`, `saveChanges` (the database refuses)
and `tornWrite`.

**Faulty variants.**  Definitions introduced by a comment "faulty variant" are not used by the
specification.  They are plausible mistakes in one definition; replacing the original by the
variant must make a property fail, which shows that the property depends on that code.

**Abstractions.**  A Pokemon is an opaque value: legality and conversion to the save's format
only decide whether a request is refused.  Reading, exporting and writing a save keep the boxes
as they are.  A bank slot is any free slot of the user (the client names the box, the server
takes the first open slot).  Clocks are left out: a session may expire at any moment at which
`expiry` is allowed, which includes every moment at which the real one can.  A new session id is
one that nothing refers to, which makes a small set of ids enough: an id that no console and no
row remembers cannot be told from a fresh Guid.  Handlers are atomic in `Transfer`; `Requests`
is about what that leaves out.

## 3. Properties and runs

| run | configuration | shows |
|---|---|---|
| `faulty_network` | `Faulty.cfg`: a 3DS and a Switch of one user, 2 Pokemon, 2 slots each, 2 sessions; lost, crash, restart, expiry | `TypeOK`, `NoLoss`, `SessionBalance`, `AbandonKeepsCopy`, `FinalizeKeepsCopy` |
| `live_sessions` | `LiveSessions.cfg`: the same with 3 sessions; lost, crash | `ExactlyOnce`, `NothingShownTwice`, `CommittedOnlyWhenWritten`: without expiry and restarts there are no duplicates either |
| `lifecycle` | `Lifecycle.cfg`: two users with a console and a bank slot each, 2 Pokemon, 2 sessions, all six faults, fairness | `HoldsAreOwn`; `Transfer` implements `RowLifecycle` (`KeepsLifecycle`); `ForgottenHoldsEnd` and `TransferEnds`, with the hypotheses they state |
| `torn_write` | `TornWrite.cfg`: only `tornWrite` | violation of `NoLoss`: a half-written save counts as not written, or as written |
| `overlap` | `Overlap.cfg`: `Requests`, a 3DS and a Switch of one user that deposit into boxes of their own, 2 handlers, expiry | `NoLoss`, `EndedHoldsNothing` |
| `overlap_faults` | `OverlapFaults.cfg`: two Switch clients, 1 Pokemon, 1 bank slot; lost, crash, saveChanges, tornWrite | `RequestsTypeOK`, `PendingIsOwn` |
| `slot_race` | `SlotRace.cfg`: no faults, both deposit into the same box | violation of `NoLoss`: two deposits choose the same open slot, the loser's slot of the save is already blank |
| `stale_live` | `StaleLive.cfg`: no faults | violation of `CommittedOnlyWhenWritten`: a listing with an old set of live sessions commits a new session's deposit |
| `hold_taken` | `HoldTaken.cfg`: no faults | violation of `HoldNotTaken`: two withdrawals of one row at the same time |
| `accounts` | `Accounts.cfg`: 2 handlers, one of which may serve an admin, 2 consoles, 2 device rows, 2 accounts, 2 codes, 2 boxes | `AccountsTypeOK`, `AdminRemains`, `CodePairsOne`, `CodeOpensItsAccount`, `BoxesHaveNoGap`, `TokenAfterBoxes` |
| `services` | `Services.cfg`: the four specifications side by side; two consoles with one Pokemon and two bank slots, no faults, two different files beside an uploaded one; two jobs, two users, one safety copy kept, two seconds; two threads, four attempts, two failures, four ticks; two boxes of two or three slots, requests that name slots -1 to 3 | `MaintenanceTypeOK`, `RestoredIsKept`, `RestoreCanBeUndone`; `BackupTypeOK`, `BackupRestorable`, `ReplacedIsKept`; `ThrottleTypeOK`, `NoEarlyBlock`, `GuessesBounded`; `RoomIsFound`, `FullIsFull` |
| `last_admin` | `LastAdmin.cfg`: both handlers may serve an admin, no codes | violation of `AdminRemains`: two admins remove each other, both having counted two |

What the properties say, in short: `NoLoss`, every Pokemon is in some game or in the bank;
`ExactlyOnce`, once everything is quiet, in exactly one place; `SessionBalance`, while a session
is open the copy plus its deposits is the game plus its withdrawals; `AbandonKeepsCopy` and
`FinalizeKeepsCopy`, a DELETE or a commit never removes the only copy, however late and however
often it comes; `NothingShownTwice`, the boxes screen never offers the same Pokemon on both
sides; `CommittedOnlyWhenWritten`, the comment on `Committed`; `HoldsAreOwn`, reservations stay
inside the account; `KeepsLifecycle`, the abstract specification; `PendingIsOwn`, a pending
deposit is removed only by a request of its own session; `EndedHoldsNothing`, a commit or DELETE
that succeeds leaves no row held by its session; `HoldNotTaken`, a hold is not overwritten.
For accounts: `AdminRemains`, while there is an account one is an admin; `CodePairsOne`, a code
pairs one console and is gone by then; `CodeOpensItsAccount`, with the account it was made for;
`BoxesHaveNoGap`, boxes are numbered from 0; `TokenAfterBoxes`, a login is answered when all boxes
are there.
For the rest of the server: `RestoredIsKept`, a Pokemon that a restore brought back stays, whatever
open sessions do; `RestoreCanBeUndone`, what a restore removed is in a file; `BackupRestorable`, every
file is whole and passes `Validate`; `ReplacedIsKept`, the safety copy of the last restore is there and
is what was replaced; `NoEarlyBlock`, a login is blocked only after `FailureLimit` wrong passwords within a
window; `GuessesBounded`, no more get through than `FailureLimit` and one per other thread; `RoomIsFound`,
the box that is chosen has an open slot; `FullIsFull`, "Bank is full" is true, but for boxes with a row in a slot
they do not have.

**What concurrency changes.**  With atomic handlers (`Transfer`) no fault but a failing
`SaveChangesAsync` or a torn write loses a Pokemon.  With real ones (`Requests`) two consoles of
one account can lose one without any fault (`slot_race`), can both obtain one (`hold_taken`) and
can see a deposit made final too early (`stale_live`).  Consoles that deposit into different
boxes do not lose anything (`overlap`).  A console that gives up on a call whose handler runs on
is another way to lose a Pokemon; `overlap_faults` has that behaviour and claims only what
survives it.

In `Accounts` the same pattern (read, decide, save) is mostly saved by the database: two devices
that present one code both save a token, but only one can remove the code, and the other is not answered
(its token stays behind, known to nobody); top-ups of boxes that collide are refused by the unique index,
and the next login finds a number of boxes without a gap.  A registration that decided not to make
its account an admin had seen one, and no later step removes the last one, as long as requests
of admins do not overlap.  When they do, nothing stands between the count and the save (`last_admin`), until the
next start seeds an admin.

The conditions in the properties of `Backup` and `Maintenance` are what the code does not
guarantee, each found as a counterexample first.  A capture reads its tables outside a transaction, so a user or boxes added
meanwhile make a backup that a restore refuses (`torn`); rows removed meanwhile, and devices and
Pokemon added, do no harm, because the tables that are referred to are read first.  Two backups of one second share the
temporary file: when the second opens it and fails before it is written, the first moves a half file under
the name that was reported as saved (`shared`).  What comes to the bank between the safety copy of a restore
and its transaction is in no file (`forsaken`), although the page says "A copy of the previous data
was saved under backups." (`Pages/Admin/Database.cshtml.cs:116`).  Two restores of one second write one
safety copy (`again`).  In `BankSlots`, a row in a slot that the boxes do not have, below 0 or from `SlotsPerBox` on, which a
request may name because nothing checks `bankSlot` (`ApiController.cs:352`, `BankService.cs:62`), makes a box count
as full with a slot open.

**What the design gives up.**  Duplicates are possible when a session expires or the server
restarts: reconciliation keeps both the deposit and the withdrawn row, because the server cannot
know whether the console wrote its save, and `Committed` is then set although the comment in
`Entities.cs:66` ties it to the console's write.  That is the safe choice (`NoLoss` holds), and it is why
`ExactlyOnce` is claimed only without those faults.

**Bounds.**  Two consoles give every interleaving of two transfers, and one of each kind gives
every client behaviour.  Two Pokemon and two slots on each side allow a deposit and a withdrawal
in one session, a withdrawal redeposited elsewhere, a full box and an empty one.  Two session ids
cover two live sessions, or a live one and a dead one that still holds rows; `live_sessions` has
three, because without expiry and restarts dead sessions are never released.  `tries` is bounded
by the code itself.  In `Requests` two handlers give every interleaving of two requests, and
three generations of a row are enough for two handlers to remember old ones (`GensAssumption`).
In `Accounts` two handlers give every interleaving of two requests; two accounts tell an account
from another, and are what it takes to remove an admin; two codes tell a code from the one that
replaced it; with `BoxCount` two a top-up can be partial.  Ids are not used again, so `MaxUsers`
and `MaxCodes` also bound the length of a behaviour.  Restarting with another `BoxCount` is in the
model (`BoxCounts`) and in the proofs; the run keeps one value to stay small.  The proofs below have no
bounds.

In `services`, two jobs give every interleaving of two backups or restores, with `KeepCopies` = 1 a
second restore already prunes, and two seconds tell names that are the same from names that are not.
Two changes of the tables tear a capture in every way that two rows can.  Two threads and four
attempts with `IpLimit` = 3 let an address be refused, and with `FailureLimit` = 2 let one block happen, end, and happen again, with the pruning in between.
`MaxCopies`, `MaxJobs`, `MaxChanges`, `MaxSecond`, `MaxCalls` and `MaxClock` bound the behaviours; the
restart of the throttle starts its clock again.  The faults of `Transfer` are left out there
(`Faults = {}`) and are in the proofs.

**Fairness.**  What is assumed of every behaviour (`Fairness`) is little.
`WF(Forgotten(s) /\ Expire(s))`: nobody touches a session that no console knows, so its expiry
passes.  `WF(ListBank by some console)`: somebody opens the bank again; nothing in the server
cleans up by itself.  A client guarantees no progress: `pt_http_request` limits the time for
connecting, not for an answer (`http.c:101-113`, `148`), a report has to be closed, and the Switch waits for a button
before it writes (`switch/source/main.c:450-468`).  So the two liveness properties name what they rest on.  `TransferEnds` is
about a console whose calls return, with an answer or an error (`CallsReturn`), and whose user answers
(`UserAnswers`); what it then shows is that nothing in the client goes round in circles, whatever the server
answers.  `ForgottenHoldsEnd` is about any console that hangs anywhere, as long as some 3DS keeps coming back to
where it lists the bank.  Nothing is assumed of editing, of what is answered, or of a user
leaving the boxes.  `CHECK_DEADLOCK` is left on: the system never stops.

## 4. Proofs

All theorems hold for every value of the constants that satisfies the named assumptions
(`BankOwnerAssumption`, `UserOfAssumption`, `SwitchesAssumption`, for `Requests` `GensAssumption`, for
`Accounts` `BoxCountsAssumption` and `BoundsAssumption`, for `Maintenance` `UploadsAssumption` and
`MaxCopiesAssumption`, for `Backup` `BackupAssumption`, for `LoginThrottle` the limits, the window,
`KeysAssumption` and `ThreadsAssumption`, for `BankSlots` `SlotsAssumption`, and those that keep `None`, `Blank`, `Null` and `Nothing` apart from the values they
stand beside).

* `TypeCorrect`, `TypesKept`: `TypeInv`, that is `TypeOK`, the phases in which a console has a session
  (`PhaseOK`) and the ranges of its locals.  `PhaseOK` is needed because `Retry` keeps
  `tries` in range only when it starts below its limit.
* `OwnHolds`: `HoldInv`: a pending row always has a holder, two consoles never share a session
  id, and a session's rows are in its user's boxes.  The first two are what makes the third
  inductive: without them a commit might touch another console's rows.
* `NothingLost`: `NoLoss`, assuming `saveChanges` and `tornWrite` do not happen.  `NoLoss` is
  not inductive: the game may hold the only copy while its console is about to overwrite it.
  Every console in a transfer has two futures, it writes and commits, or it does not, and each
  console's is its own.  The strengthening `Anchored` says that for each Pokemon some row is in
  nobody's hands, or some one console keeps it in both of its futures (`Keeps`).  One lemma per
  kind of step shows that `Anchored` is preserved.
* `Implements`: `Spec => KeepsLifecycle`, with all faults.  The refinement mapping is `Stage`,
  row by row; reconciliation is `Release`, a commit is `Finish`, an abandon is `GiveBack`.
  `HoldInv` is needed here too: commit and abandon filter by owner, and only `HoldsAreOwn` makes
  that the same as all rows of the session.

* `BooksBalance`, `AbandonIsSafe`, `FinalizeIsSafe`: `SessionBalance`, `AbandonKeepsCopy` and
  `FinalizeKeepsCopy`, assuming as `NothingLost` does that `saveChanges` and `tornWrite` do not happen.
  None of the three is inductive.  `Even` joins them, console by console and Pokemon by Pokemon, with what
  holds between the download and the write after the session is gone: a withdrawal that is still held is in
  the downloaded file, or deposited again.  It is kept when a session is reconciled because
  reconciliation takes all rows of the session at once, and when it is ended because `HoldInv` makes the rows
  of the user all the rows of the session (`EndOfSession`).
* `CommitAfterWrite`: `CommittedOnlyWhenWritten`, assuming no `restart` and no `expiry`, which are what makes
  the clean-up settle a deposit too early.  `OpenInv` says that every hold is that of an open session, so
  that a reconciliation finds nothing (`NothingToReconcile`).
* `ShownOnce`, `EachExactlyOnce`: `NothingShownTwice` and `ExactlyOnce`, with `lost` and `crash` only, and with
  `"bank" \notin Consoles`, which keeps the places of `Places` apart.  `OnePlace` says that a Pokemon
  is in at most one place that counts: a slot of a game, a row in nobody's hands, a withdrawal of a console
  that has not written yet, or a deposit of one that has (`Counts`); rows whose console is gone do not
  count, since without expiry nobody sees them.  `OneCopy` says the same of the copy with its
  deposits, and writing the save exchanges the one for the other: by `Even` they hold the
  same Pokemon, so what the copy holds is nowhere else (`CopyIsNowhereElse`).  That each is in
  at least one place is `Anchored` again.

* `RequestsTypeCorrect` and `PendingStaysOwn`: `RequestsTypeOK` and `PendingIsOwn`, with any
  number of handlers and all faults of `Requests`, which has no restart.  The invariant `RequestsInv` says what a handler's locals
  are worth while others run: if the row it read is still the same pending row (`gen`), it was
  decided to settle it, or to remove it for the session that holds it (`Agrees`); a handler has
  one change for a slot; and a console that waits is where its request left it.  A row of a
  later generation is nobody's business because `NewGenIsUnknown`: with more generations than
  handlers there is always one that no handler remembers (pigeonhole).
* `EndedSessionsHoldNothing`: `EndedHoldsNothing`, assuming that `lost` does not happen; crashes, expiry,
  cancelled handlers, torn writes and a database that refuses may.  The property compares the rows that were selected with those
  that are held two awaits later.  `EndInv` says that at most one running handler works for a session
  (`AloneInSession`), because the console that has the session is the one that waits for it (`OwnerWaits`) and one that
  was switched off has forgotten it; that only an edit takes rows, for its session and in boxes of its user
  (`TakesOwn`, `SessionHoldsOwn`); and that therefore what an end of a session selected, by user and
  session, is all that the session holds (`Selected`).  The hypothesis is needed: when a console takes a deposit for
  failed, leaves the boxes and sends its DELETE, TLC finds the deposit saved after the query of the DELETE.
* `NothingLostBetweenHandlers`: `NoLoss` of `Requests`, assuming that `lost`, `crash`, `saveChanges` and `tornWrite` do not happen and
  that consoles deposit into boxes of their own (`OwnBoxes`); sessions may expire at any moment, and a row may be
  taken from a session that counts on it (`hold_taken`).  `LossInv` carries `Keeps` of `NothingLost` over to handlers that are on
  their way.  A row that a running handler has decided to remove counts no more (`Firm`), a deposit that was
  read stands in for the slot it blanked (`Arriving`, `Stays`), and what a handler is about to do fits its session's copy
  (`HandlerOK`): a Pokemon is in the copy before its row is held, and the slot a deposit chose stays free, so the database does not refuse it.
  When a row changes hands between the query and the save of a withdrawal, the console that takes it has the Pokemon in both
  of its futures, and the one that loses it is counted on no longer (`Took`).  `EndInv` is needed for what an end of
  a session has selected.  Each hypothesis is needed: TLC finds a Pokemon lost without `OwnBoxes` (`slot_race`); with
  `lost`, when a console goes on to write a copy whose deposit is still under way; with `crash`, when such a deposit takes the slot that its
  console's next one has chosen; and with `saveChanges` and `tornWrite` as in `Transfer`.

* `AccountsTypeCorrect`: with `IdsGiven`, everything that remembers an account or a code remembers
  an id that was given out, so that a new id is nobody's.
* `PairedByOneCode`, `PairedWithOwner`: `CodesInv`: a handler that carries a code which is still
  there carries that code's account, and the token it saved is that account's or was revoked
  (`Bound`).  `IdsGiven` is what keeps a code that is made later from being taken for it.
* `AdminStays`: assumes that at most one handler serves admins, which `last_admin` shows to be
  needed.  `Warrant` says what a handler may still rely on when it saves: a registration without
  admin rights, that there is an admin; a removal, that another account is one.
* `BoxesAreNumbered`, `TokenComesLast`: `BoxesInv`: boxes are `0..n-1`; a handler about to fill from
  `from` knows that the boxes below are there.  With the unique index this makes `n = from`
  (`Filled`), so a save that succeeds adds exactly what is missing.

* `RestoredStays`, `UndoIsPossible`, `MaintenanceTypeCorrect`: assume, as `NothingLost` does, that
  `saveChanges` and `tornWrite` do not happen.  `MaintenanceInv` says that a restored Pokemon is `Safe`,
  the notion `NothingLost` is proved with, and that every other one nobody forsook is `Safe` or in a file.  A
  restore leaves its rows in nobody's hands, which makes them `Safe`; what is not in the bank is `Safe`
  by its game alone (`KeptByGame`), which a restore does not touch; and `SafeStep` of `NoLossProofs` says that no
  step of a transfer harms one Pokemon that is `Safe`, whatever became of the others.
* `BackupTypeCorrect`, `BackupsRestorable`: `BackupInv` follows one capture: what it read later refers
  to what it read earlier, since the rows it has not read still refer to tables that it has (`ReadSoFar`); the
  semaphore keeps a restore out meanwhile (`JobOK`); the temporary file that is moved is whole
  unless two jobs write it (`TmpOK`).
* `WhatIsReplacedIsKept`: `ReplacedIsKept`.  `KeptInv` follows the one restore that is past the semaphore
  (`OneRestore`): what it has read is still the database, or was changed (`ReadIsDb`); the temporary file, then the file,
  is what it read (`CopyOK`); and no safety copy is named after a second that has not come, so that its own is among the newest when
  the old ones are pruned (`NewestStays`).
* `ThrottleTypeCorrect`, `NobodyLockedOutEarly`: an object's count is at most the number of failures that
  were recorded for its key in its window, because an object in the dictionary is new since the last
  success and belongs to one key, also when threads still hold objects that were removed.
* `GuessesAreBounded`: `GuessesBounded`.  A wrong password that got through is counted in the entry of its key,
  or a thread is on its way to count it there (`Live`), so there are no more of them than the count and these
  threads.  Once the count is at the limit the entry blocks until its window is over, and only threads that passed the check before, or fetched
  an object that is no longer in the dictionary, may still get one through (`Late`); each that does is one `Late` thread less, and none of them
  is `Live`.  `ThreadsAssumption` says that threads can be counted.
* `RoomIsReal`, `FullIsReal`: `RoomIsFound` and `FullIsFull`, for any number of boxes and slots.  The invariant
  is only that a box holds finitely many rows, in slots that are integers; the rest is counting
  (`RoomMeansSlot`, `NoRoomMeansTaken`) and that a set of numbers has a least one (`FirstIsLeast`).

Every invariant and action property of a passing run is stated by a theorem.  Only model-checked is
liveness (`ForgottenHoldsEnd`, `TransferEnds`), which is outside what the prover can do.

## 5. Not modelled

* `wwwroot/js/site.js`, the only JavaScript file of the repository's own, holds comments and no code.
* PKHeX and the conversion rules: pure functions of a library, which only decide whether a request is
  refused; the game catalogue is constant tables.
* `jsonutil.c`, `lite_check.c`, `log.c`, `ui.c`: parsing, a check whose result is only logged, output and
  drawing.  They keep no state that the transfers depend on.
* `ds_spi.c` beyond a write that stops half way: the protocol of the chip is that of hardware that is not in the repository.
* Start-up apart from `SeedAdminsAsync`, configuration, deployment.
* Names, passwords, e-mail addresses, the formats of files and what is refused because of them.
* Restores composed with handlers that are split at their awaits, and with accounts: `Maintenance` takes
  handlers to be atomic and the accounts to be those of the backup.  A restore sets the ids of rows back
  (`ResetIdentityAsync`), so a handler that read a row before it may save its change to another; this is a hazard without a property.
* `Backup` keeps administrators as they are (`SetAdminAsync` is in `Accounts`), does not set the clock
  back, and takes a restore's transaction to be one step: what PostgreSQL lets other transactions insert during it is left out.
* Deleting an account while its sessions are open.

## 6. What could come next

`Requests` composed with restores, for the ids that a restore uses again; `ExactlyOnce` for `Requests`, with consoles
of different users (those of one user may both take the same row, `hold_taken`).
