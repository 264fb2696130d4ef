-------------------------------- MODULE Transfer --------------------------------
(***************************************************************************)
(* A transfer, end to end: consoles that copy a game's save to the server, *)
(* move Pokemon between that copy and the bank, write the patched copy     *)
(* back to the game and finalize the bank (clients/3ds/source/main.c and   *)
(* boxes.c, clients/switch/source/main.c); the API that serves them        *)
(* (server/Controllers/ApiController.cs); and the store of open save       *)
(* sessions, which is only in memory (server/Services/SaveSessionStore.cs).*)
(* The bank's table is module BankService.                                 *)
(*                                                                         *)
(* One action is one HTTP call, with the whole handler on the server and   *)
(* what the console does with the answer, or one step of the console's     *)
(* own.  A console is one game and the device that edits it.               *)
(*                                                                         *)
(* Faults names what may go wrong:                                         *)
(*   lost         a request, or its answer, does not arrive                *)
(*   crash        a console is switched off                                *)
(*   restart      the server restarts; the sessions are gone               *)
(*   expiry       a session lives longer than SessionMinutes               *)
(*   saveChanges  the database refuses what a handler wants to save        *)
(*   tornWrite    writing the game's save stops half way                   *)
(* What a refused request leaves as it was is not a step.                  *)
(***************************************************************************)
EXTENDS BankService, Naturals

CONSTANTS
    Consoles,
    Switches,    \* the consoles that run the Switch client; the others run the 3DS one
    UserOf,      \* the account a console is signed in to
    Faults

ASSUME SwitchesAssumption == Switches \subseteq Consoles
ASSUME UserOfAssumption == UserOf \in [Consoles -> Users]

SaveSession == [user : Users, save : Image]

ASSUME NoSessionAssumption == None \notin SaveSession
ASSUME NoFileAssumption == None \notin Image

Phases == {"idle", "edit", "download", "write", "commit", "abandon"}

\* How often a client posts the commit before it gives up.
CommitTries(c) == IF c \in Switches THEN 1 ELSE 3

VARIABLES
    rows,    \* the bank's table
    store,   \* SaveSessionStore: the open sessions
    game,    \* the save on the cart or the SD card of each console
    pc,      \* where a console is in transfer_flow
    sess,    \* the session id a console remembers
    dirty,   \* UiBoxView.dirty: the console saw an edit succeed
    file,    \* the patched save a console downloaded
    tries    \* commits posted so far

console == <<pc, sess, dirty, file, tries>>
vars == <<rows, store, game, pc, sess, dirty, file, tries>>

TypeOK ==
    /\ rows \in [BankSlots -> Row \cup {None}]
    /\ store \in [Sessions -> SaveSession \cup {None}]
    /\ game \in [Consoles -> Image]
    /\ pc \in [Consoles -> Phases]
    /\ sess \in [Consoles -> Sessions \cup {None}]
    /\ dirty \in [Consoles -> BOOLEAN]
    /\ file \in [Consoles -> Image \cup {None}]
    /\ tries \in [Consoles -> 0..2]

--------------------------------------------------------------------------------
(* The session store. *)

ActiveIds == {s \in Sessions : store[s] # None}

Get(s, u) == s \in ActiveIds /\ store[s].user = u

\* A new Guid: one that nothing in the system refers to.
IsNewId(s) ==
    /\ store[s] = None
    /\ \A c \in Consoles : sess[c] # s
    /\ \A b \in BankSlots : rows[b] # None => rows[b].held # s

Create(s, u, img) == [store EXCEPT ![s] = [user |-> u, save |-> img]]

Remove(s) == [store EXCEPT ![s] = None]

--------------------------------------------------------------------------------
(* Where the Pokemon are. *)

Has(img, m) == \E i \in SaveSlots : img[i] = m
InBank(m) == \E b \in BankSlots : rows[b] # None /\ rows[b].mon = m

\* The places that hold a Pokemon: save slots of games and slots of the bank.
Places(m) ==
    {p \in Consoles \X SaveSlots : game[p[1]][p[2]] = m}
      \cup {<<"bank", b>> : b \in {x \in BankSlots : rows[x] # None /\ rows[x].mon = m}}

Init ==
    /\ game \in [Consoles -> Image]
    /\ rows \in [BankSlots -> {Settled(PendingRow(m, None)) : m \in Mons} \cup {None}]
    /\ \A m \in Mons : \E p \in Places(m) : Places(m) = {p}
    /\ store = [s \in Sessions |-> None]
    /\ pc = [c \in Consoles |-> "idle"]
    /\ sess = [c \in Consoles |-> None]
    /\ dirty = [c \in Consoles |-> FALSE]
    /\ file = [c \in Consoles |-> None]
    /\ tries = [c \in Consoles |-> 0]

--------------------------------------------------------------------------------
(* Console steps.  transfer_flow returns to the home menu: the session, the    *)
(* download and the dirty flag are locals of it.                               *)

Phase(c, p) == pc' = [pc EXCEPT ![c] = p]

GoHome(c) ==
    /\ Phase(c, "idle")
    /\ sess' = [sess EXCEPT ![c] = None]
    /\ dirty' = [dirty EXCEPT ![c] = FALSE]
    /\ file' = [file EXCEPT ![c] = None]
    /\ tries' = [tries EXCEPT ![c] = 0]

\* The console does not hear the answer of a call only if the network loses it.
MayMiss(heard) == heard \/ "lost" \in Faults

\* A call does not take effect if it is lost or if its SaveChanges throws.
MayFail == Faults \cap {"lost", "saveChanges"} # {}

\* POST saves/session with the game's save.  An unheard answer leaves a session
\* that no console knows.
OpenSession(c, s, heard) ==
    /\ pc[c] = "idle" /\ IsNewId(s) /\ MayMiss(heard)
    /\ rows' = ReconcileOrphans(rows, ActiveIds)
    /\ store' = Create(s, UserOf[c], game[c])
    /\ IF heard
         THEN /\ Phase(c, "edit")
              /\ sess' = [sess EXCEPT ![c] = s]
              /\ UNCHANGED <<dirty, file, tries>>
         ELSE UNCHANGED console
    /\ UNCHANGED game

\* GET bank/boxes: the 3DS lists the bank from its home menu and after each edit.
ListBank(c) ==
    /\ c \notin Switches
    /\ pc[c] \in {"idle", "edit"}
    /\ rows' = ReconcileOrphans(rows, ActiveIds)
    /\ UNCHANGED <<store, game, console>>

\* What a console does after an edit.  The 3DS stays in the boxes and notes the
\* edits it saw succeed; the Switch makes one edit and goes on to the download.
AfterEdit(c, heard) ==
    IF c \in Switches
      THEN Phase(c, "download") /\ UNCHANGED <<sess, dirty, file, tries>>
      ELSE /\ dirty' = [dirty EXCEPT ![c] = @ \/ heard]
           /\ UNCHANGED <<pc, sess, file, tries>>

\* A faulty variant of PutInSave: the session's save does not follow the bank.
KeepInSave(s, i, x) == store

PutInSave(s, i, x) == [store EXCEPT ![s].save[i] = x]

\* POST bank/deposit.  The Switch client does not look at the answer.
Deposit(c, i, b, heard) ==
    /\ pc[c] = "edit" /\ MayMiss(heard)
    /\ LET s == sess[c] IN
       /\ Get(s, UserOf[c])
       /\ DepositAccepted(rows, store[s].save, UserOf[c], i, b)
       /\ rows' = Deposited(rows, store[s].save, s, i, b)
       /\ store' = PutInSave(s, i, Blank)
    /\ AfterEdit(c, heard)
    /\ UNCHANGED game

\* The slot of the session's save is blanked before SaveChangesAsync, which throws.
DepositFails(c, i, b) ==
    /\ "saveChanges" \in Faults
    /\ pc[c] = "edit"
    /\ LET s == sess[c] IN
       /\ Get(s, UserOf[c])
       /\ DepositAccepted(rows, store[s].save, UserOf[c], i, b)
       /\ store' = PutInSave(s, i, Blank)
    /\ AfterEdit(c, FALSE)
    /\ UNCHANGED <<rows, game>>

\* POST bank/withdraw.  A Switch that hears no success leaves without a DELETE.
Withdraw(c, i, b, heard) ==
    /\ pc[c] = "edit" /\ MayMiss(heard)
    /\ LET s == sess[c] IN
       /\ Get(s, UserOf[c])
       /\ WithdrawAccepted(rows, store[s].save, UserOf[c], s, i, b)
       /\ rows' = Withdrawn(rows, s, b)
       /\ store' = PutInSave(s, i, rows[b].mon)
    /\ IF c \in Switches /\ ~heard THEN GoHome(c) ELSE AfterEdit(c, heard)
    /\ UNCHANGED game

WithdrawFails(c, i, b) ==
    /\ "saveChanges" \in Faults
    /\ pc[c] = "edit"
    /\ LET s == sess[c] IN
       /\ Get(s, UserOf[c])
       /\ WithdrawAccepted(rows, store[s].save, UserOf[c], s, i, b)
       /\ store' = PutInSave(s, i, rows[b].mon)
    /\ IF c \in Switches THEN GoHome(c) ELSE AfterEdit(c, FALSE)
    /\ UNCHANGED <<rows, game>>

\* Leaving the boxes to write the game.  The Switch gets here without an edit
\* when its deposit was refused.
ChooseWrite(c) ==
    /\ pc[c] = "edit" /\ (dirty[c] \/ c \in Switches)
    /\ Phase(c, "download")
    /\ UNCHANGED <<rows, store, game, sess, dirty, file, tries>>

\* Leaving the boxes without writing, or because a list could not be loaded.
LeaveBoxes(c) ==
    /\ pc[c] = "edit" /\ c \notin Switches
    /\ Phase(c, "abandon")
    /\ UNCHANGED <<rows, store, game, sess, dirty, file, tries>>

\* The Switch's withdrawal was refused.
SwitchGivesUp(c) ==
    /\ pc[c] = "edit" /\ c \in Switches
    /\ GoHome(c)
    /\ UNCHANGED <<rows, store, game>>

\* GET saves/{id}/file.
Download(c) ==
    /\ pc[c] = "download"
    /\ Get(sess[c], UserOf[c])
    /\ file' = [file EXCEPT ![c] = store[sess[c]].save]
    /\ Phase(c, "write")
    /\ UNCHANGED <<rows, store, game, sess, dirty, tries>>

\* A faulty variant of DownloadFails: it does not stop the transfer.
DownloadFailsAndGoesOn(c) ==
    /\ pc[c] = "download"
    /\ ~Get(sess[c], UserOf[c]) \/ "lost" \in Faults
    /\ Phase(c, "commit")
    /\ UNCHANGED <<rows, store, game, sess, dirty, file, tries>>

DownloadFails(c) ==
    /\ pc[c] = "download"
    /\ ~Get(sess[c], UserOf[c]) \/ "lost" \in Faults
    /\ Phase(c, "abandon")
    /\ UNCHANGED <<rows, store, game, sess, dirty, file, tries>>

\* The whole file is written and the archive is committed.
WriteSave(c) ==
    /\ pc[c] = "write"
    /\ game' = [game EXCEPT ![c] = file[c]]
    /\ Phase(c, "commit")
    /\ UNCHANGED <<rows, store, sess, dirty, file, tries>>

\* Nothing was written: the save could not be opened, or the Switch's user said no.
WriteFails(c) ==
    /\ pc[c] = "write"
    /\ Phase(c, "abandon")
    /\ UNCHANGED <<rows, store, game, sess, dirty, file, tries>>

\* The pages of the DS chip or of the extdata file are written one by one and
\* some stay old.  The 3DS sees the error; the Switch ignores a short fwrite.
TornWrite(c) ==
    /\ "tornWrite" \in Faults
    /\ pc[c] = "write"
    /\ \E new \in SUBSET SaveSlots :
         game' = [game EXCEPT ![c] =
                    [i \in SaveSlots |-> IF i \in new THEN file[c][i] ELSE game[c][i]]]
    /\ Phase(c, IF c \in Switches THEN "commit" ELSE "abandon")
    /\ UNCHANGED <<rows, store, sess, dirty, file, tries>>

\* Faulty variants of Retry: one commit too many, an abandon after the last one,
\* and no end.
RetryOnceMore(c) ==
    IF tries[c] = CommitTries(c)
      THEN GoHome(c)
      ELSE /\ tries' = [tries EXCEPT ![c] = @ + 1]
           /\ UNCHANGED <<pc, sess, dirty, file>>

RetryThenAbandon(c) ==
    IF tries[c] + 1 = CommitTries(c)
      THEN Phase(c, "abandon") /\ UNCHANGED <<sess, dirty, file, tries>>
      ELSE /\ tries' = [tries EXCEPT ![c] = @ + 1]
           /\ UNCHANGED <<pc, sess, dirty, file>>

RetryForever(c) ==
    /\ tries' = [tries EXCEPT ![c] = (@ + 1) % CommitTries(c)]
    /\ UNCHANGED <<pc, sess, dirty, file>>

\* A commit was not answered with 200: post it again, or tell the user and stop.
Retry(c) ==
    IF tries[c] + 1 = CommitTries(c)
      THEN GoHome(c)
      ELSE /\ tries' = [tries EXCEPT ![c] = @ + 1]
           /\ UNCHANGED <<pc, sess, dirty, file>>

\* POST saves/{id}/commit.  The handler does not ask whether the session exists.
Finalize(c, heard) ==
    /\ pc[c] = "commit" /\ MayMiss(heard)
    /\ rows' = CommitSession(rows, UserOf[c], sess[c])
    /\ store' = Remove(sess[c])
    /\ IF heard THEN GoHome(c) ELSE Retry(c)
    /\ UNCHANGED game

FinalizeFails(c) ==
    /\ pc[c] = "commit" /\ MayFail
    /\ Retry(c)
    /\ UNCHANGED <<rows, store, game>>

\* DELETE saves/{id}, posted once; the client does not look at the answer.
Abandon(c) ==
    /\ pc[c] = "abandon"
    /\ rows' = AbandonSession(rows, UserOf[c], sess[c])
    /\ store' = Remove(sess[c])
    /\ GoHome(c)
    /\ UNCHANGED game

AbandonFails(c) ==
    /\ pc[c] = "abandon" /\ MayFail
    /\ GoHome(c)
    /\ UNCHANGED <<rows, store, game>>

--------------------------------------------------------------------------------
(* The environment. *)

Crash(c) ==
    /\ "crash" \in Faults
    /\ pc[c] # "idle"
    /\ GoHome(c)
    /\ UNCHANGED <<rows, store, game>>

Restart ==
    /\ "restart" \in Faults
    /\ store' = [s \in Sessions |-> None]
    /\ UNCHANGED <<rows, game, console>>

\* ExpiresAt has passed: the next access to the store sweeps the session out.
\* Clocks are not modelled, a session may expire at any moment.
Expire(s) ==
    /\ "expiry" \in Faults
    /\ s \in ActiveIds
    /\ store' = Remove(s)
    /\ UNCHANGED <<rows, game, console>>

--------------------------------------------------------------------------------

Edit(c) ==
    \/ \E i \in SaveSlots, b \in BankSlots :
         \/ \E heard \in BOOLEAN : Deposit(c, i, b, heard) \/ Withdraw(c, i, b, heard)
         \/ DepositFails(c, i, b)
         \/ WithdrawFails(c, i, b)
    \/ ListBank(c)

\* What a console does by itself once the user has left the boxes.
RunOn(c) ==
    \/ Download(c) \/ DownloadFails(c)
    \/ WriteSave(c) \/ WriteFails(c) \/ TornWrite(c)
    \/ \E heard \in BOOLEAN : Finalize(c, heard)
    \/ FinalizeFails(c)
    \/ Abandon(c) \/ AbandonFails(c)

ConsoleNext(c) ==
    \/ \E s \in Sessions, heard \in BOOLEAN : OpenSession(c, s, heard)
    \/ Edit(c)
    \/ ChooseWrite(c) \/ LeaveBoxes(c) \/ SwitchGivesUp(c)
    \/ RunOn(c)
    \/ Crash(c)

Next ==
    \/ \E c \in Consoles : ConsoleNext(c)
    \/ Restart
    \/ \E s \in Sessions : Expire(s)

Spec == Init /\ [][Next]_vars

--------------------------------------------------------------------------------
(* Fairness: a session that no console uses is not touched, so its ExpiresAt   *)
(* passes; and a bank that can be listed is listed again, which is the only    *)
(* thing that cleans up.  A client may stop anywhere in a transfer: a call has *)
(* no total timeout (http.c:101-113, 148) and a question waits for its user.   *)

Forgotten(s) == \A c \in Consoles : sess[c] # s

Fairness ==
    /\ \A s \in Sessions : WF_vars(Forgotten(s) /\ Expire(s))
    /\ WF_vars(\E c \in Consoles : ListBank(c))

FairSpec == Spec /\ Fairness

================================================================================
