-------------------------------- MODULE Requests --------------------------------
(***************************************************************************)
(* Transfer with handlers that run at the same time.  A handler of         *)
(* ApiController gives up its thread at every await, so what it read from  *)
(* the database may be stale when it saves.  It runs in three parts:       *)
(*                                                                         *)
(*   Begin  up to its first query: the session and its save are looked up  *)
(*   Read   the query, the decisions on its result, and the change of the  *)
(*          save in memory, up to SaveChangesAsync                         *)
(*   Save   SaveChangesAsync and the answer                                *)
(*                                                                         *)
(* SaveChangesAsync of EF Core is one transaction: it updates the changed  *)
(* columns of each row by the row's id, deletes rows by id and inserts new *)
(* ones.  It throws, and nothing is saved, if a row to update or to delete *)
(* is no longer there, or if an inserted row's slot is taken (the unique   *)
(* index, BankDbContext.cs:43).  A slot's row is told from the rows that   *)
(* were in the slot before it by its generation, which stands for the id.  *)
(*                                                                         *)
(* A console waits for the answer to one call at a time.  When it loses    *)
(* the connection or is switched off, the handler runs on, unheard, or     *)
(* stops because its CancellationToken is signalled.  A restart of the     *)
(* server, which ends everything that is in flight, is left to Transfer.   *)
(***************************************************************************)
EXTENDS Transfer, FiniteSets

CONSTANTS
    Handlers,    \* requests that can be in flight together
    Gens,        \* generations of a slot
    DestOf       \* the bank slots the user of a console deposits into

ASSUME HandlersAssumption == IsFiniteSet(Handlers)
ASSUME GensAssumption == /\ IsFiniteSet(Gens) /\ 0 \in Gens
                         /\ Cardinality(Gens) > Cardinality(Handlers)
ASSUME DestOfAssumption == DestOf \in [Consoles -> SUBSET BankSlots]

Ops == {"open", "list", "deposit", "withdraw", "commit", "abandon"}

\* What SaveChangesAsync is to do to one row.
Change == [slot : BankSlots, gen : Gens, what : {"insert", "hold", "free", "settle", "remove"}]

Request == [con : Consoles, op : Ops, sess : Sessions \cup {None},
            heard : BOOLEAN,              \* the console still waits
            at : {"read", "save"},
            slot : SaveSlots \cup {None}, \* the save slot
            mon : Mons \cup {Blank},      \* the Pokemon read from the save
            img : Image \cup {None},      \* the uploaded save
            live : SUBSET Sessions,       \* ActiveIds, as it was at the beginning
            changes : SUBSET Change]

ASSUME NoRequestAssumption == None \notin Request

VARIABLES
    gen,         \* the generation of the row in each bank slot, 0 if there is none
    reqs         \* the handlers that are running

allVars == <<vars, gen, reqs>>

RequestsTypeOK ==
    /\ TypeOK
    /\ gen \in [BankSlots -> Gens]
    /\ reqs \in [Handlers -> Request \cup {None}]

RequestsInit ==
    /\ Init
    /\ gen = [b \in BankSlots |-> 0]
    /\ reqs = [h \in Handlers |-> None]

Running == {h \in Handlers : reqs[h] # None}

Waiting(c) == \E h \in Running : reqs[h].con = c /\ reqs[h].heard

--------------------------------------------------------------------------------
(* The database. *)

\* The changes can be saved together.
Saves(changes) ==
    \A x \in changes :
      IF x.what = "insert" THEN rows[x.slot] = None
                           ELSE rows[x.slot] # None /\ gen[x.slot] = x.gen

\* A row after its change, with the columns the handler did not touch as they are.
Changed(x, m, s) ==
    CASE x.what = "insert" -> PendingRow(m, s)
      [] x.what = "hold"   -> [rows[x.slot] EXCEPT !.held = s]
      [] x.what = "free"   -> [rows[x.slot] EXCEPT !.held = None]
      [] x.what = "settle" -> Settled(rows[x.slot])
      [] x.what = "remove" -> None

SaveChanges(changes, m, s) ==
    rows' = [b \in BankSlots |->
               IF \E x \in changes : x.slot = b
                 THEN Changed(CHOOSE x \in changes : x.slot = b, m, s)
                 ELSE rows[b]]

\* A new id for the row of a slot: one that no handler remembers.
NewGen(b) ==
    CHOOSE g \in Gens : \A h \in Running : \A x \in reqs[h].changes : x.slot = b => x.gen # g

\* Faulty variants: a commit removes deposits too, and a DELETE forgets the holds.
ToRemoveAll(u, s) ==
    {[slot |-> b, gen |-> gen[b], what |-> "remove"] : b \in HeldForUser(rows, u, s)}
ToRemoveDeposits(u, s) ==
    {[slot |-> b, gen |-> gen[b], what |-> "remove"] :
       b \in {x \in HeldForUser(rows, u, s) : IsPending(rows[x])}}

\* The rows the handlers select, with what they decide to do to each of them.
ToCommit(u, s) ==
    {[slot |-> b, gen |-> gen[b], what |-> IF rows[b].committed THEN "remove" ELSE "settle"] :
       b \in HeldForUser(rows, u, s)}
ToAbandon(u, s) ==
    {[slot |-> b, gen |-> gen[b], what |-> IF rows[b].committed THEN "free" ELSE "remove"] :
       b \in HeldForUser(rows, u, s)}
ToReconcile(live) ==
    {[slot |-> b, gen |-> gen[b], what |-> IF rows[b].committed THEN "free" ELSE "settle"] :
       b \in Orphans(rows, live)}

--------------------------------------------------------------------------------
(* A console sends a request ... *)

Sent(c, op, s) ==
    [con |-> c, op |-> op, sess |-> s, heard |-> TRUE, at |-> "read", slot |-> None,
     mon |-> Blank, img |-> None, live |-> {}, changes |-> {}]

Begin(h, r) ==
    /\ h \notin Running /\ ~Waiting(r.con)
    /\ reqs' = [reqs EXCEPT ![h] = r]
    /\ UNCHANGED <<vars, gen>>

\* A faulty variant of BeginOpen: a save is opened that was not read.
BeginOpenUnread(c, h) ==
    /\ pc[c] = "idle"
    /\ Begin(h, [Sent(c, "open", None) EXCEPT !.live = ActiveIds])

BeginOpen(c, h) ==
    /\ pc[c] = "idle"
    /\ Begin(h, [Sent(c, "open", None) EXCEPT !.img = game[c], !.live = ActiveIds])

BeginList(c, h) ==
    /\ c \notin Switches /\ pc[c] \in {"idle", "edit"}
    /\ Begin(h, [Sent(c, "list", None) EXCEPT !.live = ActiveIds])

BeginDeposit(c, h, i) ==
    /\ pc[c] = "edit" /\ Get(sess[c], UserOf[c])
    /\ LET m == store[sess[c]].save[i] IN
       /\ m # Blank
       /\ Begin(h, [Sent(c, "deposit", sess[c]) EXCEPT !.slot = i, !.mon = m])

\* The user picks a row of the list; its id is in the request.
BeginWithdraw(c, h, i, b) ==
    /\ pc[c] = "edit" /\ Get(sess[c], UserOf[c])
    /\ store[sess[c]].save[i] = Blank
    /\ rows[b] # None
    /\ Begin(h, [Sent(c, "withdraw", sess[c]) EXCEPT
                   !.slot = i, !.changes = {[slot |-> b, gen |-> gen[b], what |-> "hold"]}])

BeginCommit(c, h) == pc[c] = "commit" /\ Begin(h, Sent(c, "commit", sess[c]))

BeginAbandon(c, h) == pc[c] = "abandon" /\ Begin(h, Sent(c, "abandon", sess[c]))

(* ... and does something with the answer, if it still waits for it. *)

Answered(c, op, ok) ==
    \/ op \in {"open", "list"} /\ UNCHANGED console
    \/ op = "deposit" /\ AfterEdit(c, ok)
    \/ op = "withdraw" /\ IF c \in Switches /\ ~ok THEN GoHome(c) ELSE AfterEdit(c, ok)
    \/ op = "commit" /\ IF ok THEN GoHome(c) ELSE Retry(c)
    \/ op = "abandon" /\ GoHome(c)

Answer(h, ok) ==
    /\ reqs' = [reqs EXCEPT ![h] = None]
    /\ IF reqs[h].heard THEN Answered(reqs[h].con, reqs[h].op, ok) ELSE UNCHANGED console

--------------------------------------------------------------------------------
(* The queries.  A refused request is answered without a change. *)

Reads(h, op) == h \in Running /\ reqs[h].op = op /\ reqs[h].at = "read"

\* The handler goes on with its changes.
Decides(h, changes) ==
    /\ reqs' = [reqs EXCEPT ![h].at = "save", ![h].changes = changes, ![h].live = {}]
    /\ UNCHANGED <<rows, game, console, gen>>

\* The save belongs to the session's object, which nobody else sees once the
\* session is gone from the store.
PutInOpenSave(s, i, x) == IF s \in ActiveIds THEN PutInSave(s, i, x) ELSE store

ReadOrphans(h) ==
    /\ Reads(h, "open") \/ Reads(h, "list")
    /\ Decides(h, ToReconcile(reqs[h].live))
    /\ UNCHANGED store

ReadBoxes(h) ==
    /\ Reads(h, "deposit")
    /\ LET r == reqs[h] IN
       \/ \E b \in DestOf[r.con] :
            /\ BankOwner[b] = UserOf[r.con] /\ rows[b] = None
            /\ Decides(h, {[slot |-> b, gen |-> gen[b], what |-> "insert"]})
            /\ store' = PutInOpenSave(r.sess, r.slot, Blank)
       \/ /\ \A b \in DestOf[r.con] : BankOwner[b] = UserOf[r.con] => rows[b] # None
          /\ Answer(h, FALSE)
          /\ UNCHANGED <<rows, store, game, gen>>

\* A faulty variant of Picked: the holder is not asked for.
PickedFromAnyHolder(r) ==
    {x \in r.changes :
       /\ rows[x.slot] # None /\ gen[x.slot] = x.gen
       /\ BankOwner[x.slot] = UserOf[r.con]}

\* The row that was picked, if it is still there and the session may take it.
Picked(r) ==
    {x \in r.changes :
       /\ rows[x.slot] # None /\ gen[x.slot] = x.gen
       /\ BankOwner[x.slot] = UserOf[r.con]
       /\ rows[x.slot].held \in {None, r.sess}
       /\ ~(rows[x.slot].committed /\ rows[x.slot].held # None)}

ReadPokemon(h) ==
    /\ Reads(h, "withdraw")
    /\ LET r == reqs[h] IN
       \/ \E x \in Picked(r) :
            /\ Decides(h, {[x EXCEPT !.what = IF rows[x.slot].committed THEN "hold" ELSE "remove"]})
            /\ store' = PutInOpenSave(r.sess, r.slot, rows[x.slot].mon)
       \/ /\ Picked(r) = {}
          /\ Answer(h, FALSE)
          /\ UNCHANGED <<rows, store, game, gen>>

ReadHeld(h) ==
    /\ \/ /\ Reads(h, "commit")
          /\ Decides(h, ToCommit(UserOf[reqs[h].con], reqs[h].sess))
       \/ /\ Reads(h, "abandon")
          /\ Decides(h, ToAbandon(UserOf[reqs[h].con], reqs[h].sess))
    /\ UNCHANGED store

--------------------------------------------------------------------------------
(* SaveChangesAsync and what follows it. *)

SavesNow(h) == h \in Running /\ reqs[h].at = "save" /\ Saves(reqs[h].changes)

SaveRows(h) ==
    LET r == reqs[h] IN
    /\ SavesNow(h)
    /\ SaveChanges(r.changes, r.mon, r.sess)
    /\ gen' = [b \in BankSlots |->
                 IF rows'[b] = None THEN 0
                 ELSE IF rows[b] = None THEN NewGen(b) ELSE gen[b]]
    /\ UNCHANGED game

SaveEdit(h) ==
    /\ SaveRows(h)
    /\ reqs[h].op \in {"list", "deposit", "withdraw"}
    /\ Answer(h, TRUE)
    /\ UNCHANGED store

\* The end of CommitSession and CloseSession: the session is removed as well.
SaveEnd(h) ==
    /\ SaveRows(h)
    /\ reqs[h].op \in {"commit", "abandon"}
    /\ Answer(h, TRUE)
    /\ store' = Remove(reqs[h].sess)

\* The end of OpenSession: the session is created after the reconciliation.
SaveOpen(h, s) ==
    LET r == reqs[h] IN
    /\ SaveRows(h)
    /\ r.op = "open" /\ IsNewId(s)
    /\ \A k \in Running : reqs[k].sess # s /\ s \notin reqs[k].live
    /\ store' = Create(s, UserOf[r.con], r.img)
    /\ reqs' = [reqs EXCEPT ![h] = None]
    /\ IF r.heard
         THEN /\ Phase(r.con, "edit")
              /\ sess' = [sess EXCEPT ![r.con] = s]
              /\ UNCHANGED <<dirty, file, tries>>
         ELSE UNCHANGED console

\* A row is gone or the slot is taken, or else the database refuses or the handler is
\* cancelled: it throws, with the save in memory changed as it is.
SaveThrows(h) ==
    /\ h \in Running /\ reqs[h].at = "save"
    /\ ~Saves(reqs[h].changes) \/ "saveChanges" \in Faults
    /\ Answer(h, FALSE)
    /\ UNCHANGED <<rows, store, game, gen>>

--------------------------------------------------------------------------------
(* Connections and consoles. *)

\* The console takes the call for failed, and the handler runs on.
LoseConnection(h) ==
    /\ "lost" \in Faults
    /\ h \in Running /\ reqs[h].heard
    /\ Answered(reqs[h].con, reqs[h].op, FALSE)
    /\ reqs' = [reqs EXCEPT ![h].heard = FALSE]
    /\ UNCHANGED <<rows, store, game, gen>>

\* A handler nobody waits for is cancelled before its query.
Cancel(h) ==
    /\ h \in Running /\ ~reqs[h].heard /\ reqs[h].at = "read"
    /\ reqs' = [reqs EXCEPT ![h] = None]
    /\ UNCHANGED <<vars, gen>>

SwitchOff(c) ==
    /\ Crash(c)
    /\ reqs' = [h \in Handlers |-> IF h \in Running /\ reqs[h].con = c
                                     THEN [reqs[h] EXCEPT !.heard = FALSE] ELSE reqs[h]]
    /\ UNCHANGED gen

\* What a console does between two calls; the download reads no row.
LocalStep(c) ==
    /\ ~Waiting(c)
    /\ \/ ChooseWrite(c) \/ LeaveBoxes(c) \/ SwitchGivesUp(c)
       \/ Download(c) \/ DownloadFails(c)
       \/ WriteSave(c) \/ WriteFails(c) \/ TornWrite(c)
    /\ UNCHANGED <<gen, reqs>>

ExpireSession(s) == Expire(s) /\ UNCHANGED <<gen, reqs>>

--------------------------------------------------------------------------------

BeginSome(c, h) ==
    \/ BeginOpen(c, h) \/ BeginList(c, h)
    \/ \E i \in SaveSlots : BeginDeposit(c, h, i)
    \/ \E i \in SaveSlots, b \in BankSlots : BeginWithdraw(c, h, i, b)
    \/ BeginCommit(c, h) \/ BeginAbandon(c, h)

RunHandler(h) ==
    \/ ReadOrphans(h) \/ ReadBoxes(h) \/ ReadPokemon(h) \/ ReadHeld(h)
    \/ SaveEdit(h) \/ SaveEnd(h) \/ (\E s \in Sessions : SaveOpen(h, s)) \/ SaveThrows(h)
    \/ LoseConnection(h) \/ Cancel(h)

RequestsNext ==
    \/ \E c \in Consoles :
         \/ \E h \in Handlers : BeginSome(c, h)
         \/ LocalStep(c)
         \/ SwitchOff(c)
    \/ \E h \in Handlers : RunHandler(h)
    \/ \E s \in Sessions : ExpireSession(s)

RequestsSpec == RequestsInit /\ [][RequestsNext]_allVars

================================================================================
