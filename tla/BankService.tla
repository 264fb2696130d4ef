------------------------------ MODULE BankService ------------------------------
(***************************************************************************)
(* The bank's table of Pokemon and the five operations that change it      *)
(* (server/Services/BankService.cs), as operators on the table's contents. *)
(* Every operation ends in one SaveChangesAsync, one SQLite transaction:   *)
(* the operator gives the table after it.                                  *)
(*                                                                         *)
(* A row is identified by the bank slot it occupies: (BankBoxId, Slot) is  *)
(* unique (BankDbContext.cs:43).  A Pokemon is an opaque value; its        *)
(* legality and its conversion to the save's format only decide whether a  *)
(* request is refused, and a refused request changes nothing.              *)
(***************************************************************************)

CONSTANTS
    Users,       \* accounts
    Mons,        \* the Pokemon being moved
    SaveSlots,   \* the slots of the PC boxes of a save file
    BankSlots,   \* the slots of all the bank boxes
    BankOwner,   \* the user whose box a bank slot belongs to
    Sessions,    \* identifiers of save sessions (Guids)
    Blank,       \* what an empty save slot holds (sav.BlankPKM)
    None         \* no row, no session, no file

ASSUME BankOwnerAssumption == BankOwner \in [BankSlots -> Users]
ASSUME BlankAssumption == Blank \notin Mons
ASSUME NoneAssumption == None \notin Sessions

\* A BankPokemon: the Pokemon, and the two columns that say where it stands.
Row == [mon : Mons, committed : BOOLEAN, held : Sessions \cup {None}]

ASSUME NoRowAssumption == None \notin Row

\* What the boxes of a save file hold.
Image == [SaveSlots -> Mons \cup {Blank}]

IsPending(r) == r # None /\ ~r.committed
IsBanked(r) == r # None /\ r.committed /\ r.held = None

\* A new row, as DepositAsync fills it in.
PendingRow(m, s) == [mon |-> m, committed |-> FALSE, held |-> s]

\* A row nobody holds, as CommitSessionAsync and ReconcileOrphansAsync leave it.
Settled(r) == [r EXCEPT !.committed = TRUE, !.held = None]

--------------------------------------------------------------------------------
(* Deposit: a Pokemon of the save goes to a free slot of one of the user's boxes. *)

DepositAccepted(rows, img, u, i, b) ==
    /\ img[i] # Blank
    /\ BankOwner[b] = u
    /\ rows[b] = None

Deposited(rows, img, s, i, b) == [rows EXCEPT ![b] = PendingRow(img[i], s)]

(* Withdraw: into an empty slot of the save.  A pending deposit of this very   *)
(* session is undone, a banked row becomes held and stays in the bank.         *)

\* Faulty variants of WithdrawAccepted, for comparison: without the test of the
\* holder, and without the test of the owner.
WithdrawAcceptedFromAnyHolder(rows, img, u, s, i, b) ==
    /\ img[i] = Blank
    /\ rows[b] # None
    /\ BankOwner[b] = u

WithdrawAcceptedFromAnyUser(rows, img, u, s, i, b) ==
    /\ img[i] = Blank
    /\ rows[b] # None
    /\ rows[b].held \in {None, s}
    /\ ~(rows[b].committed /\ rows[b].held # None)

WithdrawAccepted(rows, img, u, s, i, b) ==
    /\ img[i] = Blank
    /\ rows[b] # None
    /\ BankOwner[b] = u
    /\ rows[b].held \in {None, s}
    /\ ~(rows[b].committed /\ rows[b].held # None)

\* A faulty variant: a banked row leaves the bank at once.
WithdrawnAtOnce(rows, s, b) == [rows EXCEPT ![b] = None]

Withdrawn(rows, s, b) ==
    [rows EXCEPT ![b] = IF rows[b].committed THEN [rows[b] EXCEPT !.held = s]
                                             ELSE None]

--------------------------------------------------------------------------------
(* The end of a session. *)

HeldForUser(rows, u, s) ==
    {b \in BankSlots : rows[b] # None /\ rows[b].held = s /\ BankOwner[b] = u}

\* A faulty variant of CommitSession: withdrawn rows are not removed.
CommitKeepingHolds(rows, u, s) ==
    [b \in BankSlots |-> IF b \in HeldForUser(rows, u, s)
                           THEN [rows[b] EXCEPT !.held = None, !.committed = TRUE]
                           ELSE rows[b]]

\* The save was written: withdrawn rows leave the bank, deposits are final.
CommitSession(rows, u, s) ==
    [b \in BankSlots |-> IF b \notin HeldForUser(rows, u, s) THEN rows[b]
                         ELSE IF rows[b].committed THEN None
                         ELSE Settled(rows[b])]

\* The save was not written: withdrawn rows are free again, deposits vanish.
AbandonSession(rows, u, s) ==
    [b \in BankSlots |-> IF b \notin HeldForUser(rows, u, s) THEN rows[b]
                         ELSE IF rows[b].committed THEN Settled(rows[b])
                         ELSE None]

\* Rows, of any user, held by sessions that no longer exist.
Orphans(rows, live) ==
    {b \in BankSlots : rows[b] # None /\ rows[b].held # None /\ rows[b].held \notin live}

\* Faulty variants of ReconcileOrphans: deposits are forgotten, and sessions that
\* are still open are not spared.
ReconcileWithdrawsOnly(rows, live) ==
    [b \in BankSlots |-> IF b \in Orphans(rows, live) /\ rows[b].committed
                           THEN Settled(rows[b]) ELSE rows[b]]

ReconcileIgnoringLive(rows, live) ==
    [b \in BankSlots |-> IF rows[b] # None THEN Settled(rows[b]) ELSE None]

\* Nobody knows whether the console wrote its save: both kinds of row are kept.
ReconcileOrphans(rows, live) ==
    [b \in BankSlots |-> IF b \in Orphans(rows, live) THEN Settled(rows[b])
                                                      ELSE rows[b]]

--------------------------------------------------------------------------------
(* What a listing shows to a request that names session s, or None. *)

\* A faulty variant of VisibleInBank: everybody's pending deposits are shown.
VisibleToAll(r, s) == IsBanked(r) \/ IsPending(r)

VisibleInBank(r, s) ==
    \/ IsBanked(r)
    \/ IsPending(r) /\ r.held # None /\ s \in {None, r.held}

================================================================================
