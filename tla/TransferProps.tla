------------------------------ MODULE TransferProps ------------------------------
(***************************************************************************)
(* What a transfer must preserve.                                          *)
(***************************************************************************)
EXTENDS Transfer

\* Destroying and duplicating Pokemon are what the two columns Committed and
\* HeldBySessionId exist to prevent (Entities.cs:66-69).

\* Every Pokemon is in the save of some game or in the bank, whatever step of
\* a transfer was interrupted, lost or repeated.
NoLoss == \A m \in Mons : InBank(m) \/ \E c \in Consoles : Has(game[c], m)

\* The rows of a session s that hold m: deposits the console has not written
\* yet, and Pokemon it is taking out of the bank.
Depositing(s, m) ==
    \E b \in BankSlots : IsPending(rows[b]) /\ rows[b].held = s /\ rows[b].mon = m
Withdrawing(s, m) ==
    \E b \in BankSlots :
      rows[b] # None /\ rows[b].committed /\ rows[b].held = s /\ rows[b].mon = m

\* While its session is open, the copy a console edits plus its deposits are the
\* game plus its withdrawals: SetBoxSlotAtIndex and the change of the row always
\* happen together, and nobody else disturbs the rows of a live session.
SessionBalance ==
    \A c \in Consoles :
      pc[c] \in {"edit", "download", "write"} /\ sess[c] \in ActiveIds =>
        LET copy == IF pc[c] = "write" THEN file[c] ELSE store[sess[c]].save IN
        \A m \in Mons : (Has(game[c], m) \/ Withdrawing(sess[c], m))
                          <=> (Has(copy, m) \/ Depositing(sess[c], m))

\* A DELETE of a session never erases the only copy: a deposit it would remove is
\* still in the game the console did not write, even when the session expired
\* meanwhile (transfer_flow's calls of session_abandon).
AbandonKeepsCopy ==
    \A c \in Consoles : pc[c] \in {"edit", "download", "write", "abandon"} =>
      \A m \in Mons :
        Depositing(sess[c], m) => Has(game[c], m) \/ Withdrawing(sess[c], m)

\* A commit never erases the only copy: a withdrawn row it removes is in the game
\* that was just written, or was deposited again, however often it is posted and
\* whether or not the session still exists (session_commit, CommitSessionAsync).
FinalizeKeepsCopy ==
    \A c \in Consoles : pc[c] = "commit" =>
      \A m \in Mons :
        Withdrawing(sess[c], m) => Has(game[c], m) \/ Depositing(sess[c], m)

\* When every console is at its home menu and no row is held, no Pokemon was
\* lost and none was copied.
ExactlyOnce ==
    (/\ \A c \in Consoles : pc[c] = "idle"
     /\ \A b \in BankSlots : rows[b] # None => rows[b].held = None)
      => \A m \in Mons : \E p \in Places(m) : Places(m) = {p}

\* The boxes screen never shows a Pokemon twice: what a console is shown of the
\* bank, and what it is shown of its session's save, are different Pokemon, even
\* when an earlier session of the same game still holds rows (VisibleInBank).
NothingShownTwice ==
    \A c \in Consoles : pc[c] = "edit" /\ sess[c] \in ActiveIds =>
      \A b \in BankSlots : VisibleInBank(rows[b], sess[c]) =>
        ~Has(store[sess[c]].save, rows[b].mon)

\* "False until the console writes the patched save" (Entities.cs:66, of
\* Committed): while the console that made a deposit has not written its save,
\* the deposit does not become a banked Pokemon.
CommittedOnlyWhenWritten ==
    [][\A b \in BankSlots, c \in Consoles :
         IsPending(rows[b]) /\ rows[b].held = sess[c] /\ pc[c] # "commit"
           => ~IsBanked(rows'[b])]_vars

\* Nobody holds a row of another user: a session's reservations are in boxes of
\* the account its console is signed in to (the BankBox.UserId filters).
HoldsAreOwn ==
    \A b \in BankSlots, c \in Consoles :
      rows[b] # None /\ rows[b].held # None /\ rows[b].held = sess[c]
        => BankOwner[b] = UserOf[c]

\* The bank keeps the promises of module RowLifecycle: a hold is only ever taken
\* on a free row, and only its own session, or the clean-up after it, ends it.
Stage(r) ==
    IF r = None THEN [at |-> "empty", by |-> None]
    ELSE [at |-> IF ~r.committed THEN "pending"
                 ELSE IF r.held = None THEN "banked" ELSE "held",
          by |-> r.held]

Lifecycle == INSTANCE RowLifecycle WITH status <- [b \in BankSlots |-> Stage(rows[b])]

KeepsLifecycle == Lifecycle!Spec

\* What nothing in the client makes sure of: that a call returns, with an answer or with
\* an error, ...
CallsReturn(c) ==
    /\ WF_vars(Download(c) \/ DownloadFails(c))
    /\ WF_vars(FinalizeFails(c) \/ \E heard \in BOOLEAN : Finalize(c, heard))
    /\ WF_vars(Abandon(c) \/ AbandonFails(c))

\* ... and that the user answers the Switch's question whether to write the save.  (The
\* report the 3DS shows before its DELETE is part of the call: it has to be closed.)
UserAnswers(c) == WF_vars(WriteSave(c) \/ WriteFails(c) \/ TornWrite(c))

\* A row left behind by a session nobody uses is released again, whatever the other
\* consoles do and wherever they hang, as long as a 3DS keeps coming back to a screen
\* that lists the bank: sessions expire, and listing the bank or opening a session
\* reconciles (ReconcileOrphansAsync).
ForgottenHoldsEnd ==
    []<>(\E c \in Consoles \ Switches : pc[c] \in {"idle", "edit"})
      => \A b \in BankSlots, s \in Sessions :
           (rows[b] # None /\ rows[b].held = s /\ Forgotten(s))
             ~> (rows[b] = None \/ rows[b].held # s)

\* A client whose calls return, answered or not, and whose user answers comes back to
\* its home menu once the boxes are left, even if the server never accepts the commit:
\* it is posted a bounded number of times (session_commit).  A call that hangs, or a
\* question nobody answers, keeps it where it is.
TransferEnds ==
    \A c \in Consoles :
      CallsReturn(c) /\ UserAnswers(c)
        => (pc[c] \in {"download", "write", "commit", "abandon"} ~> pc[c] = "idle")

================================================================================
