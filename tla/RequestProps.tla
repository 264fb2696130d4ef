------------------------------- MODULE RequestProps -------------------------------
(***************************************************************************)
(* What survives when the bank's handlers run at the same time, and what   *)
(* does not.                                                               *)
(***************************************************************************)
EXTENDS TransferProps, Requests

\* A pending deposit leaves the bank only by a request of its own session: an
\* undo, or the end of the session.  Whatever runs at the same time, a handler that
\* read the row for another session cannot remove it or hold it
\* (BankService.cs:116-119, 236).
PendingIsOwn ==
    [][\A b \in BankSlots : IsPending(rows[b]) =>
         \/ rows'[b] \in {rows[b], Settled(rows[b])}
         \/ /\ rows'[b] = None
            /\ \E h \in Running : reqs[h].sess = rows[b].held /\ reqs'[h] = None]_allVars

\* A commit or a DELETE that is answered with success leaves no row held by its
\* session: what the handler selected is still all there is when it saves, because a
\* console waits for one answer at a time (ApiController.cs:216-239).
EndedHoldsNothing ==
    [][\A h \in Running :
         SaveEnd(h) =>
           \A b \in BankSlots : rows'[b] # None => rows'[b].held # reqs[h].sess]_allVars

\* "That Pokemon is held by another save session." (BankService.cs:117): a row that
\* one session is withdrawing is not given to another.
HoldNotTaken ==
    [][\A b \in BankSlots : rows[b] # None /\ rows[b].committed /\ rows[b].held # None =>
         rows'[b] = None \/ rows'[b].held \in {rows[b].held, None}]_allVars

================================================================================
