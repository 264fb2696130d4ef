------------------------------ MODULE RowLifecycle ------------------------------
(***************************************************************************)
(* What the bank promises about one of its slots, whatever the consoles,   *)
(* the network and the session store do.  A slot is empty, or keeps a      *)
(* deposit that is pending for one session, a Pokemon that is banked, or   *)
(* one that is being withdrawn by one session.  A session's reservations   *)
(* are finished together or given back together; nobody else can end       *)
(* them, except the clean-up after sessions that died, which keeps every   *)
(* Pokemon in the bank.                                                    *)
(***************************************************************************)
CONSTANTS BankSlots, Sessions, None

VARIABLE status

Status == [at : {"empty", "banked"}, by : {None}]
            \cup [at : {"pending", "held"}, by : Sessions]

Empty == [at |-> "empty", by |-> None]
Banked == [at |-> "banked", by |-> None]
Pending(s) == [at |-> "pending", by |-> s]
Held(s) == [at |-> "held", by |-> s]

Init == status \in [BankSlots -> {Empty, Banked}]

\* A deposit: the slot is reserved for the session.
Reserve(b, s) == /\ status[b] = Empty
                 /\ status' = [status EXCEPT ![b] = Pending(s)]

\* A deposit taken back by the session that made it.
Undo(b, s) == /\ status[b] = Pending(s)
              /\ status' = [status EXCEPT ![b] = Empty]

\* A withdrawal: only a banked Pokemon can be taken, by one session.
Take(b, s) == /\ status[b] = Banked
              /\ status' = [status EXCEPT ![b] = Held(s)]

\* The session's save was written: all of its reservations become final.
Finish(s) ==
    status' = [b \in BankSlots |-> IF status[b] = Pending(s) THEN Banked
                                   ELSE IF status[b] = Held(s) THEN Empty
                                   ELSE status[b]]

\* The session's save was not written: all of its reservations are undone.
GiveBack(s) ==
    status' = [b \in BankSlots |-> IF status[b] = Pending(s) THEN Empty
                                   ELSE IF status[b] = Held(s) THEN Banked
                                   ELSE status[b]]

\* The sessions in S died: the bank keeps everything they had touched.
Release(S) ==
    status' = [b \in BankSlots |-> IF status[b].by \in S THEN Banked ELSE status[b]]

Next == \/ \E b \in BankSlots, s \in Sessions : Reserve(b, s) \/ Undo(b, s) \/ Take(b, s)
        \/ \E s \in Sessions : Finish(s) \/ GiveBack(s)
        \/ \E S \in SUBSET Sessions : Release(S)

Spec == Init /\ [][Next]_status

================================================================================
