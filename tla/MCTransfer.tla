------------------------------- MODULE MCTransfer -------------------------------
(* Instances of Transfer for TLC: a 3DS and a Switch, of one user or of two. *)
EXTENDS TransferProps, TLC

CONSTANTS k1, k2, b1, u1, u2

\* Everything belongs to one user.
OneOwner == [b \in BankSlots |-> u1]
OneUser == [c \in Consoles |-> u1]

\* Each console has a user of its own, and b1 is the second user's.
TwoOwners == [b \in BankSlots |-> IF b = b1 THEN u2 ELSE u1]
TwoUsers == [c \in Consoles |-> IF c = k2 THEN u2 ELSE u1]

Symmetry == Permutations(Mons) \cup Permutations(BankSlots) \cup Permutations(Sessions)
              \cup Permutations(SaveSlots)

\* With two users the bank slots are not interchangeable.
SymmetryTwoUsers == Permutations(Mons) \cup Permutations(Sessions) \cup Permutations(SaveSlots)

================================================================================
