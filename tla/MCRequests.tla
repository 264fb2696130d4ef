-------------------------------- MODULE MCRequests --------------------------------
(* Instances of Requests for TLC: two consoles of one user. *)
EXTENDS RequestProps, TLC

CONSTANTS k1, k2, b1, u1

OneOwner == [b \in BankSlots |-> u1]
OneUser == [c \in Consoles |-> u1]

\* Both deposit into any slot, or each into slots of its own.
Shared == [c \in Consoles |-> BankSlots]
Separate == [c \in Consoles |-> IF c = k1 THEN {b1} ELSE BankSlots \ {b1}]

Symmetry == Permutations(Mons) \cup Permutations(SaveSlots) \cup Permutations(Sessions)
              \cup Permutations(Handlers)

================================================================================
