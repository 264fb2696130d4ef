-------------------------------- MODULE MCAccounts --------------------------------
(* Instances of Accounts for TLC. *)
EXTENDS AccountProps, TLC

CONSTANTS h1

\* h1 is told apart where it is the only handler that may change admins.
Symmetry == Permutations(Devices) \cup Permutations(Consoles) \cup Permutations(Handlers \ {h1})

================================================================================
