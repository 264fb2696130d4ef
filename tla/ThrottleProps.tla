------------------------------- MODULE ThrottleProps -------------------------------
(***************************************************************************)
(* What the login throttle refuses, and what it lets through, when threads *)
(* interleave inside it.                                                   *)
(***************************************************************************)
EXTENDS LoginThrottle, FiniteSets

\* The threads of a server can be counted.
ASSUME ThreadsAssumption == IsFiniteSet(Threads)

\* Nobody is locked out too early: an entry is blocked only if FailureLimit wrong
\* passwords were given for this login from this address within one window, and no
\* right one since.  Objects that were removed while another thread had them, windows
\* that start again and counts that go on while blocked do not change that
\* (LoginThrottle.cs:51-93).
NoEarlyBlock ==
    \A k \in Keys : entry[k] # Null /\ Blocked(entry[k]) =>
      \E i \in 1..Len(recorded[k]) :
        LET last == i + FailureLimit - 1 IN
        /\ last <= Len(recorded[k])
        /\ recorded[k][last] - recorded[k][i] < Window

\* Until the throttle forgets a login (a right password, the end of its window or of
\* its block, the pruning of its entry) it lets FailureLimit wrong passwords through,
\* and at most one more for each other thread that was past the check by then
\* (LoginThrottle.cs:41-46, 58-60: the check and the count are different calls).
GuessesBounded ==
    \A k \in Keys : guessed[k] < FailureLimit + Cardinality(Threads)

================================================================================
