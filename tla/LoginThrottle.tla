------------------------------ MODULE LoginThrottle ------------------------------
(***************************************************************************)
(* LoginThrottle (server/Services/LoginThrottle.cs), as AuthenticateAsync  *)
(* calls it: attempts are counted per address, wrong passwords per address *)
(* and login.  The counters are objects in a concurrent dictionary.  A     *)
(* thread gets an object from the dictionary (atomic), brings its window   *)
(* up to date (under the object's lock) and uses it (under the lock again);*)
(* in between the object may have been removed from the dictionary, which  *)
(* is by key, whatever object is there by then.                            *)
(*                                                                         *)
(* The clock does not advance while a thread is inside a call of the       *)
(* throttle: its unit is a minute.  While a password is checked it may.    *)
(***************************************************************************)
EXTENDS Integers, Sequences

CONSTANTS
    Threads,
    Ips, Logins,      \* normalised: ClientKey, LoginKey
    Counters,         \* objects of class AttemptState, which are numbered
    IpLimit,          \* LoginIpAttemptLimit
    FailureLimit,     \* LoginFailureLimit
    Window,
    PruneEvery,       \* 64 in the code
    MaxCalls,         \* calls of Allow: a bound
    MaxClock,         \* a bound
    Null

ASSUME LimitsAssumption == IpLimit \in Nat /\ FailureLimit \in Nat \ {0}
ASSUME WindowAssumption == Window \in Nat \ {0}       \* Math.Max(1, ...)
ASSUME PruneAssumption == PruneEvery \in Nat \ {0}
ASSUME ThrottleBounds == MaxCalls \in Nat /\ MaxClock \in Nat

Keys == Ips \cup (Ips \X Logins)
Times == 0..MaxClock

\* "i:" and "f:".
ASSUME KeysAssumption == Ips \cap (Ips \X Logins) = {}

AttemptState == [count : Nat, start : Times, until : Nat]    \* until 0: never blocked

\* A thread in a call: what it wants the counter for, how far it has come, and in
\* MaybePrune the counter it looked at and the keys it has not come to.
Call == [ip : Ips, login : Logins,
         use : {"ip", "check", "failure"},
         at : {"prune", "drop", "get", "touch", "use", "password"},
         counter : Counters \cup {Null},
         key : Keys \cup {Null},
         left : SUBSET Keys]

ASSUME NoCallAssumption == Null \notin Counters \cup Call \cup Keys

VARIABLES
    entry,      \* the dictionary
    heap,       \* the objects
    calls,      \* what the threads are doing
    clock,
    ops,        \* _ops
    recorded,   \* when failures were recorded since the last success, per address and login
    guessed     \* wrong passwords since the throttle last forgot the login

throttleVars == <<entry, heap, calls, clock, ops, recorded, guessed>>

\* A block ends within a window.
ThrottleTypeOK ==
    /\ entry \in [Keys -> Counters \cup {Null}]
    /\ heap \in [Counters -> AttemptState]
    /\ \A o \in Counters : heap[o].until <= clock + Window
    /\ calls \in [Threads -> Call \cup {Null}]
    /\ clock \in Times
    /\ ops \in 0..MaxCalls
    /\ recorded \in [Keys -> Seq(Times)]
    /\ guessed \in [Keys -> Nat]

Fresh(now) == [count |-> 0, start |-> now, until |-> 0]

ThrottleInit ==
    /\ entry = [k \in Keys |-> Null]
    /\ heap = [o \in Counters |-> Fresh(0)]
    /\ calls = [t \in Threads |-> Null]
    /\ clock = 0
    /\ ops = 0
    /\ recorded = [k \in Keys |-> <<>>]
    /\ guessed = [k \in Keys |-> 0]

Calling(t, place) == calls[t] # Null /\ calls[t].at = place

KeyOf(c) == IF c.use = "ip" THEN c.ip ELSE <<c.ip, c.login>>

Blocked(o) == heap[o].until > clock
WindowOver(o) == clock - heap[o].start >= Window

GoesTo(t, c) == calls' = [calls EXCEPT ![t] = c]
Returns(t) == calls' = [calls EXCEPT ![t] = Null]

\* What was guessed before the throttle forgets a login does not count any more.
Forget(k) == guessed' = [guessed EXCEPT ![k] = 0]

--------------------------------------------------------------------------------
(* Allow, up to the counter of the address, and MaybePrune. *)

BeginAllow(t, ip, login) ==
    /\ calls[t] = Null
    /\ ops < MaxCalls /\ ops' = ops + 1
    /\ GoesTo(t, [ip |-> ip, login |-> login, use |-> "ip",
                  at |-> IF ops' % PruneEvery = 0 THEN "prune" ELSE "get",
                  counter |-> Null, key |-> Null,
                  left |-> IF ops' % PruneEvery = 0 THEN Keys ELSE {}])
    /\ UNCHANGED <<entry, heap, clock, recorded, guessed>>

\* The enumeration comes to a key, in any order, and locks its object to look at it.
LookAt(t, k) ==
    /\ Calling(t, "prune") /\ k \in calls[t].left
    /\ IF entry[k] # Null /\ ~Blocked(entry[k]) /\ WindowOver(entry[k])
         THEN GoesTo(t, [calls[t] EXCEPT !.left = @ \ {k}, !.key = k, !.at = "drop"])
         ELSE GoesTo(t, [calls[t] EXCEPT !.left = @ \ {k}])
    /\ UNCHANGED <<entry, heap, clock, ops, recorded, guessed>>

\* TryRemove by key.
DropKey(t) ==
    LET k == calls[t].key IN
    /\ Calling(t, "drop")
    /\ entry' = [entry EXCEPT ![k] = Null]
    /\ Forget(k)
    /\ GoesTo(t, [calls[t] EXCEPT !.key = Null, !.at = "prune"])
    /\ UNCHANGED <<heap, clock, ops, recorded>>

PruneDone(t) ==
    /\ Calling(t, "prune") /\ calls[t].left = {}
    /\ GoesTo(t, [calls[t] EXCEPT !.at = "get"])
    /\ UNCHANGED <<entry, heap, clock, ops, recorded, guessed>>

--------------------------------------------------------------------------------
(* Touch. *)

\* An object that nothing refers to.
Unused(o) ==
    /\ \A k \in Keys : entry[k] # o
    /\ \A t \in Threads : calls[t] # Null => calls[t].counter # o

\* GetOrAdd.  Which object is new makes no difference: it is the first unused one.
GetCounter(t, o) ==
    LET k == KeyOf(calls[t]) IN
    /\ Calling(t, "get")
    /\ IF entry[k] # Null
         THEN o = entry[k] /\ UNCHANGED <<entry, heap>>
         ELSE /\ Unused(o) /\ \A x \in Counters : Unused(x) => o <= x
              /\ entry' = [entry EXCEPT ![k] = o]
              /\ heap' = [heap EXCEPT ![o] = Fresh(clock)]
    /\ GoesTo(t, [calls[t] EXCEPT !.counter = o, !.at = "touch"])
    /\ UNCHANGED <<clock, ops, recorded, guessed>>

\* A faulty variant of NewWindow: the count is not reset.
NewWindowOnly(s) == [s EXCEPT !.start = clock, !.until = 0]

NewWindow(s) == [s EXCEPT !.count = 0, !.start = clock, !.until = 0]

Touch(t) ==
    LET o == calls[t].counter IN
    /\ Calling(t, "touch")
    /\ IF ~Blocked(o) /\ WindowOver(o)
         THEN /\ heap' = [heap EXCEPT ![o] = NewWindow(heap[o])]
              /\ IF entry[KeyOf(calls[t])] = o THEN Forget(KeyOf(calls[t]))
                                               ELSE UNCHANGED guessed
         ELSE UNCHANGED <<heap, guessed>>
    /\ GoesTo(t, [calls[t] EXCEPT !.at = "use"])
    /\ UNCHANGED <<entry, clock, ops, recorded>>

--------------------------------------------------------------------------------
(* The uses of a counter, under its lock. *)

Using(t, use) == Calling(t, "use") /\ calls[t].use = use

Counted(o) == [heap EXCEPT ![o].count = @ + 1]

\* Allow: the attempts of an address.
CountAttempt(t) ==
    LET o == calls[t].counter IN
    /\ Using(t, "ip")
    /\ heap' = Counted(o)
    /\ IF heap'[o].count > IpLimit
         THEN Returns(t)
         ELSE GoesTo(t, [calls[t] EXCEPT !.use = "check", !.at = "get", !.counter = Null])
    /\ UNCHANGED <<entry, clock, ops, recorded, guessed>>

\* Allow: the login.
CheckLogin(t) ==
    /\ Using(t, "check")
    /\ IF Blocked(calls[t].counter)
         THEN Returns(t)
         ELSE GoesTo(t, [calls[t] EXCEPT !.at = "password", !.counter = Null])
    /\ UNCHANGED <<entry, heap, clock, ops, recorded, guessed>>

\* A faulty variant of LimitReached: one failure too late.
LimitPassed(n) == n > FailureLimit

LimitReached(n) == n >= FailureLimit

\* A faulty variant of BlockEnd: a block that goes on is prolonged.
BlockEndProlonged(o) == (IF Blocked(o) THEN heap[o].until ELSE clock) + Window

BlockEnd(o) == clock + Window

\* RecordFailure, after Touch.
CountFailure(t) ==
    LET o == calls[t].counter
        k == KeyOf(calls[t])
        n == heap[o].count + 1 IN
    /\ Using(t, "failure")
    /\ heap' = [heap EXCEPT ![o].count = n,
                            ![o].until = IF LimitReached(n) THEN BlockEnd(o) ELSE @]
    /\ recorded' = [recorded EXCEPT ![k] = Append(@, clock)]
    /\ Returns(t)
    /\ UNCHANGED <<entry, clock, ops, guessed>>

--------------------------------------------------------------------------------
(* AuthenticateAsync between the calls of the throttle. *)

\* No such account, or not its password.
WrongPassword(t) ==
    LET k == KeyOf(calls[t]) IN
    /\ Calling(t, "password")
    /\ guessed' = [guessed EXCEPT ![k] = @ + 1]
    /\ GoesTo(t, [calls[t] EXCEPT !.use = "failure", !.at = "get"])
    /\ UNCHANGED <<entry, heap, clock, ops, recorded>>

\* RecordSuccess.
RightPassword(t) ==
    LET k == KeyOf(calls[t]) IN
    /\ Calling(t, "password")
    /\ entry' = [entry EXCEPT ![k] = Null]
    /\ recorded' = [recorded EXCEPT ![k] = <<>>]
    /\ Forget(k)
    /\ Returns(t)
    /\ UNCHANGED <<heap, clock, ops>>

\* The look-up of the account is cancelled, or the database fails.
Interrupted(t) ==
    /\ Calling(t, "password")
    /\ Returns(t)
    /\ UNCHANGED <<entry, heap, clock, ops, recorded, guessed>>

Tick ==
    /\ clock < MaxClock
    /\ \A t \in Threads : calls[t] # Null => calls[t].at = "password"
    /\ clock' = clock + 1
    /\ UNCHANGED <<entry, heap, calls, ops, recorded, guessed>>

--------------------------------------------------------------------------------

\* The server starts again; the counters were in memory, and clock is the time since then.
RestartThrottle ==
    /\ entry' = [k \in Keys |-> Null]
    /\ heap' = [o \in Counters |-> Fresh(0)]
    /\ calls' = [t \in Threads |-> Null]
    /\ clock' = 0 /\ ops' = 0
    /\ recorded' = [k \in Keys |-> <<>>]
    /\ guessed' = [k \in Keys |-> 0]

--------------------------------------------------------------------------------

ThrottleNext ==
    \/ \E t \in Threads :
         \/ \E ip \in Ips, login \in Logins : BeginAllow(t, ip, login)
         \/ \E k \in Keys : LookAt(t, k)
         \/ DropKey(t) \/ PruneDone(t)
         \/ \E o \in Counters : GetCounter(t, o)
         \/ Touch(t)
         \/ CountAttempt(t) \/ CheckLogin(t) \/ CountFailure(t)
         \/ WrongPassword(t) \/ RightPassword(t) \/ Interrupted(t)
    \/ Tick \/ RestartThrottle

ThrottleSpec == ThrottleInit /\ [][ThrottleNext]_throttleVars

================================================================================
