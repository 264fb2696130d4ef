------------------------------ MODULE ThrottleProofs ------------------------------
(***************************************************************************)
(* The throttle locks nobody out too early, for any number of threads,     *)
(* addresses and logins.  What connects an object to the failures it       *)
(* stands for: an object belongs to one key (Owned), its count is at most  *)
(* the number of failures recorded for the key since its window began      *)
(* (CountOK), and a thread that is about to use it found its window open   *)
(* (InWindow).  An object that was removed while a thread had it only      *)
(* takes failures away from the one that replaced it.                      *)
(***************************************************************************)
EXTENDS ThrottleProps, SequenceTheorems, FiniteSetTheorems, TLAPS

LoginKeys == Ips \X Logins

\* A thread has an object exactly between getting and using it.
HasCounter ==
    \A t \in Threads : calls[t] # Null =>
      (calls[t].counter # Null <=> calls[t].at \in {"touch", "use"})

\* An object is in the dictionary under one key, that of the threads that have it.
Owned ==
    /\ \A k, l \in Keys : entry[k] = entry[l] /\ entry[k] # Null => k = l
    /\ \A t \in Threads, k \in Keys :
         calls[t] # Null /\ calls[t].counter # Null /\ entry[k] = calls[t].counter
           => k = KeyOf(calls[t])

InWindow ==
    \A t \in Threads : Calling(t, "use") =>
      Blocked(calls[t].counter) \/ ~WindowOver(calls[t].counter)

\* The failures of a key are recorded in the order of time.
Ordered(r, now) ==
    \A i \in 1..Len(r) : r[i] <= now /\ \A j \in i..Len(r) : r[i] <= r[j]

CountOK(s, r) ==
    /\ s.count <= Len(r)
    /\ s.count > 0 => r[Len(r) - s.count + 1] >= s.start

\* FailureLimit failures within one window.
ManyFailures(r) ==
    \E i \in 1..Len(r) :
      /\ i + FailureLimit - 1 <= Len(r)
      /\ r[i + FailureLimit - 1] - r[i] < Window

\* The object of a key, or of nobody yet.
CounterOK(k, o) ==
    IF k \in LoginKeys
      THEN /\ CountOK(heap[o], recorded[k])
           /\ Blocked(o) => ManyFailures(recorded[k])
      ELSE heap[o].until = 0

ThrottleInv ==
    /\ ThrottleTypeOK
    /\ HasCounter /\ Owned /\ InWindow
    /\ \A o \in Counters : heap[o].start <= clock
    /\ \A k \in Keys : Ordered(recorded[k], clock)
    /\ \A k \in Keys : entry[k] # Null => CounterOK(k, entry[k])

--------------------------------------------------------------------------------
(* What one more recorded failure does to these. *)

LEMMA Appended ==
    ASSUME NEW r \in Seq(Times), NEW now \in Times
    PROVE  /\ Append(r, now) \in Seq(Times) /\ Len(r) \in Nat
           /\ Len(Append(r, now)) = Len(r) + 1
           /\ \A i \in 1..Len(r) : Append(r, now)[i] = r[i] /\ r[i] \in Times
           /\ Append(r, now)[Len(r) + 1] = now
BY AppendProperties, ElementOfSeq, LenProperties

LEMMA OrderedAppend ==
    ASSUME NEW r \in Seq(Times), NEW now \in Times, Ordered(r, now)
    PROVE  Ordered(Append(r, now), now)
BY Appended DEF Ordered, Times

\* It is counted in the object of the key, or in one that is not in use any more.
LEMMA CountAppend ==
    ASSUME NEW r \in Seq(Times), NEW now \in Times, Ordered(r, now), ThrottleBounds,
           NEW s \in AttemptState, NEW ss \in AttemptState, CountOK(s, r), s.start <= now,
           ss.start = s.start, ss.count \in {s.count, s.count + 1}
    PROVE  CountOK(ss, Append(r, now))
<1> DEFINE rr == Append(r, now)
<1>1. /\ Len(rr) = Len(r) + 1 /\ Len(r) \in Nat
      /\ \A i \in 1..Len(r) : rr[i] = r[i] /\ r[i] \in Int
      /\ rr[Len(r) + 1] = now
      /\ now \in Int /\ s.start \in Int /\ s.count \in Nat
  BY Appended DEF AttemptState, Times
<1>2. CASE ss.count = s.count + 1
  BY <1>1, <1>2 DEF CountOK
<1>3. CASE ss.count = s.count /\ s.count > 1
  <2>1. /\ Len(r) - s.count + 1 \in 1..Len(r)
        /\ Len(r) - s.count + 2 \in (Len(r) - s.count + 1)..Len(r)
    BY <1>1, <1>3 DEF CountOK
  <2>2. r[Len(r) - s.count + 1] <= r[Len(r) - s.count + 2]
    BY <2>1 DEF Ordered
  <2>3. rr[Len(rr) - s.count + 1] = r[Len(r) - s.count + 2]
    BY <1>1, <1>3, <2>1
  <2> QED
    BY <1>1, <1>3, <2>1, <2>2, <2>3 DEF CountOK
<1>4. CASE ss.count = s.count /\ s.count <= 1
  BY <1>1, <1>4 DEF CountOK
<1> QED
  BY <1>1, <1>2, <1>3, <1>4

LEMMA ManyAppend ==
    ASSUME NEW r \in Seq(Times), NEW now \in Times, ManyFailures(r)
    PROVE  ManyFailures(Append(r, now))
<1>1. PICK i \in 1..Len(r) : /\ i + FailureLimit - 1 <= Len(r)
                             /\ r[i + FailureLimit - 1] - r[i] < Window
  BY DEF ManyFailures
<1>2. i + FailureLimit - 1 \in 1..Len(r) /\ Len(r) \in Nat
  BY <1>1, Appended, LimitsAssumption
<1>3. /\ Append(r, now)[i] = r[i]
      /\ Append(r, now)[i + FailureLimit - 1] = r[i + FailureLimit - 1]
      /\ Len(Append(r, now)) = Len(r) + 1
  BY <1>2, Appended
<1> QED
  BY <1>1, <1>2, <1>3 DEF ManyFailures

\* A count that reaches the limit within the window.
LEMMA LimitMany ==
    ASSUME NEW r \in Seq(Times), NEW now \in Times, Ordered(r, now), ThrottleBounds,
           NEW s \in AttemptState, CountOK(s, r), s.count >= FailureLimit,
           now - s.start < Window
    PROVE  ManyFailures(r)
<1> DEFINE first == Len(r) - s.count + 1
           i == Len(r) - FailureLimit + 1
<1>1. /\ Len(r) \in Nat /\ s.count \in Nat /\ s.count <= Len(r)
      /\ \A j \in 1..Len(r) : r[j] \in Int
      /\ now \in Int /\ s.start \in Int /\ Window \in Int
      /\ FailureLimit \in Nat /\ FailureLimit >= 1
  BY LenProperties, ElementOfSeq, WindowAssumption, LimitsAssumption
  DEF AttemptState, Times, CountOK
<1>2. /\ first \in 1..Len(r) /\ i \in 1..Len(r) /\ Len(r) \in 1..Len(r)
      /\ first <= i
  BY <1>1
<1>3. r[first] >= s.start /\ r[first] <= r[i] /\ r[Len(r)] <= now
  <2>1. r[first] >= s.start
    BY <1>1 DEF CountOK
  <2>2. i \in first..Len(r)
    BY <1>2
  <2> QED
    BY <1>2, <2>1, <2>2 DEF Ordered
<1>4. i + FailureLimit - 1 = Len(r)
  BY <1>1
<1>5. r[Len(r)] - r[i] < Window
  <2>1. r[first] \in Int /\ r[i] \in Int /\ r[Len(r)] \in Int
    BY <1>1, <1>2
  <2> HIDE DEF first, i
  <2> QED
    BY <1>1, <1>3, <2>1
<1> QED
  BY <1>2, <1>4, <1>5 DEF ManyFailures

--------------------------------------------------------------------------------
(* The steps. *)

LEMMA KeyIsKey ==
    ASSUME NEW c \in Call
    PROVE  KeyOf(c) \in Keys /\ (c.use # "ip" => KeyOf(c) \in LoginKeys)
           /\ (c.use = "ip" => KeyOf(c) \notin LoginKeys)
BY KeysAssumption DEF KeyOf, Call, Keys, LoginKeys

LEMMA ThrottleInitInv == ThrottleInit => ThrottleInv
<1> SUFFICES ASSUME ThrottleInit PROVE ThrottleInv
  OBVIOUS
<1>1. 0 \in Times /\ Fresh(0) \in AttemptState /\ <<>> \in Seq(Times) /\ Len(<<>>) = 0
  BY ThrottleBounds, EmptySeq DEF Times, Fresh, AttemptState
<1>2. ThrottleTypeOK
  BY <1>1, ThrottleBounds, WindowAssumption DEF ThrottleInit, ThrottleTypeOK, Fresh
<1>3. \A o \in Counters : heap[o].start <= clock
  BY DEF ThrottleInit, Fresh
<1>4. \A k \in Keys : Ordered(recorded[k], clock)
  BY <1>1 DEF ThrottleInit, Ordered
<1> QED
  BY <1>2, <1>3, <1>4, NoCallAssumption
  DEF ThrottleInit, ThrottleInv, HasCounter, Owned, InWindow, Calling

\* A thread goes on without an object; entries and what was recorded for them may go.
LEMMA PlainStep ==
    ASSUME ThrottleInv, ThrottleTypeOK', UNCHANGED <<heap, clock>>,
           NEW t \in Threads, NEW c \in Call \cup {Null},
           calls' = [calls EXCEPT ![t] = c],
           c # Null => c.counter = Null /\ c.at \notin {"touch", "use"},
           \A k \in Keys : entry'[k] \in {entry[k], Null},
           \A k \in Keys : recorded'[k] = recorded[k] \/ (recorded'[k] = <<>> /\ entry'[k] = Null)
    PROVE  ThrottleInv'
<1>1. /\ calls'[t] = c
      /\ \A x \in Threads \ {t} : calls'[x] = calls[x]
  BY DEF ThrottleInv, ThrottleTypeOK
<1>2. HasCounter'
  BY <1>1 DEF ThrottleInv, HasCounter
<1>3. Owned'
  BY <1>1 DEF ThrottleInv, Owned
<1>4. InWindow'
  BY <1>1 DEF ThrottleInv, InWindow, Calling, Blocked, WindowOver
<1>5. \A k \in Keys : Ordered(recorded[k], clock)'
  BY DEF ThrottleInv, Ordered
<1>6. \A k \in Keys : entry'[k] # Null => CounterOK(k, entry[k])'
  BY DEF ThrottleInv, CounterOK, Blocked
<1> QED
  BY <1>2, <1>3, <1>4, <1>5, <1>6 DEF ThrottleInv

LEMMA PlainSteps ==
    ASSUME ThrottleInv, NEW t \in Threads,
           \/ \E ip \in Ips, login \in Logins : BeginAllow(t, ip, login)
           \/ \E k \in Keys : LookAt(t, k)
           \/ DropKey(t) \/ PruneDone(t) \/ CheckLogin(t)
           \/ WrongPassword(t) \/ RightPassword(t) \/ Interrupted(t)
    PROVE  ThrottleInv'
<1> USE DEF ThrottleInv
<1>t. ThrottleTypeOK /\ (calls[t] # Null => calls[t] \in Call)
  BY DEF ThrottleTypeOK
<1>1. ASSUME NEW ip \in Ips, NEW login \in Logins, BeginAllow(t, ip, login)
      PROVE  ThrottleInv'
  <2> DEFINE c == [ip |-> ip, login |-> login, use |-> "ip",
                   at |-> IF ops' % PruneEvery = 0 THEN "prune" ELSE "get",
                   counter |-> Null, key |-> Null,
                   left |-> IF ops' % PruneEvery = 0 THEN Keys ELSE {}]
  <2>1. c \in Call /\ calls' = [calls EXCEPT ![t] = c]
    BY <1>1 DEF BeginAllow, GoesTo, Call
  <2>2. ThrottleTypeOK'
    BY <1>t, <1>1, <2>1, ThrottleBounds DEF BeginAllow, ThrottleTypeOK
  <2>3. c.counter = Null /\ c.at \notin {"touch", "use"}
    OBVIOUS
  <2> HIDE DEF c
  <2> QED
    BY <1>1, <2>1, <2>2, <2>3, PlainStep DEF BeginAllow
<1>2. ASSUME NEW k \in Keys, LookAt(t, k)
      PROVE  ThrottleInv'
  <2> DEFINE c1 == [calls[t] EXCEPT !.left = @ \ {k}, !.key = k, !.at = "drop"]
             c2 == [calls[t] EXCEPT !.left = @ \ {k}]
  <2>a. \A c \in {c1, c2} : c \in Call /\ c.counter = Null /\ c.at \notin {"touch", "use"}
    <3>1. /\ calls[t] \in Call /\ calls[t].counter = Null /\ calls[t].at = "prune"
          /\ calls[t].left \ {k} \in SUBSET Keys
      BY <1>2, <1>t DEF LookAt, Calling, HasCounter, Call
    <3>2. c1 \in Call /\ c1.counter = Null /\ c1.at = "drop"
      BY <3>1 DEF Call
    <3>3. c2 \in Call /\ c2.counter = Null /\ c2.at = "prune"
      BY <3>1 DEF Call
    <3> HIDE DEF c1, c2
    <3> QED
      BY <3>2, <3>3
  <2>b. \E c \in {c1, c2} : calls' = [calls EXCEPT ![t] = c]
    BY <1>2 DEF LookAt, GoesTo
  <2> HIDE DEF c1, c2
  <2>1. PICK c \in {c1, c2} : calls' = [calls EXCEPT ![t] = c]
    BY <2>b
  <2>2. c \in Call /\ c.counter = Null /\ c.at \notin {"touch", "use"}
    BY <2>a
  <2>3. ThrottleTypeOK'
    BY <1>t, <1>2, <2>1, <2>2 DEF LookAt, ThrottleTypeOK
  <2> QED
    BY <1>2, <2>1, <2>2, <2>3, PlainStep DEF LookAt
<1>3. CASE DropKey(t)
  <2> DEFINE c == [calls[t] EXCEPT !.key = Null, !.at = "prune"]
  <2>1. /\ calls' = [calls EXCEPT ![t] = c]
        /\ c \in Call /\ c.counter = Null /\ c.at \notin {"touch", "use"}
    BY <1>3, <1>t DEF DropKey, GoesTo, Calling, HasCounter, Call
  <2>2. \A k \in Keys : entry'[k] \in {entry[k], Null}
    BY <1>3, <1>t DEF DropKey, ThrottleTypeOK
  <2>3. ThrottleTypeOK'
    BY <1>t, <1>3, <2>1 DEF DropKey, Forget, ThrottleTypeOK
  <2> HIDE DEF c
  <2> QED
    BY <1>3, <2>1, <2>2, <2>3, PlainStep DEF DropKey
<1>4. CASE PruneDone(t)
  <2> DEFINE c == [calls[t] EXCEPT !.at = "get"]
  <2>1. /\ calls' = [calls EXCEPT ![t] = c]
        /\ c \in Call /\ c.counter = Null /\ c.at \notin {"touch", "use"}
    BY <1>4, <1>t DEF PruneDone, GoesTo, Calling, HasCounter, Call
  <2>2. ThrottleTypeOK'
    BY <1>t, <1>4, <2>1 DEF PruneDone, ThrottleTypeOK
  <2> HIDE DEF c
  <2> QED
    BY <1>4, <2>1, <2>2, PlainStep DEF PruneDone
<1>5. CASE CheckLogin(t)
  <2> DEFINE c1 == [calls[t] EXCEPT !.at = "password", !.counter = Null]
  <2>a. c1 \in Call /\ c1.counter = Null /\ c1.at \notin {"touch", "use"}
    BY <1>5, <1>t DEF CheckLogin, Using, Calling, Call
  <2>b. \E c \in {Null, c1} : calls' = [calls EXCEPT ![t] = c]
    BY <1>5 DEF CheckLogin, GoesTo, Returns
  <2> HIDE DEF c1
  <2>1. PICK c \in {Null, c1} : calls' = [calls EXCEPT ![t] = c]
    BY <2>b
  <2>2. c \in Call \cup {Null} /\ (c # Null => c.counter = Null /\ c.at \notin {"touch", "use"})
    BY <2>a
  <2>3. ThrottleTypeOK'
    BY <1>t, <1>5, <2>1, <2>2 DEF CheckLogin, ThrottleTypeOK
  <2> QED
    BY <1>5, <2>1, <2>2, <2>3, PlainStep DEF CheckLogin
<1>6. CASE WrongPassword(t)
  <2> DEFINE c == [calls[t] EXCEPT !.use = "failure", !.at = "get"]
  <2>1. /\ calls' = [calls EXCEPT ![t] = c]
        /\ c \in Call /\ c.counter = Null /\ c.at \notin {"touch", "use"}
    BY <1>6, <1>t DEF WrongPassword, GoesTo, Calling, HasCounter, Call
  <2>2. ThrottleTypeOK'
    <3> DEFINE k == KeyOf(calls[t])
    <3>0. guessed' = [guessed EXCEPT ![k] = guessed[k] + 1]
      BY <1>6 DEF WrongPassword
    <3>1. guessed' \in [Keys -> Nat]
      <4>1. guessed \in [Keys -> Nat]
        BY <1>t DEF ThrottleTypeOK
      <4>2. k \in Keys
        BY <1>t, <1>6, KeyIsKey DEF WrongPassword, Calling
      <4> HIDE DEF k
      <4>3. guessed[k] + 1 \in Nat
        BY <4>1, <4>2
      <4> QED
        BY <3>0, <4>1, <4>3
    <3> QED
      BY <1>t, <1>6, <2>1, <3>1 DEF WrongPassword, ThrottleTypeOK
  <2> HIDE DEF c
  <2> QED
    BY <1>6, <2>1, <2>2, PlainStep DEF WrongPassword
<1>7. CASE RightPassword(t)
  <2>1. KeyOf(calls[t]) \in Keys
    BY <1>7, <1>t, KeyIsKey DEF RightPassword, Calling
  <2>2. ThrottleTypeOK'
    BY <1>t, <1>7, EmptySeq DEF RightPassword, Forget, Returns, ThrottleTypeOK
  <2>3. \A k \in Keys : /\ entry'[k] \in {entry[k], Null}
                        /\ recorded'[k] = recorded[k]
                             \/ (recorded'[k] = <<>> /\ entry'[k] = Null)
    BY <1>7, <1>t, <2>1 DEF RightPassword, ThrottleTypeOK
  <2>4. calls' = [calls EXCEPT ![t] = Null]
    BY <1>7 DEF RightPassword, Returns
  <2> QED
    BY <1>7, <2>2, <2>3, <2>4, PlainStep DEF RightPassword
<1>8. CASE Interrupted(t)
  <2>1. ThrottleTypeOK'
    BY <1>t, <1>8 DEF Interrupted, Returns, ThrottleTypeOK
  <2> QED
    BY <1>8, <2>1, PlainStep DEF Interrupted, Returns
<1> QED
  BY <1>1, <1>2, <1>3, <1>4, <1>5, <1>6, <1>7, <1>8

LEMMA GetCounterStep ==
    ASSUME ThrottleInv, NEW t \in Threads, NEW o \in Counters, GetCounter(t, o)
    PROVE  ThrottleInv'
<1> DEFINE k == KeyOf(calls[t])
           c == [calls[t] EXCEPT !.counter = o, !.at = "touch"]
<1>1. /\ ThrottleTypeOK /\ calls[t] \in Call /\ calls[t].at = "get" /\ calls[t].counter = Null
      /\ UNCHANGED <<clock, ops, recorded, guessed>>
  BY DEF ThrottleInv, GetCounter, Calling, ThrottleTypeOK, HasCounter
<1>2. c \in Call /\ c.counter = o /\ c.at = "touch" /\ KeyOf(c) = k /\ k \in Keys /\ o # Null
  BY <1>1, KeyIsKey, NoCallAssumption DEF Call, KeyOf
<1>3. /\ calls' = [calls EXCEPT ![t] = c]
      /\ calls'[t] = c
      /\ \A x \in Threads \ {t} : calls'[x] = calls[x]
  BY <1>1 DEF GetCounter, GoesTo, ThrottleTypeOK
<1>4. \/ entry[k] = o /\ UNCHANGED <<entry, heap>>
      \/ /\ Unused(o) /\ entry[k] = Null
         /\ entry' = [entry EXCEPT ![k] = o]
         /\ heap' = [heap EXCEPT ![o] = Fresh(clock)]
  BY DEF GetCounter
<1> HIDE DEF k, c
<1>5. /\ entry'[k] = o
      /\ \A l \in Keys \ {k} : entry'[l] = entry[l]
      /\ \/ heap' = heap /\ entry = entry'
         \/ Unused(o) /\ heap'[o] = Fresh(clock) /\ \A x \in Counters \ {o} : heap'[x] = heap[x]
  BY <1>1, <1>2, <1>4 DEF ThrottleTypeOK
<1>6. Fresh(clock) \in AttemptState /\ Fresh(clock).start = clock
      /\ Fresh(clock).count = 0 /\ Fresh(clock).until = 0 /\ clock \in Nat
  BY <1>1, ThrottleBounds DEF ThrottleTypeOK, Fresh, AttemptState, Times
<1>7. ThrottleTypeOK'
  <2>1. entry' \in [Keys -> Counters \cup {Null}] /\ heap' \in [Counters -> AttemptState]
    BY <1>1, <1>2, <1>4, <1>6 DEF ThrottleTypeOK
  <2>2. ASSUME NEW x \in Counters PROVE heap'[x].until <= clock' + Window
    <3>1. Window \in Nat /\ heap[x].until <= clock + Window /\ clock' = clock
      BY <1>1, WindowAssumption DEF ThrottleTypeOK
    <3> QED
      BY <1>5, <1>6, <3>1
  <2> QED
    BY <1>1, <1>2, <1>3, <2>1, <2>2 DEF ThrottleTypeOK
<1>8. HasCounter'
  BY <1>1, <1>2, <1>3 DEF ThrottleInv, HasCounter
<1>9. Owned'
  <2>1. \A l, m \in Keys : entry'[l] = entry'[m] /\ entry'[l] # Null => l = m
    BY <1>2, <1>5 DEF ThrottleInv, Owned, Unused
  <2>2. \A x \in Threads, l \in Keys :
          calls'[x] # Null /\ calls'[x].counter # Null /\ entry'[l] = calls'[x].counter
            => l = KeyOf(calls'[x])
    BY <1>2, <1>3, <1>5, <2>1 DEF ThrottleInv, Owned, Unused
  <2> QED
    BY <2>1, <2>2 DEF Owned
<1>10. InWindow'
  <2> SUFFICES ASSUME NEW x \in Threads, Calling(x, "use")'
               PROVE  (Blocked(calls[x].counter) \/ ~WindowOver(calls[x].counter))'
    BY DEF InWindow
  <2>1. x # t /\ calls[x] = calls'[x] /\ Calling(x, "use") /\ calls[x].counter \in Counters
    BY <1>1, <1>2, <1>3 DEF Calling, ThrottleInv, ThrottleTypeOK, HasCounter, Call
  <2>2. heap'[calls[x].counter] = heap[calls[x].counter]
    BY <1>5, <2>1 DEF Unused, Calling
  <2> QED
    BY <1>1, <2>1, <2>2 DEF ThrottleInv, InWindow, Blocked, WindowOver
<1>11. \A x \in Counters : heap'[x].start <= clock'
  BY <1>1, <1>5, <1>6 DEF ThrottleInv
<1>12. ASSUME NEW l \in Keys, entry'[l] # Null
       PROVE  CounterOK(l, entry[l])'
  <2>1. CASE heap' = heap /\ entry' = entry
    BY <1>1, <1>12, <2>1 DEF ThrottleInv, CounterOK, Blocked
  <2>2. CASE Unused(o) /\ heap'[o] = Fresh(clock) /\ l = k
    BY <1>1, <1>5, <1>6, <2>2, LenProperties DEF CounterOK, Blocked, CountOK, ThrottleTypeOK
  <2>3. CASE Unused(o) /\ l # k /\ \A x \in Counters \ {o} : heap'[x] = heap[x]
    <3>1. entry'[l] = entry[l] /\ entry[l] \in Counters \ {o}
      BY <1>1, <1>5, <1>12, <2>3 DEF Unused, ThrottleTypeOK
    <3> QED
      BY <1>1, <1>12, <2>3, <3>1 DEF ThrottleInv, CounterOK, Blocked
  <2> QED
    BY <1>5, <2>1, <2>2, <2>3
<1> QED
  BY <1>1, <1>7, <1>8, <1>9, <1>10, <1>11, <1>12 DEF ThrottleInv

LEMMA TouchStep ==
    ASSUME ThrottleInv, NEW t \in Threads, Touch(t)
    PROVE  ThrottleInv'
<1> DEFINE o == calls[t].counter
           c == [calls[t] EXCEPT !.at = "use"]
<1>1. /\ ThrottleTypeOK /\ calls[t] \in Call /\ calls[t].at = "touch" /\ o \in Counters
      /\ UNCHANGED <<entry, clock, ops, recorded>>
  BY DEF ThrottleInv, Touch, Calling, ThrottleTypeOK, HasCounter, Call
<1>2. c \in Call /\ c.counter = o /\ c.at = "use" /\ KeyOf(c) = KeyOf(calls[t])
      /\ KeyOf(calls[t]) \in Keys /\ o # Null
  BY <1>1, KeyIsKey, NoCallAssumption DEF Call, KeyOf
<1>3. /\ calls' = [calls EXCEPT ![t] = c]
      /\ calls'[t] = c
      /\ \A x \in Threads \ {t} : calls'[x] = calls[x]
  BY <1>1 DEF Touch, GoesTo, ThrottleTypeOK
<1>4. \/ (Blocked(o) \/ ~WindowOver(o)) /\ heap' = heap
      \/ ~Blocked(o) /\ WindowOver(o) /\ heap' = [heap EXCEPT ![o] = NewWindow(heap[o])]
  BY DEF Touch
<1>5. guessed' \in [Keys -> Nat]
  BY <1>1 DEF Touch, Forget, ThrottleTypeOK
<1> HIDE DEF o, c
<1>6. clock \in Nat /\ clock \in Times /\ Window \in Nat \ {0}
  BY <1>1, ThrottleBounds, WindowAssumption DEF ThrottleTypeOK, Times
<1>7. NewWindow(heap[o]) \in AttemptState /\ NewWindow(heap[o]).start = clock
      /\ NewWindow(heap[o]).count = 0 /\ NewWindow(heap[o]).until = 0
  BY <1>1, <1>6 DEF ThrottleTypeOK, NewWindow, AttemptState
<1>8. ThrottleTypeOK'
  <2>1. heap' \in [Counters -> AttemptState]
    BY <1>1, <1>4, <1>7 DEF ThrottleTypeOK
  <2>2. ASSUME NEW x \in Counters PROVE heap'[x].until <= clock' + Window
    <3>1. heap[x].until <= clock + Window /\ (heap'[x] = heap[x] \/ heap'[x] = NewWindow(heap[o]))
      BY <1>1, <1>4 DEF ThrottleTypeOK
    <3> QED
      BY <1>1, <1>6, <1>7, <3>1
  <2> QED
    BY <1>1, <1>2, <1>3, <1>5, <2>1, <2>2 DEF ThrottleTypeOK
<1>9. HasCounter'
  BY <1>1, <1>2, <1>3 DEF ThrottleInv, HasCounter
<1>10. Owned'
  <2>1. calls[t] # Null /\ calls[t].counter = o
    BY <1>1, NoCallAssumption DEF o
  <2>2. \A x \in Threads : calls'[x] # Null =>
          calls[x] # Null /\ calls'[x].counter = calls[x].counter
            /\ KeyOf(calls'[x]) = KeyOf(calls[x])
    BY <1>2, <1>3, <2>1
  <2> QED
    BY <1>1, <2>2 DEF ThrottleInv, Owned
<1>11. \/ heap' = heap /\ (Blocked(o) \/ ~WindowOver(o))
       \/ /\ ~Blocked(o) /\ WindowOver(o) /\ heap'[o] = NewWindow(heap[o])
          /\ \A x \in Counters \ {o} : heap'[x] = heap[x]
  BY <1>1, <1>4 DEF ThrottleTypeOK
<1>12. InWindow'
  <2> SUFFICES ASSUME NEW x \in Threads, Calling(x, "use")'
               PROVE  (Blocked(calls[x].counter) \/ ~WindowOver(calls[x].counter))'
    BY DEF InWindow
  <2>1. CASE x = t
    BY <1>1, <1>2, <1>3, <1>6, <1>7, <1>11, <2>1 DEF Blocked, WindowOver
  <2>2. CASE x # t
    <3>1. calls'[x] = calls[x] /\ Calling(x, "use") /\ calls[x].counter \in Counters
      BY <1>1, <1>3, <2>2 DEF Calling, ThrottleInv, ThrottleTypeOK, HasCounter, Call
    <3>2. heap'[calls[x].counter] = heap[calls[x].counter]
      BY <1>11, <3>1 DEF ThrottleInv, InWindow
    <3> QED
      BY <1>1, <3>1, <3>2 DEF ThrottleInv, InWindow, Blocked, WindowOver
  <2> QED
    BY <2>1, <2>2
<1>13. \A x \in Counters : heap'[x].start <= clock'
  BY <1>1, <1>6, <1>7, <1>11 DEF ThrottleInv
<1>14. ASSUME NEW l \in Keys, entry'[l] # Null
       PROVE  CounterOK(l, entry[l])'
  <2>1. CASE heap'[entry[l]] = heap[entry[l]]
    BY <1>1, <1>14, <2>1 DEF ThrottleInv, CounterOK, Blocked
  <2>2. CASE entry[l] = o /\ heap'[o] = NewWindow(heap[o])
    BY <1>1, <1>6, <1>7, <2>2, LenProperties DEF CounterOK, Blocked, CountOK, ThrottleTypeOK
  <2> QED
    BY <1>1, <1>11, <1>14, <2>1, <2>2 DEF ThrottleTypeOK
<1> QED
  BY <1>1, <1>8, <1>9, <1>10, <1>12, <1>13, <1>14 DEF ThrottleInv

LEMMA CountAttemptStep ==
    ASSUME ThrottleInv, NEW t \in Threads, CountAttempt(t)
    PROVE  ThrottleInv'
<1> DEFINE o == calls[t].counter
           c1 == [calls[t] EXCEPT !.use = "check", !.at = "get", !.counter = Null]
<1>1. /\ ThrottleTypeOK /\ calls[t] \in Call /\ calls[t].use = "ip" /\ o \in Counters
      /\ UNCHANGED <<entry, clock, ops, recorded, guessed>>
  BY DEF ThrottleInv, CountAttempt, Using, Calling, ThrottleTypeOK, HasCounter, Call
<1>2. c1 \in Call /\ c1.counter = Null /\ c1.at = "get"
  BY <1>1 DEF Call
<1>3. KeyOf(calls[t]) \notin LoginKeys
  BY <1>1, KeyIsKey
<1>4. heap' = [heap EXCEPT ![o].count = @ + 1]
  BY DEF CountAttempt, Counted
<1>5. \E c \in {Null, c1} : calls' = [calls EXCEPT ![t] = c]
  BY DEF CountAttempt, GoesTo, Returns
<1>6. \A l \in Keys : entry[l] = o => l = KeyOf(calls[t])
  BY <1>1, NoCallAssumption DEF ThrottleInv, Owned
<1> HIDE DEF o, c1
<1>7. PICK c \in {Null, c1} : calls' = [calls EXCEPT ![t] = c]
  BY <1>5
<1>8. /\ calls'[t] = c
      /\ \A x \in Threads \ {t} : calls'[x] = calls[x]
      /\ c \in Call \cup {Null} /\ (c # Null => c.counter = Null /\ c.at = "get")
  BY <1>1, <1>2, <1>7 DEF ThrottleTypeOK
<1>9. heap' \in [Counters -> AttemptState]
      /\ \A x \in Counters : heap'[x].start = heap[x].start /\ heap'[x].until = heap[x].until
      /\ \A y \in Counters \ {o} : heap'[y] = heap[y]
  <2>1. /\ heap \in [Counters -> AttemptState] /\ heap[o] \in AttemptState
        /\ heap' = [heap EXCEPT ![o] = [heap[o] EXCEPT !.count = heap[o].count + 1]]
    BY <1>1, <1>4 DEF ThrottleTypeOK
  <2>2. /\ [heap[o] EXCEPT !.count = heap[o].count + 1] \in AttemptState
        /\ [heap[o] EXCEPT !.count = heap[o].count + 1].start = heap[o].start
        /\ [heap[o] EXCEPT !.count = heap[o].count + 1].until = heap[o].until
    BY <2>1 DEF AttemptState
  <2> QED
    BY <1>1, <2>1, <2>2
<1>10. ThrottleTypeOK'
  BY <1>1, <1>7, <1>8, <1>9 DEF ThrottleTypeOK
<1>11. HasCounter'
  BY <1>8 DEF ThrottleInv, HasCounter
<1>12. Owned'
  BY <1>1, <1>8 DEF ThrottleInv, Owned
<1>13. InWindow'
  <2> SUFFICES ASSUME NEW x \in Threads, Calling(x, "use")'
               PROVE  (Blocked(calls[x].counter) \/ ~WindowOver(calls[x].counter))'
    BY DEF InWindow
  <2>1. calls'[x] = calls[x] /\ Calling(x, "use") /\ calls[x].counter \in Counters
    BY <1>1, <1>8 DEF Calling, ThrottleInv, ThrottleTypeOK, HasCounter, Call
  <2> QED
    BY <1>1, <1>9, <2>1 DEF ThrottleInv, InWindow, Blocked, WindowOver
<1>14. \A x \in Counters : heap'[x].start <= clock'
  BY <1>1, <1>9 DEF ThrottleInv
<1>15. ASSUME NEW l \in Keys, entry'[l] # Null
       PROVE  CounterOK(l, entry[l])'
  <2>1. entry[l] \in Counters
    BY <1>1, <1>15 DEF ThrottleTypeOK
  <2>2. CASE entry[l] = o
    BY <1>1, <1>3, <1>6, <1>9, <1>15, <2>1, <2>2 DEF ThrottleInv, CounterOK
  <2>3. CASE entry[l] # o
    BY <1>1, <1>9, <1>15, <2>1, <2>3 DEF ThrottleInv, CounterOK, Blocked
  <2> QED
    BY <2>2, <2>3
<1> QED
  BY <1>1, <1>10, <1>11, <1>12, <1>13, <1>14, <1>15 DEF ThrottleInv

LEMMA CountFailureStep ==
    ASSUME ThrottleInv, NEW t \in Threads, CountFailure(t)
    PROVE  ThrottleInv'
<1> DEFINE o == calls[t].counter
           k == KeyOf(calls[t])
           n == heap[o].count + 1
           u == IF LimitReached(n) THEN BlockEnd(o) ELSE heap[o].until
           rr == Append(recorded[k], clock)
<1>1. /\ ThrottleTypeOK /\ calls[t] \in Call /\ calls[t].use = "failure" /\ o \in Counters
      /\ UNCHANGED <<entry, clock, ops, guessed>>
  BY DEF ThrottleInv, CountFailure, Using, Calling, ThrottleTypeOK, HasCounter, Call
<1>2. k \in LoginKeys /\ k \in Keys
  BY <1>1, KeyIsKey
<1>3. /\ heap' = [heap EXCEPT ![o].count = n, ![o].until = u]
      /\ recorded' = [recorded EXCEPT ![k] = rr]
      /\ calls' = [calls EXCEPT ![t] = Null]
  BY DEF CountFailure, Returns
<1>4. \A l \in Keys : entry[l] = o => l = k
  BY <1>1, NoCallAssumption DEF ThrottleInv, Owned
<1>5. Blocked(o) \/ ~WindowOver(o)
  BY DEF ThrottleInv, InWindow, CountFailure, Using, Calling
<1>6. /\ heap[o] \in AttemptState /\ heap[o].start <= clock /\ clock \in Times /\ clock \in Nat
      /\ recorded[k] \in Seq(Times) /\ Ordered(recorded[k], clock)
      /\ Window \in Nat \ {0} /\ FailureLimit \in Nat
  BY <1>1, <1>2, ThrottleBounds, WindowAssumption, LimitsAssumption
  DEF ThrottleInv, ThrottleTypeOK, Times
<1>7. n \in Nat /\ u \in Nat
  BY <1>6 DEF AttemptState, BlockEnd
<1>8. rr \in Seq(Times) /\ Ordered(rr, clock)
  BY <1>6, Appended, OrderedAppend
<1>9. n = heap[o].count + 1 /\ /\ (u = heap[o].until \/ (n >= FailureLimit /\ u = clock + Window))
  BY DEF LimitReached, BlockEnd
<1>10. rr = Append(recorded[k], clock)
  OBVIOUS
<1> HIDE DEF o, k, n, u, rr
<1>11. /\ calls'[t] = Null
       /\ \A x \in Threads \ {t} : calls'[x] = calls[x]
  BY <1>1, <1>3 DEF ThrottleTypeOK
<1>12. /\ heap' \in [Counters -> AttemptState]
       /\ heap'[o].start = heap[o].start /\ heap'[o].count = n /\ heap'[o].until = u
       /\ \A x \in Counters \ {o} : heap'[x] = heap[x]
  BY <1>1, <1>3, <1>6, <1>7 DEF ThrottleTypeOK, AttemptState
<1>13. recorded'[k] = rr /\ \A l \in Keys \ {k} : recorded'[l] = recorded[l]
  BY <1>1, <1>2, <1>3 DEF ThrottleTypeOK
<1>14. ThrottleTypeOK'
  <2>1. ASSUME NEW x \in Counters PROVE heap'[x].until <= clock' + Window
    <3>1. heap[x].until <= clock + Window /\ heap[o].until <= clock + Window
      BY <1>1 DEF ThrottleTypeOK
    <3>2. u <= clock + Window
      BY <1>6, <1>9, <3>1
    <3> QED
      BY <1>1, <1>12, <3>1, <3>2
  <2> QED
    BY <1>1, <1>3, <1>8, <1>12, <2>1 DEF ThrottleTypeOK
<1>15. HasCounter'
  BY <1>11 DEF ThrottleInv, HasCounter
<1>16. Owned'
  BY <1>1, <1>11 DEF ThrottleInv, Owned
<1>17. InWindow'
  <2> SUFFICES ASSUME NEW x \in Threads, Calling(x, "use")'
               PROVE  (Blocked(calls[x].counter) \/ ~WindowOver(calls[x].counter))'
    BY DEF InWindow
  <2>1. calls'[x] = calls[x] /\ Calling(x, "use") /\ calls[x].counter \in Counters
    BY <1>1, <1>11 DEF Calling, ThrottleInv, ThrottleTypeOK, HasCounter, Call
  <2>2. CASE calls[x].counter = o
    <3>1. /\ heap'[o].start = heap[o].start /\ clock' = clock
          /\ (heap'[o].until = heap[o].until \/ heap'[o].until = clock + Window)
      BY <1>1, <1>9, <1>12
    <3>2. heap'[o].until > clock' \/ ~(clock' - heap'[o].start >= Window)
      <4>1. heap[o].until \in Nat
        BY <1>6 DEF AttemptState
      <4> QED
        BY <1>5, <1>6, <3>1, <4>1 DEF Blocked, WindowOver
    <3> QED
      BY <2>1, <2>2, <3>2 DEF Blocked, WindowOver
  <2>3. CASE calls[x].counter # o
    BY <1>1, <1>12, <2>1, <2>3 DEF ThrottleInv, InWindow, Blocked, WindowOver
  <2> QED
    BY <2>2, <2>3
<1>18. \A x \in Counters : heap'[x].start <= clock'
  BY <1>1, <1>12 DEF ThrottleInv
<1>19. \A l \in Keys : Ordered(recorded[l], clock)'
  BY <1>1, <1>8, <1>13 DEF ThrottleInv
<1>20. ASSUME NEW l \in Keys, entry'[l] # Null
       PROVE  CounterOK(l, entry[l])'
  <2>1. entry[l] \in Counters /\ CounterOK(l, entry[l])
    BY <1>1, <1>20 DEF ThrottleInv, ThrottleTypeOK
  <2>2. CASE l # k
    BY <1>1, <1>4, <1>12, <1>13, <2>1, <2>2 DEF CounterOK, Blocked
  <2>3. CASE l = k /\ entry[l] # o
    <3>1. heap'[entry[l]] = heap[entry[l]] /\ heap[entry[l]] \in AttemptState
          /\ heap[entry[l]].start <= clock
      BY <1>1, <1>12, <2>1, <2>3 DEF ThrottleInv, ThrottleTypeOK
    <3>2. CountOK(heap[entry[l]], rr)
      BY <1>2, <1>6, <1>10, <2>1, <2>3, <3>1, ThrottleBounds, CountAppend,
         heap[entry[l]].count \in {heap[entry[l]].count, heap[entry[l]].count + 1}
      DEF CounterOK
    <3>3. Blocked(entry[l]) => ManyFailures(rr)
      BY <1>2, <1>6, <1>10, <2>1, <2>3, ManyAppend DEF CounterOK
    <3> QED
      BY <1>1, <1>2, <1>13, <2>3, <3>1, <3>2, <3>3 DEF CounterOK, Blocked
  <2>4. CASE l = k /\ entry[l] = o
    <3>1. heap'[o] \in AttemptState
      BY <1>1, <1>12 DEF o
    <3>2. CountOK(heap'[o], rr)
      BY <1>2, <1>6, <1>9, <1>10, <1>12, <2>1, <2>4, <3>1, ThrottleBounds, CountAppend
      DEF CounterOK
    <3>3. CASE Blocked(o)
      <4>1. ManyFailures(rr)
        BY <1>2, <1>6, <1>10, <2>1, <2>4, <3>3, ManyAppend DEF CounterOK
      <4> QED
        BY <1>1, <1>2, <1>13, <2>4, <3>2, <4>1 DEF CounterOK
    <3>4. CASE ~Blocked(o) /\ n >= FailureLimit
      <4>1. clock - heap'[o].start < Window
        <5>1. heap[o].start \in Int /\ ~WindowOver(o) /\ heap'[o].start = heap[o].start
          BY <1>5, <1>6, <1>12, <3>4 DEF AttemptState, Times
        <5> QED
          BY <1>6, <5>1 DEF WindowOver
      <4>2. ManyFailures(rr)
        BY <1>6, <1>8, <1>12, <3>1, <3>2, <3>4, <4>1, ThrottleBounds, LimitMany
      <4> QED
        BY <1>1, <1>2, <1>13, <2>4, <3>2, <4>2 DEF CounterOK
    <3>5. CASE ~Blocked(o) /\ u = heap[o].until
      BY <1>1, <1>2, <1>12, <1>13, <2>4, <3>2, <3>5 DEF CounterOK, Blocked
    <3> QED
      BY <1>9, <3>3, <3>4, <3>5
  <2> QED
    BY <2>2, <2>3, <2>4
<1> QED
  BY <1>14, <1>15, <1>16, <1>17, <1>18, <1>19, <1>20 DEF ThrottleInv

LEMMA TickStep == ASSUME ThrottleInv, Tick PROVE ThrottleInv'
<1>1. /\ UNCHANGED <<entry, heap, calls, ops, recorded, guessed>>
      /\ clock \in Nat /\ clock' = clock + 1 /\ clock' \in Times
      /\ heap \in [Counters -> AttemptState] /\ entry \in [Keys -> Counters \cup {Null}]
      /\ recorded \in [Keys -> Seq(Times)]
  BY ThrottleBounds DEF ThrottleInv, ThrottleTypeOK, Tick, Times
<1>2. ThrottleTypeOK'
  <2>1. ASSUME NEW o \in Counters PROVE heap'[o].until <= clock' + Window
    <3>1. /\ heap[o].until <= clock + Window /\ heap[o].until \in Nat
          /\ heap'[o] = heap[o] /\ Window \in Nat
      BY <1>1, WindowAssumption DEF ThrottleInv, ThrottleTypeOK, AttemptState
    <3> QED
      BY <1>1, <3>1
  <2> QED
    BY <1>1, <2>1 DEF ThrottleInv, ThrottleTypeOK
<1>3. HasCounter' /\ Owned'
  BY <1>1 DEF ThrottleInv, HasCounter, Owned
<1>4. InWindow'
  BY <1>1 DEF Tick, InWindow, Calling
<1>5. \A o \in Counters : heap'[o].start <= clock'
  BY <1>1, ThrottleBounds DEF ThrottleInv, AttemptState, Times
<1>6. ASSUME NEW k \in Keys PROVE Ordered(recorded[k], clock)'
  BY <1>1, Appended DEF ThrottleInv, Ordered, Times
<1>7. ASSUME NEW k \in Keys, entry'[k] # Null PROVE CounterOK(k, entry[k])'
  BY <1>1, <1>7 DEF ThrottleInv, CounterOK, Blocked, AttemptState
<1> QED
  BY <1>2, <1>3, <1>4, <1>5, <1>6, <1>7 DEF ThrottleInv

--------------------------------------------------------------------------------
(* The specification. *)

LEMMA ThrottleStep == ThrottleInv /\ [ThrottleNext]_throttleVars => ThrottleInv'
<1> SUFFICES ASSUME ThrottleInv, [ThrottleNext]_throttleVars
             PROVE  ThrottleInv'
  OBVIOUS
<1>1. CASE RestartThrottle
  <2>1. ThrottleInit'
    BY <1>1 DEF RestartThrottle, ThrottleInit
  <2> QED
    BY <2>1, ThrottleInitInv, PTL
<1>2. CASE Tick
  BY <1>2, TickStep
<1>3. ASSUME NEW t \in Threads, NEW o \in Counters, GetCounter(t, o)
      PROVE  ThrottleInv'
  BY <1>3, GetCounterStep
<1>4. ASSUME NEW t \in Threads, Touch(t) \/ CountAttempt(t) \/ CountFailure(t)
      PROVE  ThrottleInv'
  BY <1>4, TouchStep, CountAttemptStep, CountFailureStep
<1>5. CASE UNCHANGED throttleVars
  BY <1>5
  DEF throttleVars, ThrottleInv, ThrottleTypeOK, HasCounter, Owned, InWindow, Calling,
      Blocked, WindowOver, Ordered, CounterOK
<1> QED
  BY <1>1, <1>2, <1>3, <1>4, <1>5, PlainSteps DEF ThrottleNext

LEMMA ThrottleInvHolds == ThrottleSpec => []ThrottleInv
BY ThrottleInitInv, ThrottleStep, PTL DEF ThrottleSpec

\* The variables of the throttle keep their types, and no block is longer than a window,
\* whatever the threads interleave (LoginThrottle.cs:60-62, 109-114).
THEOREM ThrottleTypeCorrect == ThrottleSpec => []ThrottleTypeOK
<1>1. ThrottleInv => ThrottleTypeOK
  BY DEF ThrottleInv
<1> QED
  BY <1>1, ThrottleInvHolds, PTL

\* Nobody is locked out before FailureLimit failures within a window, for any number
\* of threads, addresses and logins (LoginThrottle.cs:51-63, 77-93).
THEOREM NobodyLockedOutEarly == ThrottleSpec => []NoEarlyBlock
<1>1. ThrottleInv => NoEarlyBlock
  <2> SUFFICES ASSUME ThrottleInv, NEW k \in Keys, entry[k] # Null, Blocked(entry[k])
               PROVE  ManyFailures(recorded[k])
    BY DEF NoEarlyBlock, ManyFailures
  <2>1. k \in LoginKeys
    BY DEF ThrottleInv, ThrottleTypeOK, CounterOK, Blocked, Times
  <2> QED
    BY <2>1 DEF ThrottleInv, CounterOK
<1> QED
  BY <1>1, ThrottleInvHolds, PTL

--------------------------------------------------------------------------------
(***************************************************************************)
(* The number of guesses.  A wrong password is counted in the entry of its *)
(* key, or a thread is still on its way to count it (Live).  Once the      *)
(* count is at the limit no thread passes the check but those that passed  *)
(* it, or fetched an object that is not in the dictionary any more, before *)
(* (Late); and none of these is Live.                                      *)
(***************************************************************************)

Live(k) ==
    {t \in Threads : /\ calls[t] # Null /\ KeyOf(calls[t]) = k /\ calls[t].use = "failure"
                     /\ calls[t].counter \in {Null, entry[k]}}

Late(k) ==
    {t \in Threads : /\ calls[t] # Null /\ KeyOf(calls[t]) = k
                     /\ \/ calls[t].at = "password"
                        \/ calls[t].use = "check" /\ calls[t].counter \notin {Null, entry[k]}}

Failures(k) == IF entry[k] = Null THEN 0 ELSE heap[entry[k]].count

\* A count at the limit blocks until its window is over.
GuessOK(k) ==
    /\ guessed[k] <= Failures(k) + Cardinality(Live(k))
    /\ Failures(k) >= FailureLimit =>
         /\ guessed[k] + Cardinality(Late(k)) < FailureLimit + Cardinality(Threads)
         /\ heap[entry[k]].until >= heap[entry[k]].start + Window

GuessInv ==
    /\ ThrottleInv
    /\ \A t \in Threads : Calling(t, "password") => calls[t].use = "check"
    /\ \A k \in LoginKeys : GuessOK(k)
    /\ \A k \in Keys \ LoginKeys : guessed[k] = 0

LEMMA CountOfThreads ==
    ASSUME NEW S \in SUBSET Threads
    PROVE  /\ IsFiniteSet(S) /\ Cardinality(S) \in Nat
           /\ Cardinality(S) <= Cardinality(Threads)
           /\ Cardinality(Threads) \in Nat
<1>1. IsFiniteSet(S) /\ Cardinality(S) <= Cardinality(Threads)
  BY ThreadsAssumption, FS_Subset
<1>2. Cardinality(S) \in Nat
  BY <1>1, FS_CardinalityType
<1>3. Cardinality(Threads) \in Nat
  BY ThreadsAssumption, FS_CardinalityType
<1> QED
  BY <1>1, <1>2, <1>3

\* When the throttle forgets a login.
LEMMA Forgotten ==
    ASSUME NEW k \in LoginKeys, guessed'[k] = 0, Failures(k)' = 0
    PROVE  GuessOK(k)'
<1>1. Cardinality(Live(k)') \in Nat
  BY CountOfThreads DEF Live
<1> QED
  BY <1>1, LimitsAssumption DEF GuessOK

\* A thread goes on, and neither guesses, counts nor forgets.
LEMMA GoesOn ==
    ASSUME GuessInv, NEW k \in LoginKeys, NEW t \in Threads,
           \A x \in Threads \ {t} : calls'[x] = calls[x],
           entry'[k] = entry[k], guessed'[k] = guessed[k],
           entry[k] # Null => heap'[entry[k]] = heap[entry[k]],
           t \in Live(k) => t \in Live(k)',
           t \in Late(k)' /\ Failures(k) >= FailureLimit => t \in Late(k)
    PROVE  GuessOK(k)'
<1>1. /\ GuessOK(k) /\ Failures(k) \in Nat /\ guessed[k] \in Nat
      /\ Failures(k)' = Failures(k)
      /\ FailureLimit \in Nat \ {0}
  BY LimitsAssumption
  DEF GuessInv, ThrottleInv, ThrottleTypeOK, Failures, AttemptState, LoginKeys, Keys
<1>2. Live(k) \subseteq Live(k)'
  BY DEF Live
<1>3. Failures(k) >= FailureLimit => Late(k)' \subseteq Late(k)
  BY DEF Late
<1>4. /\ Live(k) \in SUBSET Threads /\ Live(k)' \in SUBSET Threads
      /\ Late(k) \in SUBSET Threads /\ Late(k)' \in SUBSET Threads
  BY DEF Live, Late
<1>5. Cardinality(Live(k)) <= Cardinality(Live(k)')
      /\ Cardinality(Live(k)) \in Nat /\ Cardinality(Live(k)') \in Nat
  BY <1>2, <1>4, CountOfThreads, FS_Subset
<1>6. /\ Failures(k) >= FailureLimit => Cardinality(Late(k)') <= Cardinality(Late(k))
      /\ Cardinality(Late(k)) \in Nat /\ Cardinality(Late(k)') \in Nat
      /\ Cardinality(Threads) \in Nat
  <2>1. /\ Cardinality(Late(k)) \in Nat /\ Cardinality(Late(k)') \in Nat
        /\ Cardinality(Threads) \in Nat /\ IsFiniteSet(Late(k))
    BY <1>4, CountOfThreads
  <2>2. ASSUME Failures(k) >= FailureLimit
        PROVE  Cardinality(Late(k)') <= Cardinality(Late(k))
    BY <1>3, <2>1, <2>2, FS_Subset
  <2> QED
    BY <2>1, <2>2
<1>7. guessed'[k] <= Failures(k)' + Cardinality(Live(k)')
  <2>1. guessed[k] <= Failures(k) + Cardinality(Live(k))
    BY <1>1 DEF GuessOK
  <2> QED
    BY <1>1, <1>5, <2>1
<1>8. ASSUME Failures(k)' >= FailureLimit
      PROVE  /\ guessed'[k] + Cardinality(Late(k)') < FailureLimit + Cardinality(Threads)
             /\ heap'[entry'[k]].until >= heap'[entry'[k]].start + Window
  <2>1. /\ guessed[k] + Cardinality(Late(k)) < FailureLimit + Cardinality(Threads)
        /\ heap[entry[k]].until >= heap[entry[k]].start + Window
        /\ entry[k] # Null
    BY <1>1, <1>8 DEF GuessOK, Failures
  <2> QED
    BY <1>1, <1>6, <1>8, <2>1
<1> QED
  BY <1>7, <1>8 DEF GuessOK

LEMMA MovesOn ==
    ASSUME GuessInv, NEW t \in Threads, NEW c, calls' = [calls EXCEPT ![t] = c]
    PROVE  calls'[t] = c /\ \A x \in Threads \ {t} : calls'[x] = calls[x]
BY DEF GuessInv, ThrottleInv, ThrottleTypeOK

\* The steps that count, forget and fetch nothing.
LEMMA QuietSteps ==
    ASSUME GuessInv, NEW k \in LoginKeys, NEW t \in Threads,
           \/ \E ip \in Ips, login \in Logins : BeginAllow(t, ip, login)
           \/ \E l \in Keys : LookAt(t, l)
           \/ PruneDone(t) \/ Interrupted(t)
    PROVE  GuessOK(k)'
<1>1. UNCHANGED <<entry, heap, guessed>>
  BY DEF BeginAllow, LookAt, PruneDone, Interrupted
<1>2. calls[t] # Null => calls[t] \in Call
  BY DEF GuessInv, ThrottleInv, ThrottleTypeOK
<1>3. ASSUME NEW ip \in Ips, NEW login \in Logins, BeginAllow(t, ip, login)
      PROVE  GuessOK(k)'
  <2> DEFINE c == [ip |-> ip, login |-> login, use |-> "ip",
                   at |-> IF ops' % PruneEvery = 0 THEN "prune" ELSE "get",
                   counter |-> Null, key |-> Null,
                   left |-> IF ops' % PruneEvery = 0 THEN Keys ELSE {}]
  <2>1. calls' = [calls EXCEPT ![t] = c] /\ calls[t] = Null
    BY <1>3 DEF BeginAllow, GoesTo
  <2>2. c.use = "ip" /\ c.at # "password"
    OBVIOUS
  <2> HIDE DEF c
  <2>3. calls'[t] = c /\ \A x \in Threads \ {t} : calls'[x] = calls[x]
    BY <2>1, MovesOn
  <2>4. t \notin Live(k) /\ t \notin Late(k)'
    BY <2>1, <2>2, <2>3 DEF Live, Late
  <2> QED
    BY <1>1, <2>3, <2>4, GoesOn
<1>4. CASE (\E l \in Keys : LookAt(t, l)) \/ PruneDone(t)
  <2>1. \E l \in Keys :
          \/ calls' = [calls EXCEPT ![t] = [calls[t] EXCEPT !.left = @ \ {l}, !.key = l, !.at = "drop"]]
          \/ /\ calls' = [calls EXCEPT ![t] = [calls[t] EXCEPT !.left = @ \ {l}]]
             /\ calls[t].at = "prune"
          \/ calls' = [calls EXCEPT ![t] = [calls[t] EXCEPT !.at = "get"]]
    BY <1>4, k \in Keys DEF LookAt, PruneDone, GoesTo, Calling, LoginKeys, Keys
  <2>2. calls[t] # Null /\ calls[t] \in Call
    BY <1>2, <1>4 DEF LookAt, PruneDone, Calling
  <2>3. /\ \A x \in Threads \ {t} : calls'[x] = calls[x]
        /\ calls'[t] # Null /\ calls'[t].at # "password" /\ KeyOf(calls'[t]) = KeyOf(calls[t])
        /\ calls'[t].use = calls[t].use /\ calls'[t].counter = calls[t].counter
    <3>1. PICK l \in Keys :
            \/ calls' = [calls EXCEPT ![t] = [calls[t] EXCEPT !.left = @ \ {l}, !.key = l, !.at = "drop"]]
            \/ /\ calls' = [calls EXCEPT ![t] = [calls[t] EXCEPT !.left = @ \ {l}]]
               /\ calls[t].at = "prune"
            \/ calls' = [calls EXCEPT ![t] = [calls[t] EXCEPT !.at = "get"]]
      BY <2>1
    <3>2. CASE calls' = [calls EXCEPT ![t] = [calls[t] EXCEPT !.left = @ \ {l}, !.key = l, !.at = "drop"]]
      <4> DEFINE c == [calls[t] EXCEPT !.left = calls[t].left \ {l}, !.key = l, !.at = "drop"]
      <4>1. calls'[t] = c /\ \A x \in Threads \ {t} : calls'[x] = calls[x]
        BY <3>2, MovesOn
      <4>2. c \in Call /\ c.at = "drop" /\ c.use = calls[t].use /\ c.counter = calls[t].counter
            /\ KeyOf(c) = KeyOf(calls[t])
        BY <2>2 DEF Call, KeyOf
      <4> HIDE DEF c
      <4> QED
        BY <4>1, <4>2, NoCallAssumption
    <3>3. CASE /\ calls' = [calls EXCEPT ![t] = [calls[t] EXCEPT !.left = @ \ {l}]]
               /\ calls[t].at = "prune"
      <4> DEFINE c == [calls[t] EXCEPT !.left = calls[t].left \ {l}]
      <4>1. calls'[t] = c /\ \A x \in Threads \ {t} : calls'[x] = calls[x]
        BY <3>3, MovesOn
      <4>2. c \in Call /\ c.at = "prune" /\ c.use = calls[t].use /\ c.counter = calls[t].counter
            /\ KeyOf(c) = KeyOf(calls[t])
        BY <2>2, <3>3 DEF Call, KeyOf
      <4> HIDE DEF c
      <4> QED
        BY <4>1, <4>2, NoCallAssumption
    <3>4. CASE calls' = [calls EXCEPT ![t] = [calls[t] EXCEPT !.at = "get"]]
      <4> DEFINE c == [calls[t] EXCEPT !.at = "get"]
      <4>1. calls'[t] = c /\ \A x \in Threads \ {t} : calls'[x] = calls[x]
        BY <3>4, MovesOn
      <4>2. c \in Call /\ c.at = "get" /\ c.use = calls[t].use /\ c.counter = calls[t].counter
            /\ KeyOf(c) = KeyOf(calls[t])
        BY <2>2 DEF Call, KeyOf
      <4> HIDE DEF c
      <4> QED
        BY <4>1, <4>2, NoCallAssumption
    <3> QED
      BY <3>1, <3>2, <3>3, <3>4
  <2>4. t \in Live(k) => t \in Live(k)'
    BY <1>1, <2>3 DEF Live
  <2>5. t \in Late(k)' => t \in Late(k)
    BY <1>1, <2>2, <2>3 DEF Late
  <2> QED
    BY <1>1, <2>3, <2>4, <2>5, GoesOn
<1>5. CASE Interrupted(t)
  <2>1. /\ calls'[t] = Null /\ \A x \in Threads \ {t} : calls'[x] = calls[x]
        /\ calls[t].use = "check"
    BY <1>5, MovesOn DEF Interrupted, Returns, GuessInv
  <2>2. t \notin Live(k) /\ t \notin Late(k)'
    BY <2>1 DEF Live, Late
  <2> QED
    BY <1>1, <2>1, <2>2, GoesOn
<1> QED
  BY <1>3, <1>4, <1>5

\* A check that finds the count of the entry at the limit does not let the thread through.
LEMMA CheckLoginGuess ==
    ASSUME GuessInv, NEW k \in LoginKeys, NEW t \in Threads, CheckLogin(t)
    PROVE  GuessOK(k)'
<1> DEFINE o == calls[t].counter
           c1 == [calls[t] EXCEPT !.at = "password", !.counter = Null]
<1>1. /\ calls[t] # Null /\ calls[t] \in Call /\ calls[t].at = "use" /\ calls[t].use = "check"
      /\ o # Null /\ o \in Counters
      /\ UNCHANGED <<entry, heap, guessed>>
      /\ Blocked(o) \/ ~WindowOver(o)
  BY DEF GuessInv, ThrottleInv, ThrottleTypeOK, HasCounter, InWindow, CheckLogin, Using, Calling, Call
<1>2. KeyOf(c1) = KeyOf(calls[t]) /\ c1 \in Call
  BY <1>1 DEF Call, KeyOf
<1>3. /\ \A x \in Threads \ {t} : calls'[x] = calls[x]
      /\ calls'[t] = Null \/ (calls'[t] = c1 /\ ~Blocked(o))
  <2>1. CASE Blocked(o)
    BY <2>1, MovesOn DEF CheckLogin, Returns
  <2>2. CASE ~Blocked(o)
    BY <2>2, MovesOn DEF CheckLogin, GoesTo
  <2> QED
    BY <2>1, <2>2
<1> HIDE DEF c1
<1>4. t \notin Live(k)
  BY <1>1 DEF Live
<1>5. ASSUME t \in Late(k)', Failures(k) >= FailureLimit
      PROVE  t \in Late(k)
  <2>1. KeyOf(calls[t]) = k /\ ~Blocked(o)
    BY <1>2, <1>3, <1>5 DEF Late
  <2>2. ASSUME entry[k] = o PROVE FALSE
    <3>1. heap[o].until >= heap[o].start + Window
      BY <1>5, <2>2 DEF GuessInv, GuessOK
    <3>2. /\ heap[o].until \in Int /\ heap[o].start \in Int /\ clock \in Int /\ Window \in Int
      BY <1>1, WindowAssumption, ThrottleBounds
      DEF GuessInv, ThrottleInv, ThrottleTypeOK, AttemptState, Times
    <3> HIDE DEF o
    <3>3. clock - heap[o].start >= Window
      BY <2>1, <3>1, <3>2 DEF Blocked
    <3> QED
      BY <1>1, <2>1, <3>3 DEF WindowOver
  <2> QED
    BY <1>1, <2>1, <2>2 DEF Late
<1> QED
  BY <1>1, <1>3, <1>4, <1>5, GoesOn

LEMMA CountAttemptGuess ==
    ASSUME GuessInv, NEW k \in LoginKeys, NEW t \in Threads, CountAttempt(t)
    PROVE  GuessOK(k)'
<1> DEFINE o == calls[t].counter
           c1 == [calls[t] EXCEPT !.use = "check", !.at = "get", !.counter = Null]
<1>1. /\ calls[t] # Null /\ calls[t] \in Call /\ calls[t].use = "ip"
      /\ o # Null /\ o \in Counters /\ k \in Keys
      /\ UNCHANGED <<entry, guessed>>
  BY DEF GuessInv, ThrottleInv, ThrottleTypeOK, HasCounter, CountAttempt, Using, Calling, Call,
         LoginKeys, Keys
<1>2. c1.at = "get" /\ c1.counter = Null
  BY <1>1 DEF Call
<1>3. /\ \A x \in Threads \ {t} : calls'[x] = calls[x]
      /\ calls'[t] = Null \/ calls'[t] = c1
  BY MovesOn DEF CountAttempt, Returns, GoesTo
<1>4. entry[k] # o
  <2>1. KeyOf(calls[t]) # k
    BY <1>1, KeyIsKey
  <2> QED
    BY <1>1, <2>1 DEF GuessInv, ThrottleInv, Owned
<1>5. entry[k] # Null => heap'[entry[k]] = heap[entry[k]]
  BY <1>1, <1>4 DEF CountAttempt, Counted, GuessInv, ThrottleInv, ThrottleTypeOK
<1> HIDE DEF c1
<1>6. t \notin Live(k) /\ t \notin Late(k)'
  BY <1>1, <1>2, <1>3 DEF Live, Late
<1> QED
  BY <1>1, <1>3, <1>5, <1>6, GoesOn

LEMMA GetCounterGuess ==
    ASSUME GuessInv, NEW k \in LoginKeys, NEW t \in Threads, NEW o \in Counters, GetCounter(t, o)
    PROVE  GuessOK(k)'
<1> DEFINE kt == KeyOf(calls[t])
           c == [calls[t] EXCEPT !.counter = o, !.at = "touch"]
<1>1. /\ calls[t] # Null /\ calls[t] \in Call /\ calls[t].at = "get" /\ calls[t].counter = Null
      /\ k \in Keys /\ kt \in Keys
      /\ UNCHANGED guessed
      /\ entry \in [Keys -> Counters \cup {Null}]
  BY KeyIsKey
  DEF GuessInv, ThrottleInv, ThrottleTypeOK, HasCounter, GetCounter, Calling, LoginKeys, Keys
<1>2. KeyOf(c) = kt /\ c # Null /\ c.counter = o /\ c.at = "touch" /\ c.use = calls[t].use
  <2>1. KeyOf(c) = kt /\ c \in Call /\ c.counter = o /\ c.at = "touch" /\ c.use = calls[t].use
    BY <1>1 DEF Call, KeyOf
  <2> HIDE DEF c
  <2> QED
    BY <2>1, NoCallAssumption
<1>3. calls'[t] = c /\ \A x \in Threads \ {t} : calls'[x] = calls[x]
  BY MovesOn DEF GetCounter, GoesTo
<1>4. \/ entry[kt] = o /\ UNCHANGED <<entry, heap>>
      \/ /\ Unused(o) /\ entry[kt] = Null
         /\ entry' = [entry EXCEPT ![kt] = o]
         /\ heap' = [heap EXCEPT ![o] = Fresh(clock)]
  BY DEF GetCounter
<1> HIDE DEF kt, c
<1>5. CASE k = kt /\ entry[kt] = Null
  <2>1. Unused(o) /\ entry'[k] = o /\ heap'[o] = Fresh(clock) /\ o # Null
    BY <1>1, <1>4, <1>5, NoCallAssumption DEF GuessInv, ThrottleInv, ThrottleTypeOK
  <2>2. Failures(k) = 0 /\ Failures(k)' = 0
    BY <1>5, <2>1 DEF Failures, Fresh
  <2>3. Live(k) \subseteq Live(k)'
    BY <1>1, <1>2, <1>3, <1>5, <2>1 DEF Live, kt
  <2>4. /\ Live(k) \in SUBSET Threads /\ Live(k)' \in SUBSET Threads
    BY DEF Live
  <2>5. /\ Cardinality(Live(k)) <= Cardinality(Live(k)')
        /\ Cardinality(Live(k)) \in Nat /\ Cardinality(Live(k)') \in Nat
    BY <2>3, <2>4, CountOfThreads, FS_Subset
  <2>6. guessed[k] <= Cardinality(Live(k)) /\ guessed[k] \in Nat
    BY <2>2, <2>5 DEF GuessInv, GuessOK, ThrottleInv, ThrottleTypeOK, LoginKeys, Keys
  <2> QED
    BY <1>1, <2>2, <2>5, <2>6, LimitsAssumption DEF GuessOK
<1>6. CASE ~(k = kt /\ entry[kt] = Null)
  <2>1. entry'[k] = entry[k]
    BY <1>1, <1>4, <1>6
  <2>2. entry[k] # Null => heap'[entry[k]] = heap[entry[k]]
    BY <1>1, <1>4 DEF Unused, GuessInv, ThrottleInv, ThrottleTypeOK
  <2>3. k = kt => entry[k] = o
    BY <1>4, <1>6
  <2>4. t \in Live(k) => t \in Live(k)'
    BY <1>1, <1>2, <1>3, <2>1, <2>3 DEF Live, kt
  <2>5. t \notin Late(k)'
    BY <1>1, <1>2, <1>3, <2>1, <2>3 DEF Late
  <2> QED
    BY <1>1, <1>3, <2>1, <2>2, <2>4, <2>5, GoesOn
<1> QED
  BY <1>5, <1>6

LEMMA TouchGuess ==
    ASSUME GuessInv, NEW k \in LoginKeys, NEW t \in Threads, Touch(t)
    PROVE  GuessOK(k)'
<1> DEFINE o == calls[t].counter
           kt == KeyOf(calls[t])
           c == [calls[t] EXCEPT !.at = "use"]
<1>1. /\ calls[t] # Null /\ calls[t] \in Call /\ calls[t].at = "touch"
      /\ o # Null /\ o \in Counters /\ k \in Keys /\ kt \in Keys
      /\ UNCHANGED entry
  BY KeyIsKey
  DEF GuessInv, ThrottleInv, ThrottleTypeOK, HasCounter, Touch, Calling, Call, LoginKeys, Keys
<1>2. KeyOf(c) = kt /\ c # Null /\ c.counter = o /\ c.at = "use" /\ c.use = calls[t].use
  <2>1. KeyOf(c) = kt /\ c \in Call /\ c.counter = o /\ c.at = "use" /\ c.use = calls[t].use
    BY <1>1 DEF Call, KeyOf
  <2> HIDE DEF c
  <2> QED
    BY <2>1, NoCallAssumption
<1>3. calls'[t] = c /\ \A x \in Threads \ {t} : calls'[x] = calls[x]
  BY MovesOn DEF Touch, GoesTo
<1>4. entry[k] = o => k = kt
  BY <1>1 DEF GuessInv, ThrottleInv, Owned
<1>5. \/ UNCHANGED <<heap, guessed>>
      \/ /\ heap' = [heap EXCEPT ![o] = NewWindow(heap[o])]
         /\ \/ entry[kt] = o /\ guessed' = [guessed EXCEPT ![kt] = 0]
            \/ entry[kt] # o /\ UNCHANGED guessed
  BY DEF Touch, Forget
<1> HIDE DEF c
<1>6. CASE entry[k] = o /\ ~UNCHANGED <<heap, guessed>>
  <2>1. guessed'[k] = 0 /\ heap'[o] = NewWindow(heap[o])
    BY <1>1, <1>4, <1>5, <1>6 DEF GuessInv, ThrottleInv, ThrottleTypeOK
  <2>2. heap[o] \in AttemptState
    BY <1>1 DEF GuessInv, ThrottleInv, ThrottleTypeOK
  <2>3. Failures(k)' = 0
    BY <1>1, <1>6, <2>1, <2>2 DEF Failures, NewWindow, AttemptState
  <2> QED
    BY <2>1, <2>3, Forgotten
<1>7. CASE entry[k] # o \/ UNCHANGED <<heap, guessed>>
  <2>1. guessed'[k] = guessed[k]
    BY <1>1, <1>4, <1>5, <1>7 DEF GuessInv, ThrottleInv, ThrottleTypeOK
  <2>2. entry[k] # Null => heap'[entry[k]] = heap[entry[k]]
    BY <1>1, <1>5, <1>7 DEF GuessInv, ThrottleInv, ThrottleTypeOK
  <2>3. t \in Live(k) => t \in Live(k)'
    BY <1>1, <1>2, <1>3 DEF Live
  <2>4. t \in Late(k)' => t \in Late(k)
    BY <1>1, <1>2, <1>3 DEF Late
  <2> QED
    BY <1>1, <1>3, <2>1, <2>2, <2>3, <2>4, GoesOn
<1> QED
  BY <1>6, <1>7

LEMMA DropKeyGuess ==
    ASSUME GuessInv, NEW k \in LoginKeys, NEW t \in Threads, DropKey(t)
    PROVE  GuessOK(k)'
<1> DEFINE d == calls[t].key
           c == [calls[t] EXCEPT !.key = Null, !.at = "prune"]
<1>1. /\ calls[t] # Null /\ calls[t] \in Call /\ calls[t].at = "drop"
      /\ k \in Keys /\ UNCHANGED heap
      /\ entry' = [entry EXCEPT ![d] = Null] /\ guessed' = [guessed EXCEPT ![d] = 0]
  BY DEF GuessInv, ThrottleInv, ThrottleTypeOK, DropKey, Forget, Calling, LoginKeys, Keys
<1>2. c.at = "prune" /\ c.use = calls[t].use /\ c.counter = calls[t].counter /\ c # Null
      /\ KeyOf(c) = KeyOf(calls[t])
  <2>1. c \in Call /\ c.at = "prune" /\ c.use = calls[t].use /\ c.counter = calls[t].counter
        /\ KeyOf(c) = KeyOf(calls[t])
    BY <1>1 DEF Call, KeyOf
  <2> HIDE DEF c
  <2> QED
    BY <2>1, NoCallAssumption
<1>3. calls'[t] = c /\ \A x \in Threads \ {t} : calls'[x] = calls[x]
  BY MovesOn DEF DropKey, GoesTo
<1> HIDE DEF d, c
<1>4. CASE k = d
  BY <1>1, <1>4, Forgotten DEF Failures, GuessInv, ThrottleInv, ThrottleTypeOK
<1>5. CASE k # d
  <2>1. entry'[k] = entry[k] /\ guessed'[k] = guessed[k]
    BY <1>1, <1>5 DEF GuessInv, ThrottleInv, ThrottleTypeOK
  <2>2. t \in Live(k) => t \in Live(k)'
    BY <1>1, <1>2, <1>3, <2>1 DEF Live
  <2>3. t \in Late(k)' => t \in Late(k)
    BY <1>1, <1>2, <1>3, <2>1 DEF Late
  <2> QED
    BY <1>1, <1>3, <2>1, <2>2, <2>3, GoesOn
<1> QED
  BY <1>4, <1>5

LEMMA RightPasswordGuess ==
    ASSUME GuessInv, NEW k \in LoginKeys, NEW t \in Threads, RightPassword(t)
    PROVE  GuessOK(k)'
<1> DEFINE kt == KeyOf(calls[t])
<1>1. /\ calls[t] # Null /\ calls[t].at = "password" /\ calls[t].use = "check"
      /\ k \in Keys /\ UNCHANGED heap
      /\ entry' = [entry EXCEPT ![kt] = Null] /\ guessed' = [guessed EXCEPT ![kt] = 0]
  BY DEF GuessInv, RightPassword, Forget, Calling, LoginKeys, Keys
<1>2. calls'[t] = Null /\ \A x \in Threads \ {t} : calls'[x] = calls[x]
  BY MovesOn DEF RightPassword, Returns
<1> HIDE DEF kt
<1>3. CASE k = kt
  BY <1>1, <1>3, Forgotten DEF Failures, GuessInv, ThrottleInv, ThrottleTypeOK
<1>4. CASE k # kt
  <2>1. entry'[k] = entry[k] /\ guessed'[k] = guessed[k]
    BY <1>1, <1>4 DEF GuessInv, ThrottleInv, ThrottleTypeOK
  <2>2. t \notin Live(k) /\ t \notin Late(k)'
    BY <1>1, <1>2 DEF Live, Late
  <2> QED
    BY <1>1, <1>2, <2>1, <2>2, GoesOn
<1> QED
  BY <1>3, <1>4

\* A guess: the thread was Late, and is Live.
LEMMA WrongPasswordGuess ==
    ASSUME GuessInv, NEW k \in LoginKeys, NEW t \in Threads, WrongPassword(t)
    PROVE  GuessOK(k)'
<1> DEFINE kt == KeyOf(calls[t])
           c == [calls[t] EXCEPT !.use = "failure", !.at = "get"]
<1>1. /\ calls[t] # Null /\ calls[t] \in Call /\ calls[t].at = "password"
      /\ calls[t].use = "check" /\ calls[t].counter = Null
      /\ k \in Keys /\ UNCHANGED <<entry, heap>>
      /\ guessed' = [guessed EXCEPT ![kt] = guessed[kt] + 1]
  BY DEF GuessInv, ThrottleInv, ThrottleTypeOK, HasCounter, WrongPassword, Calling, LoginKeys, Keys
<1>2. c.at = "get" /\ c.use = "failure" /\ c.counter = Null /\ c # Null /\ KeyOf(c) = kt
  <2>1. c \in Call /\ c.at = "get" /\ c.use = "failure" /\ c.counter = Null /\ KeyOf(c) = kt
    BY <1>1 DEF Call, KeyOf
  <2> HIDE DEF c
  <2> QED
    BY <2>1, NoCallAssumption
<1>3. calls'[t] = c /\ \A x \in Threads \ {t} : calls'[x] = calls[x]
  BY MovesOn DEF WrongPassword, GoesTo
<1> HIDE DEF c
<1>4. CASE k = kt
  <2>1. guessed[k] \in Nat /\ guessed'[k] = guessed[k] + 1
    BY <1>1, <1>4 DEF GuessInv, ThrottleInv, ThrottleTypeOK
  <2>2. Failures(k)' = Failures(k) /\ Failures(k) \in Nat
    BY <1>1 DEF Failures, GuessInv, ThrottleInv, ThrottleTypeOK, AttemptState
  <2>3. Live(k)' = Live(k) \cup {t} /\ t \notin Live(k)
    BY <1>1, <1>2, <1>3, <1>4 DEF Live
  <2>4. Late(k)' = Late(k) \ {t} /\ t \in Late(k)
    BY <1>1, <1>2, <1>3, <1>4 DEF Late
  <2>5. Live(k) \in SUBSET Threads /\ Late(k) \in SUBSET Threads
    BY DEF Live, Late
  <2>6. /\ Cardinality(Live(k)') = Cardinality(Live(k)) + 1 /\ Cardinality(Live(k)) \in Nat
        /\ Cardinality(Late(k)') = Cardinality(Late(k)) - 1 /\ Cardinality(Late(k)) \in Nat
        /\ Cardinality(Threads) \in Nat
    <3>1. /\ IsFiniteSet(Live(k)) /\ Cardinality(Live(k)) \in Nat
          /\ IsFiniteSet(Late(k)) /\ Cardinality(Late(k)) \in Nat
          /\ Cardinality(Threads) \in Nat
      BY <2>5, CountOfThreads
    <3>2. Cardinality(Live(k)') = Cardinality(Live(k)) + 1
      BY <2>3, <3>1, FS_AddElement
    <3>3. Cardinality(Late(k)') = Cardinality(Late(k)) - 1
      BY <2>4, <3>1, FS_RemoveElement
    <3> QED
      BY <3>1, <3>2, <3>3
  <2>7. GuessOK(k)
    BY DEF GuessInv
  <2> QED
    BY <1>1, <2>1, <2>2, <2>6, <2>7, LimitsAssumption DEF GuessOK
<1>5. CASE k # kt
  <2>1. guessed'[k] = guessed[k]
    BY <1>1, <1>5 DEF GuessInv, ThrottleInv, ThrottleTypeOK
  <2>2. t \notin Live(k) /\ t \notin Late(k)'
    BY <1>1, <1>2, <1>3, <1>5 DEF Live, Late
  <2> QED
    BY <1>1, <1>3, <2>1, <2>2, GoesOn
<1> QED
  BY <1>4, <1>5

\* A failure that is counted in the entry: when it is the FailureLimit-th, the threads that
\* are Live and those that are Late are different ones.
LEMMA CountFailureGuess ==
    ASSUME GuessInv, NEW k \in LoginKeys, NEW t \in Threads, CountFailure(t)
    PROVE  GuessOK(k)'
<1> DEFINE o == calls[t].counter
           kt == KeyOf(calls[t])
           n == heap[o].count + 1
           u == IF LimitReached(n) THEN BlockEnd(o) ELSE heap[o].until
<1>1. /\ calls[t] # Null /\ calls[t] \in Call /\ calls[t].at = "use" /\ calls[t].use = "failure"
      /\ o # Null /\ o \in Counters /\ k \in Keys
      /\ UNCHANGED <<entry, guessed, clock>>
      /\ heap[o] \in AttemptState
      /\ heap' = [heap EXCEPT ![o].count = n, ![o].until = u]
  BY DEF GuessInv, ThrottleInv, ThrottleTypeOK, HasCounter, CountFailure, Using, Calling, Call,
         LoginKeys, Keys
<1>2. calls'[t] = Null /\ \A x \in Threads \ {t} : calls'[x] = calls[x]
  BY MovesOn DEF CountFailure, Returns
<1>3. entry[k] = o => k = kt
  BY <1>1 DEF GuessInv, ThrottleInv, Owned
<1>4. n \in Nat /\ n = heap[o].count + 1 /\ (n >= FailureLimit => u = clock + Window)
  BY <1>1 DEF AttemptState, LimitReached, BlockEnd
<1> HIDE DEF n, u
<1>5. CASE entry[k] # o
  <2>1. entry[k] # Null => heap'[entry[k]] = heap[entry[k]]
    BY <1>1, <1>5 DEF GuessInv, ThrottleInv, ThrottleTypeOK
  <2>2. t \notin Live(k) /\ t \notin Late(k)'
    BY <1>1, <1>2, <1>5 DEF Live, Late
  <2> QED
    BY <1>1, <1>2, <2>1, <2>2, GoesOn
<1>6. CASE entry[k] = o
  <2>1. /\ heap'[o].count = n /\ heap'[o].until = u /\ heap'[o].start = heap[o].start
    BY <1>1 DEF GuessInv, ThrottleInv, ThrottleTypeOK, AttemptState
  <2>2. Failures(k) \in Nat /\ Failures(k)' = Failures(k) + 1 /\ Failures(k)' = n
    BY <1>1, <1>4, <1>6, <2>1 DEF Failures, AttemptState
  <2>3. Live(k)' = Live(k) \ {t} /\ t \in Live(k) /\ t \notin Late(k) /\ Late(k)' = Late(k)
    BY <1>1, <1>2, <1>3, <1>6 DEF Live, Late
  <2>4. Live(k) \in SUBSET Threads /\ Late(k) \in SUBSET Threads
        /\ (Live(k) \cup Late(k)) \in SUBSET Threads
    BY DEF Live, Late
  <2>5. Live(k) \cap Late(k) = {}
    BY <1>6 DEF Live, Late, GuessInv, Calling
  <2>6. /\ Cardinality(Live(k)') = Cardinality(Live(k)) - 1 /\ Cardinality(Live(k)) \in Nat
        /\ Cardinality(Late(k)) \in Nat /\ Cardinality(Threads) \in Nat
        /\ Cardinality(Live(k)) + Cardinality(Late(k)) <= Cardinality(Threads)
    <3>1. /\ IsFiniteSet(Live(k)) /\ Cardinality(Live(k)) \in Nat
          /\ IsFiniteSet(Late(k)) /\ Cardinality(Late(k)) \in Nat
          /\ Cardinality(Threads) \in Nat
          /\ Cardinality(Live(k) \cup Late(k)) <= Cardinality(Threads)
      BY <2>4, CountOfThreads
    <3>2. Cardinality(Live(k)') = Cardinality(Live(k)) - 1
      BY <2>3, <3>1, FS_RemoveElement
    <3>3. Cardinality(Live(k) \cup Late(k)) =
            Cardinality(Live(k)) + Cardinality(Late(k)) - Cardinality(Live(k) \cap Late(k))
      BY <3>1, FS_Union
    <3>4. Cardinality(Live(k) \cap Late(k)) = 0
      BY <2>5, FS_EmptySet
    <3> QED
      BY <3>1, <3>2, <3>3, <3>4
  <2>7. GuessOK(k) /\ guessed[k] \in Nat /\ FailureLimit \in Nat \ {0}
    BY <1>1, LimitsAssumption DEF GuessInv, ThrottleInv, ThrottleTypeOK
  <2>8. guessed'[k] <= Failures(k)' + Cardinality(Live(k)')
    <3>1. guessed[k] <= Failures(k) + Cardinality(Live(k)) /\ guessed'[k] = guessed[k]
      BY <1>1, <2>7 DEF GuessOK
    <3> QED
      BY <2>2, <2>6, <2>7, <3>1
  <2>9. ASSUME Failures(k)' >= FailureLimit
        PROVE  /\ guessed'[k] + Cardinality(Late(k)') < FailureLimit + Cardinality(Threads)
               /\ heap'[entry'[k]].until >= heap'[entry'[k]].start + Window
    <3>1. guessed[k] + Cardinality(Late(k)) < FailureLimit + Cardinality(Threads)
      <4>1. CASE Failures(k) >= FailureLimit
        BY <2>7, <4>1 DEF GuessOK
      <4>2. CASE Failures(k) < FailureLimit
        <5>1. guessed[k] <= Failures(k) + Cardinality(Live(k))
          BY <2>7 DEF GuessOK
        <5> QED
          BY <2>2, <2>6, <2>7, <4>2, <5>1
      <4> QED
        BY <2>2, <2>7, <4>1, <4>2
    <3>2. heap'[o].until = clock + Window /\ heap[o].start <= clock
      BY <1>1, <1>4, <2>1, <2>2, <2>9 DEF GuessInv, ThrottleInv
    <3>3. heap[o].start \in Int /\ clock \in Int /\ Window \in Int
      BY <1>1, ThrottleBounds, WindowAssumption
      DEF GuessInv, ThrottleInv, ThrottleTypeOK, AttemptState, Times
    <3>4. heap'[o].until >= heap'[o].start + Window
      BY <2>1, <3>2, <3>3
    <3> QED
      BY <1>1, <1>6, <2>3, <3>1, <3>4
  <2> QED
    BY <2>8, <2>9 DEF GuessOK
<1> QED
  BY <1>5, <1>6

LEMMA PasswordAfterCheck ==
    ASSUME GuessInv, ThrottleNext, NEW x \in Threads, Calling(x, "password")'
    PROVE  calls'[x].use = "check"
<1> SUFFICES ASSUME ~(Calling(x, "password") /\ calls'[x] = calls[x])
             PROVE  calls'[x].use = "check"
  BY DEF GuessInv, Calling
<1>1. calls \in [Threads -> Call \cup {Null}] /\ calls'[x] # Null /\ calls'[x].at = "password"
  BY DEF GuessInv, ThrottleInv, ThrottleTypeOK, Calling
<1>2. calls'[x] # calls[x]
  BY <1>1 DEF Calling
<1>3. ~RestartThrottle /\ ~Tick
  BY <1>1, <1>2 DEF RestartThrottle, Tick
<1>4. ASSUME NEW t \in Threads, t # x
      PROVE  ~\E c : calls' = [calls EXCEPT ![t] = c]
  BY <1>1, <1>2, <1>4
<1>5. /\ \A c : calls' = [calls EXCEPT ![x] = c] => calls'[x] = c
      /\ calls[x] # Null => calls[x] \in Call
  BY <1>1
<1>6. ASSUME NEW t \in Threads, CheckLogin(t)
      PROVE  calls'[x].use = "check"
  <2> DEFINE c == [calls[t] EXCEPT !.at = "password", !.counter = Null]
  <2>1. /\ calls[t] \in Call /\ calls[t].use = "check"
        /\ \E d \in {c, Null} : calls' = [calls EXCEPT ![t] = d]
    BY <1>1, <1>6 DEF CheckLogin, Using, Calling, GoesTo, Returns
  <2>2. c.use = "check"
    BY <2>1 DEF Call
  <2> HIDE DEF c
  <2> QED
    BY <1>1, <1>4, <1>5, <2>1, <2>2
<1>7. ASSUME NEW t \in Threads, t = x,
             \/ \E ip \in Ips, login \in Logins : BeginAllow(t, ip, login)
             \/ \E k \in Keys : LookAt(t, k)
             \/ DropKey(t) \/ PruneDone(t)
             \/ \E o \in Counters : GetCounter(t, o)
             \/ Touch(t)
             \/ CountAttempt(t) \/ CountFailure(t)
             \/ WrongPassword(t) \/ RightPassword(t) \/ Interrupted(t)
      PROVE  FALSE
  <2>1. ASSUME NEW ip \in Ips, NEW login \in Logins, BeginAllow(t, ip, login) PROVE FALSE
    BY <1>1, <1>5, <1>7, <2>1 DEF BeginAllow, GoesTo
  <2>2. ASSUME NEW k \in Keys, LookAt(t, k) PROVE FALSE
    BY <1>1, <1>5, <1>7, <2>2 DEF LookAt, GoesTo, Calling, Call
  <2>3. ASSUME NEW o \in Counters, GetCounter(t, o) PROVE FALSE
    BY <1>1, <1>5, <1>7, <2>3 DEF GetCounter, GoesTo, Calling, Call
  <2>4. CASE DropKey(t)
    BY <1>1, <1>5, <1>7, <2>4 DEF DropKey, GoesTo, Calling, Call
  <2>5. CASE PruneDone(t)
    BY <1>1, <1>5, <1>7, <2>5 DEF PruneDone, GoesTo, Calling, Call
  <2>6. CASE Touch(t)
    BY <1>1, <1>5, <1>7, <2>6 DEF Touch, GoesTo, Calling, Call
  <2>7. CASE CountAttempt(t)
    BY <1>1, <1>5, <1>7, <2>7 DEF CountAttempt, GoesTo, Returns, Using, Calling, Call
  <2>8. CASE WrongPassword(t)
    BY <1>1, <1>5, <1>7, <2>8 DEF WrongPassword, GoesTo, Calling, Call
  <2>9. CASE CountFailure(t) \/ RightPassword(t) \/ Interrupted(t)
    BY <1>1, <1>5, <1>7, <2>9 DEF CountFailure, RightPassword, Interrupted, Returns
  <2> QED
    BY <1>7, <2>4, <2>5, <2>6, <2>7, <2>8, <2>9, <2>1, <2>2, <2>3
<1>8. ASSUME NEW t \in Threads, t # x
      PROVE  ~ \/ \E ip \in Ips, login \in Logins : BeginAllow(t, ip, login)
               \/ \E k \in Keys : LookAt(t, k)
               \/ DropKey(t) \/ PruneDone(t)
               \/ \E o \in Counters : GetCounter(t, o)
               \/ Touch(t)
               \/ CountAttempt(t) \/ CountFailure(t)
               \/ WrongPassword(t) \/ RightPassword(t) \/ Interrupted(t)
  BY <1>4, <1>8
  DEF BeginAllow, LookAt, DropKey, PruneDone, GetCounter, Touch, CountAttempt, CountFailure,
      WrongPassword, RightPassword, Interrupted, GoesTo, Returns
<1> QED
  BY <1>3, <1>6, <1>7, <1>8 DEF ThrottleNext

\* Passwords are guessed for logins, not for addresses.
LEMMA GuessedAreLogins ==
    ASSUME GuessInv, ThrottleNext, NEW k \in Keys \ LoginKeys
    PROVE  guessed'[k] = 0
<1>1. guessed \in [Keys -> Nat] /\ guessed[k] = 0
  BY DEF GuessInv, ThrottleInv, ThrottleTypeOK
<1>2. ASSUME NEW t \in Threads, WrongPassword(t) PROVE guessed'[k] = 0
  <2>1. KeyOf(calls[t]) \in LoginKeys
    <3>1. calls[t] \in Call /\ calls[t].use = "check"
      BY <1>2 DEF GuessInv, ThrottleInv, ThrottleTypeOK, WrongPassword, Calling
    <3> QED
      BY <3>1, KeyIsKey
  <2> QED
    BY <1>1, <1>2, <2>1 DEF WrongPassword
<1>3. ASSUME NEW t \in Threads, DropKey(t) \/ Touch(t) \/ RightPassword(t)
      PROVE  guessed'[k] = 0
  BY <1>1, <1>3 DEF DropKey, Touch, RightPassword, Forget
<1>4. CASE RestartThrottle
  BY <1>4 DEF RestartThrottle
<1>5. \/ guessed' = guessed \/ RestartThrottle
      \/ \E t \in Threads : WrongPassword(t) \/ DropKey(t) \/ Touch(t) \/ RightPassword(t)
  BY DEF ThrottleNext, BeginAllow, LookAt, PruneDone, GetCounter, CountAttempt, CheckLogin,
         CountFailure, Interrupted, Tick
<1> QED
  BY <1>1, <1>2, <1>3, <1>4, <1>5

LEMMA GuessInitInv == ThrottleInit => GuessInv
<1> SUFFICES ASSUME ThrottleInit PROVE GuessInv
  OBVIOUS
<1>1. ThrottleInv
  BY ThrottleInitInv
<1>2. ASSUME NEW k \in LoginKeys PROVE GuessOK(k)
  <2>1. Cardinality(Live(k)) \in Nat
    BY CountOfThreads DEF Live
  <2>2. guessed[k] = 0 /\ Failures(k) = 0
    BY <1>2 DEF ThrottleInit, Failures, LoginKeys, Keys
  <2> QED
    BY <2>1, <2>2, LimitsAssumption DEF GuessOK
<1>3. \A k \in Keys \ LoginKeys : guessed[k] = 0
  BY DEF ThrottleInit
<1> QED
  BY <1>1, <1>2, <1>3 DEF GuessInv, ThrottleInit, Calling

LEMMA GuessStep == GuessInv /\ [ThrottleNext]_throttleVars => GuessInv'
<1> SUFFICES ASSUME GuessInv, [ThrottleNext]_throttleVars
             PROVE  GuessInv'
  OBVIOUS
<1>1. ThrottleInv'
  BY ThrottleStep DEF GuessInv
<1>2. CASE UNCHANGED <<entry, heap, calls, guessed>>
  <2>1. \A k \in LoginKeys : GuessOK(k)'
    BY <1>2 DEF GuessInv, GuessOK, Live, Late, Failures
  <2> QED
    BY <1>1, <1>2, <2>1 DEF GuessInv, Calling
<1>3. CASE RestartThrottle
  <2>1. ThrottleInit'
    BY <1>3 DEF RestartThrottle, ThrottleInit
  <2> QED
    BY <2>1, GuessInitInv, PTL
<1>4. ASSUME ThrottleNext, ~Tick, ~RestartThrottle
      PROVE  GuessInv'
  <2>1. ASSUME NEW k \in LoginKeys PROVE GuessOK(k)'
    BY <1>4, QuietSteps, CheckLoginGuess, CountAttemptGuess, GetCounterGuess, TouchGuess,
       DropKeyGuess, RightPasswordGuess, WrongPasswordGuess, CountFailureGuess
    DEF ThrottleNext
  <2>2. \A t \in Threads : Calling(t, "password")' => calls'[t].use = "check"
    BY <1>4, PasswordAfterCheck
  <2>3. \A k \in Keys \ LoginKeys : guessed'[k] = 0
    BY <1>4, GuessedAreLogins
  <2> QED
    BY <1>1, <2>1, <2>2, <2>3 DEF GuessInv
<1>5. Tick \/ UNCHANGED throttleVars => UNCHANGED <<entry, heap, calls, guessed>>
  BY DEF Tick, throttleVars
<1> QED
  BY <1>2, <1>3, <1>4, <1>5

\* The number of wrong passwords that the throttle lets through between two times it
\* forgets a login, for any limits, addresses and logins and any finite number of threads
\* (LoginThrottle.cs:41-46, 58-60).
THEOREM GuessesAreBounded == ThrottleSpec => []GuessesBounded
<1>1. GuessInv => GuessesBounded
  <2> SUFFICES ASSUME GuessInv, NEW k \in Keys
               PROVE  guessed[k] < FailureLimit + Cardinality(Threads)
    BY DEF GuessesBounded
  <2>1. /\ guessed[k] \in Nat /\ FailureLimit \in Nat \ {0} /\ Cardinality(Threads) \in Nat
    BY LimitsAssumption, CountOfThreads DEF GuessInv, ThrottleInv, ThrottleTypeOK
  <2>2. CASE k \in LoginKeys
    <3>1. /\ Cardinality(Live(k)) \in Nat /\ Cardinality(Live(k)) <= Cardinality(Threads)
          /\ Cardinality(Late(k)) \in Nat
      BY CountOfThreads DEF Live, Late
    <3>2. Failures(k) \in Nat
      BY DEF Failures, GuessInv, ThrottleInv, ThrottleTypeOK, AttemptState
    <3>3. GuessOK(k)
      BY <2>2 DEF GuessInv
    <3> QED
      BY <2>1, <3>1, <3>2, <3>3 DEF GuessOK
  <2>3. CASE k \notin LoginKeys
    BY <2>1, <2>3 DEF GuessInv
  <2> QED
    BY <2>2, <2>3
<1> QED
  BY <1>1, GuessInitInv, GuessStep, PTL DEF ThrottleSpec

================================================================================
