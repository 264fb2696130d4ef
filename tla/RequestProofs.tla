------------------------------ MODULE RequestProofs ------------------------------
(***************************************************************************)
(* Theorems about Requests, for every set of consoles, handlers, users,    *)
(* Pokemon, slots and sessions, and for all the faults that are not named  *)
(* in a hypothesis.                                                        *)
(***************************************************************************)
EXTENDS RequestProps, TransferProofs, FiniteSetTheorems

--------------------------------------------------------------------------------
(* The invariant.  What a handler is about to save was decided on rows that    *)
(* may have changed since, but never so that it would take a pending deposit   *)
(* away from its session: the row is recognised by its generation, and it      *)
(* stays with the same session for as long as it is pending.                   *)

Requests == [Handlers -> Request \cup {None}]
Generations == [BankSlots -> Gens]

\* A pending row has a holder.
PendingHeld == \A b \in BankSlots : IsPending(rows[b]) => rows[b].held # None

\* A console waits for one answer at a time.
OneHeard ==
    \A h, k \in Running :
      reqs[h].heard /\ reqs[k].heard /\ reqs[h].con = reqs[k].con => h = k

\* What a handler has in its locals, and what the console that waits for it does.
ReqOK(r) ==
    /\ r.op \in {"deposit", "withdraw", "commit", "abandon"} => r.sess \in Sessions
    /\ r.op \in {"deposit", "withdraw"} => r.slot \in SaveSlots
    /\ r.op = "deposit" => r.mon \in Mons
    /\ r.op = "open" => r.img \in Image
    /\ r.heard => /\ r.op \in {"deposit", "withdraw"} => pc[r.con] = "edit"
                  /\ r.op = "commit" => pc[r.con] = "commit"
    /\ \A x \in r.changes : x.what = "insert" => r.op = "deposit"
    /\ \A x, y \in r.changes : x.slot = y.slot => x = y

\* A decision about a row that is still the pending one that was read.
Agrees(r) ==
    \A x \in r.changes :
      r.at = "save" /\ IsPending(rows[x.slot]) /\ gen[x.slot] = x.gen =>
        \/ x.what \in {"settle", "insert"}
        \/ x.what = "remove" /\ rows[x.slot].held = r.sess

ReqsOK == \A h \in Running : ReqOK(reqs[h]) /\ Agrees(reqs[h])

RequestsInv ==
    /\ TypeInv
    /\ gen \in Generations
    /\ reqs \in Requests
    /\ PendingHeld
    /\ OneHeard
    /\ ReqsOK

\* No handler remembers generation g of slot b.
Unknown(b, g) == \A h \in Running : \A x \in reqs[h].changes : x.slot = b => x.gen # g

--------------------------------------------------------------------------------
(* There is always a new generation: a handler remembers at most one of a slot. *)

LEMMA NewGenIsUnknown ==
    ASSUME RequestsInv, NEW b \in BankSlots
    PROVE  NewGen(b) \in Gens /\ Unknown(b, NewGen(b))
<1>1. \E g \in Gens : Unknown(b, g)
  <2> SUFFICES ASSUME \A g \in Gens : ~Unknown(b, g) PROVE FALSE
    OBVIOUS
  <2> DEFINE Knows(h, g) == h \in Running /\ \E x \in reqs[h].changes : x.slot = b /\ x.gen = g
             f == [g \in Gens |-> CHOOSE h \in Handlers : Knows(h, g)]
  <2>1. \A g \in Gens : f[g] \in Handlers /\ Knows(f[g], g)
    BY DEF Unknown, Running
  <2>2. f \in [Gens -> Handlers]
    BY <2>1
  <2> HIDE DEF f
  <2>3. Cardinality(Handlers) < Cardinality(Gens)
    BY GensAssumption, HandlersAssumption, FS_CardinalityType
  <2>4. PICK g1, g2 \in Gens : g1 # g2 /\ f[g1] = f[g2]
    BY <2>2, <2>3, FS_PigeonHole, GensAssumption, HandlersAssumption
  <2>5. Knows(f[g1], g1) /\ Knows(f[g1], g2)
    BY <2>1, <2>4
  <2> QED
    BY <2>4, <2>5 DEF RequestsInv, ReqsOK, ReqOK
<1> QED
  BY <1>1 DEF NewGen, Unknown

--------------------------------------------------------------------------------
(* What SaveChangesAsync does to the rows. *)

\* A row as it was, or a new one that nobody remembers.
PendingOld ==
    \A b \in BankSlots : IsPending(rows'[b]) =>
      \/ rows'[b] = rows[b] /\ gen'[b] = gen[b]
      \/ rows[b] = None /\ Unknown(b, gen'[b])

\* What becomes of the pending rows when h saves.
OwnOnly(h) ==
    \A b \in BankSlots : IsPending(rows[b]) =>
      \/ rows'[b] \in {rows[b], Settled(rows[b])}
      \/ rows'[b] = None /\ rows[b].held = reqs[h].sess

LEMMA RequestFields ==
    ASSUME RequestsInv, NEW h \in Running
    PROVE  /\ reqs[h] \in Request
           /\ reqs[h].con \in Consoles /\ reqs[h].op \in Ops /\ reqs[h].heard \in BOOLEAN
           /\ reqs[h].sess \in Sessions \cup {None}
           /\ \A x \in reqs[h].changes : x \in Change
           /\ ReqOK(reqs[h]) /\ Agrees(reqs[h])
BY DEF RequestsInv, Requests, Running, Request, ReqsOK

LEMMA ChangeOfRow ==
    ASSUME RequestsInv, NEW h \in Running, SavesNow(h),
           NEW x \in reqs[h].changes, NEW b \in BankSlots, x.slot = b
    PROVE  LET y == Changed(x, reqs[h].mon, reqs[h].sess) IN
           /\ y \in Row \cup {None}
           /\ rows[b] = None => /\ y # None
                                /\ IsPending(y) /\ y.held # None
           /\ IsPending(rows[b]) => \/ y = Settled(rows[b])
                                    \/ y = None /\ rows[b].held = reqs[h].sess
           /\ rows[b] # None /\ ~IsPending(rows[b]) => ~IsPending(y)
<1> DEFINE y == Changed(x, reqs[h].mon, reqs[h].sess)
<1>1. /\ x \in Change /\ ReqOK(reqs[h]) /\ Agrees(reqs[h])
      /\ reqs[h].sess \in Sessions \cup {None} /\ reqs[h].at = "save"
  BY RequestFields DEF SavesNow
<1>2. IF x.what = "insert" THEN rows[b] = None ELSE rows[b] # None /\ gen[b] = x.gen
  BY DEF SavesNow, Saves
<1>3. rows[b] \in Row \cup {None}
  BY DEF RequestsInv, TypeInv, TypeOK
<1>4. CASE x.what = "insert"
  <2>1. reqs[h].mon \in Mons /\ reqs[h].sess \in Sessions
    BY <1>1, <1>4 DEF ReqOK
  <2>2. y = PendingRow(reqs[h].mon, reqs[h].sess)
    BY <1>4 DEF Changed
  <2>3. y \in Row /\ y.held = reqs[h].sess /\ ~y.committed
    BY <2>1, <2>2, PendingIsRow
  <2> QED
    BY <1>2, <1>4, <2>1, <2>3, NoneAssumption, NoRowAssumption DEF IsPending
<1>5. CASE x.what # "insert"
  <2>1. rows[b] \in Row /\ rows[b] # None /\ gen[b] = x.gen
    BY <1>2, <1>3, <1>5
  <2>2. CASE IsPending(rows[b])
    <3>1. x.what = "settle" \/ (x.what = "remove" /\ rows[b].held = reqs[h].sess)
      BY <1>1, <1>5, <2>1, <2>2 DEF Agrees
    <3>2. y = IF x.what = "settle" THEN Settled(rows[b]) ELSE None
      BY <3>1 DEF Changed
    <3> QED
      BY <2>1, <2>2, <3>1, <3>2, SettledIsRow, NoRowAssumption
  <2>3. CASE ~IsPending(rows[b])
    <3>1. rows[b].committed
      BY <2>1, <2>3 DEF IsPending
    <3>2. x.what \in {"hold", "free", "settle", "remove"}
      BY <1>1, <1>5 DEF Change
    <3>3. \/ y = [rows[b] EXCEPT !.held = reqs[h].sess]
          \/ y = [rows[b] EXCEPT !.held = None]
          \/ y = Settled(rows[b])
          \/ y = None
      BY <3>2 DEF Changed
    <3>4. /\ [rows[b] EXCEPT !.held = reqs[h].sess] \in Row
          /\ [rows[b] EXCEPT !.held = reqs[h].sess].committed
          /\ [rows[b] EXCEPT !.held = None] \in Row
          /\ [rows[b] EXCEPT !.held = None].committed
      BY <1>1, <2>1, <3>1 DEF Row
    <3> QED
      BY <2>1, <2>3, <3>3, <3>4, SettledIsRow DEF IsPending
  <2> QED
    BY <2>2, <2>3
<1> QED
  BY <1>4, <1>5

LEMMA SaveRowsOK ==
    ASSUME RequestsInv, NEW h \in Running, SaveRows(h)
    PROVE  /\ rows' \in Rows /\ gen' \in Generations
           /\ PendingHeld' /\ PendingOld /\ OwnOnly(h)
<1> DEFINE X(b) == {x \in reqs[h].changes : x.slot = b}
           new(b) == CHOOSE x \in reqs[h].changes : x.slot = b
           y(b) == Changed(new(b), reqs[h].mon, reqs[h].sess)
<1>1. SavesNow(h)
  BY DEF SaveRows
<1>2. rows' = [b \in BankSlots |-> IF \E x \in reqs[h].changes : x.slot = b THEN y(b) ELSE rows[b]]
  BY DEF SaveRows, SaveChanges
<1>3. rows \in Rows /\ gen \in Generations /\ PendingHeld
  BY DEF RequestsInv, TypeInv, TypeOK, Rows
<1>4. gen' = [b \in BankSlots |-> IF rows'[b] = None THEN 0
                                  ELSE IF rows[b] = None THEN NewGen(b) ELSE gen[b]]
  BY DEF SaveRows
<1>5. ASSUME NEW b \in BankSlots
      PROVE  /\ rows'[b] \in Row \cup {None}
             /\ gen'[b] \in Gens
             /\ IsPending(rows'[b]) => /\ rows'[b].held # None
                                       /\ \/ rows'[b] = rows[b] /\ gen'[b] = gen[b]
                                          \/ rows[b] = None /\ Unknown(b, gen'[b])
             /\ IsPending(rows[b]) => \/ rows'[b] \in {rows[b], Settled(rows[b])}
                                      \/ rows'[b] = None /\ rows[b].held = reqs[h].sess
  <2>1. gen'[b] \in Gens
    BY <1>3, <1>4, GensAssumption, NewGenIsUnknown DEF Generations
  <2>2. rows[b] \in Row \cup {None} /\ (IsPending(rows[b]) => rows[b].held # None)
    BY <1>3 DEF Rows, PendingHeld
  <2>3. CASE \E x \in reqs[h].changes : x.slot = b
    <3>1. new(b) \in reqs[h].changes /\ new(b).slot = b
      BY <2>3
    <3>2. rows'[b] = y(b)
      BY <1>2, <2>3
    <3>3. /\ y(b) \in Row \cup {None}
          /\ rows[b] = None => y(b) # None /\ IsPending(y(b)) /\ y(b).held # None
          /\ IsPending(rows[b]) => \/ y(b) = Settled(rows[b])
                                   \/ y(b) = None /\ rows[b].held = reqs[h].sess
          /\ rows[b] # None /\ ~IsPending(rows[b]) => ~IsPending(y(b))
      BY <1>1, <3>1, ChangeOfRow
    <3>4. rows[b] = None => Unknown(b, gen'[b])
      BY <1>4, <3>2, <3>3, NewGenIsUnknown
    <3>5. IsPending(rows[b]) => ~IsPending(rows'[b])
      BY <2>2, <3>2, <3>3, SettledIsRow DEF IsPending
    <3> HIDE DEF y, new
    <3> QED
      BY <2>1, <3>2, <3>3, <3>4, <3>5
  <2>4. CASE ~ \E x \in reqs[h].changes : x.slot = b
    <3>1. rows'[b] = rows[b]
      BY <1>2, <2>4
    <3> QED
      BY <1>4, <2>1, <2>2, <3>1 DEF IsPending
  <2> QED
    BY <2>3, <2>4
<1> HIDE DEF y, new
<1>6. rows' \in Rows
  BY <1>2, <1>5 DEF Rows
<1>7. gen' \in Generations
  BY <1>4, <1>5 DEF Generations
<1> QED
  BY <1>5, <1>6, <1>7 DEF PendingHeld, PendingOld, OwnOnly

--------------------------------------------------------------------------------
(* Steps of other handlers and of consoles leave a running handler as it was.  *)

\* The handlers other than h are as they were, and so are the phases of the
\* consoles that wait for them.
OthersKept(h) ==
    \A k \in Handlers \ {h} :
      /\ reqs'[k] = reqs[k]
      /\ k \in Running /\ reqs[k].heard => pc'[reqs[k].con] = pc[reqs[k].con]

LEMMA KeptOK ==
    ASSUME RequestsInv, NEW h, OthersKept(h), PendingOld, NEW k \in Handlers \ {h}, reqs[k] # None
    PROVE  ReqOK(reqs[k])' /\ Agrees(reqs[k])'
<1>1. k \in Running
  BY DEF Running
<1>2. /\ reqs[k] \in Request /\ ReqOK(reqs[k]) /\ Agrees(reqs[k])
      /\ \A x \in reqs[k].changes : x \in Change
  BY <1>1, RequestFields
<1>3. reqs'[k] = reqs[k] /\ (reqs[k].heard => pc'[reqs[k].con] = pc[reqs[k].con])
  BY <1>1 DEF OthersKept
<1>4. ReqOK(reqs[k])'
  BY <1>2, <1>3 DEF ReqOK
<1>5. Agrees(reqs[k])'
  <2> SUFFICES ASSUME NEW x \in reqs[k].changes, reqs[k].at = "save",
                      IsPending(rows'[x.slot]), gen'[x.slot] = x.gen
               PROVE  \/ x.what \in {"settle", "insert"}
                      \/ x.what = "remove" /\ rows'[x.slot].held = reqs[k].sess
    BY <1>3 DEF Agrees, IsPending
  <2>1. x.slot \in BankSlots
    BY <1>2 DEF Change
  <2>2. rows'[x.slot] = rows[x.slot] /\ gen'[x.slot] = gen[x.slot]
    BY <1>1, <2>1 DEF PendingOld, Unknown
  <2> QED
    BY <1>2, <2>2 DEF Agrees, IsPending
<1> QED
  BY <1>4, <1>5

\* A step of handler h, or of none, that treats its own request well.
LEMMA StepOK ==
    ASSUME RequestsInv, NEW h,
           TypeInv', gen' \in Generations, reqs' \in Requests, PendingHeld',
           OthersKept(h), PendingOld,
           h \in Handlers /\ reqs'[h] # None =>
             /\ ReqOK(reqs[h])' /\ Agrees(reqs[h])'
             /\ reqs'[h].heard => \/ h \in Running /\ reqs[h].heard /\ reqs[h].con = reqs'[h].con
                                  \/ ~Waiting(reqs'[h].con)
    PROVE  RequestsInv'
<1>1. ASSUME NEW k \in Handlers, reqs'[k] # None
      PROVE  (ReqOK(reqs[k]) /\ Agrees(reqs[k]))'
  <2>1. CASE k # h
    BY <1>1, <2>1, KeptOK DEF OthersKept
  <2>2. CASE k = h
    BY <1>1, <2>2
  <2> QED
    BY <2>1, <2>2
<1>2. ReqsOK'
  BY <1>1 DEF ReqsOK, Running
<1>3. OneHeard'
  <2> SUFFICES ASSUME NEW j \in Handlers, NEW k \in Handlers, reqs'[j] # None, reqs'[k] # None,
                      reqs'[j].heard, reqs'[k].heard, reqs'[j].con = reqs'[k].con, j # k
               PROVE  FALSE
    BY DEF OneHeard, Running
  <2>1. CASE j # h /\ k # h
    BY <2>1 DEF OthersKept, RequestsInv, OneHeard, Running
  <2>2. CASE j = h
    BY <2>2 DEF OthersKept, RequestsInv, OneHeard, Running, Waiting
  <2>3. CASE k = h
    BY <2>3 DEF OthersKept, RequestsInv, OneHeard, Running, Waiting
  <2> QED
    BY <2>1, <2>2, <2>3
<1> QED
  BY <1>2, <1>3 DEF RequestsInv

\* What a console does with an answer.
LEMMA AnsweredOK ==
    ASSUME RequestsInv, NEW h \in Running, reqs[h].heard, NEW ok \in BOOLEAN,
           Answered(reqs[h].con, reqs[h].op, ok)
    PROVE  /\ ConsoleOK'
           /\ \A d \in Consoles \ {reqs[h].con} : pc'[d] = pc[d]
<1> DEFINE c == reqs[h].con
<1>1. /\ c \in Consoles /\ reqs[h].op \in Ops /\ ReqOK(reqs[h]) /\ ConsoleOK
  BY RequestFields, TypeInvParts DEF RequestsInv
<1>2. pc \in [Consoles -> Phases]
  BY <1>1 DEF ConsoleOK
<1>3. CASE reqs[h].op \in {"open", "list"}
  BY <1>1, <1>3 DEF Answered, console, ConsoleOK, PhaseOK, CommitTries
<1>4. CASE reqs[h].op \in {"deposit", "withdraw"}
  <2>1. pc[c] = "edit"
    BY <1>1, <1>4 DEF ReqOK
  <2>2. AfterEdit(c, ok) \/ GoHome(c)
    BY <1>4 DEF Answered
  <2> QED
    BY <1>1, <1>2, <2>1, <2>2, AfterEditOK, GoHomeOK DEF AfterEdit, GoHome, Phase
<1>5. CASE reqs[h].op \in {"commit", "abandon"}
  <2>1. GoHome(c) \/ Retry(c)
    BY <1>5 DEF Answered
  <2> QED
    BY <1>1, <1>2, <2>1, RetryOK, GoHomeOK DEF Retry, GoHome, Phase
<1> QED
  BY <1>1, <1>3, <1>4, <1>5 DEF Ops

\* Nobody else waits for the console of a handler that is heard.
LEMMA OthersWait ==
    ASSUME RequestsInv, NEW h \in Running, reqs[h].heard,
           \A d \in Consoles \ {reqs[h].con} : pc'[d] = pc[d],
           \A k \in Handlers \ {h} : reqs'[k] = reqs[k]
    PROVE  OthersKept(h)
<1> SUFFICES ASSUME NEW k \in Handlers \ {h}, k \in Running, reqs[k].heard
             PROVE  pc'[reqs[k].con] = pc[reqs[k].con]
  BY DEF OthersKept
<1>1. reqs[k].con \in Consoles /\ reqs[k].con # reqs[h].con
  BY RequestFields DEF RequestsInv, OneHeard
<1> QED
  BY <1>1

LEMMA AnswerOK ==
    ASSUME RequestsInv, NEW h \in Running, NEW ok \in BOOLEAN, Answer(h, ok)
    PROVE  ConsoleOK' /\ OthersKept(h) /\ reqs' \in Requests /\ reqs'[h] = None
<1>1. reqs' = [reqs EXCEPT ![h] = None] /\ reqs \in Requests /\ ConsoleOK
  BY TypeInvParts DEF Answer, RequestsInv
<1>2. reqs' \in Requests /\ reqs'[h] = None /\ \A k \in Handlers \ {h} : reqs'[k] = reqs[k]
  BY <1>1 DEF Requests, Running
<1>3. CASE reqs[h].heard
  BY <1>2, <1>3, AnsweredOK, OthersWait DEF Answer
<1>4. CASE ~reqs[h].heard
  BY <1>1, <1>2, <1>4 DEF Answer, console, OthersKept, ConsoleOK, PhaseOK, CommitTries
<1> QED
  BY <1>2, <1>3, <1>4

--------------------------------------------------------------------------------
(* The steps, one lemma for each kind. *)

LEMMA SentOK ==
    ASSUME NEW c \in Consoles, NEW op \in Ops, NEW s \in Sessions \cup {None}
    PROVE  LET r == Sent(c, op, s) IN
           /\ r \in Request
           /\ r.con = c /\ r.op = op /\ r.sess = s /\ r.heard /\ r.at = "read" /\ r.changes = {}
BY DEF Sent, Request, Ops

\* A console sends a request.
LEMMA BeginOK ==
    ASSUME RequestsInv, NEW h \in Handlers, NEW r \in Request, Begin(h, r), ReqOK(r), r.at = "read"
    PROVE  RequestsInv'
<1>1. /\ reqs \in Requests /\ gen \in Generations /\ TypeInv /\ PendingHeld
  BY DEF RequestsInv
<1>2. reqs' = [reqs EXCEPT ![h] = r] /\ UNCHANGED <<vars, gen>> /\ ~Waiting(r.con)
  BY DEF Begin
<1>3. reqs' \in Requests /\ reqs'[h] = r /\ OthersKept(h)
  BY <1>1, <1>2 DEF Requests, OthersKept, vars
<1>4. TypeInv' /\ gen' \in Generations /\ PendingHeld' /\ PendingOld
  BY <1>1, <1>2
  DEF vars, TypeInv, TypeOK, PhaseOK, CommitTries, PendingHeld, PendingOld, IsPending
<1>5. (ReqOK(reqs[h]) /\ Agrees(reqs[h]))'
  BY <1>2, <1>3 DEF ReqOK, Agrees, vars
<1> QED
  BY <1>2, <1>3, <1>4, <1>5, StepOK

LEMMA BeginSomeOK ==
    ASSUME RequestsInv, NEW c \in Consoles, NEW h \in Handlers, BeginSome(c, h)
    PROVE  RequestsInv'
<1>1. /\ TypeInv
      /\ pc[c] # "idle" => sess[c] \in Sessions
      /\ game[c] \in Image /\ sess[c] \in Sessions \cup {None}
      /\ ActiveIds \subseteq Sessions /\ gen \in Generations
  BY DEF RequestsInv, TypeInv, TypeOK, PhaseOK, ActiveIds
<1>3. CASE BeginOpen(c, h)
  <2> DEFINE q == Sent(c, "open", None)
             r == [q EXCEPT !.img = game[c], !.live = ActiveIds]
  <2>1. q \in Request /\ q.op = "open" /\ q.at = "read" /\ q.changes = {}
    BY SentOK DEF Ops
  <2> HIDE DEF q
  <2>2. r \in Request /\ ReqOK(r) /\ r.at = "read"
    BY <1>1, <2>1 DEF Request, ReqOK
  <2> QED
    BY <1>3, <2>2, BeginOK DEF BeginOpen, q
<1>4. CASE BeginList(c, h)
  <2> DEFINE q == Sent(c, "list", None)
             r == [q EXCEPT !.live = ActiveIds]
  <2>1. q \in Request /\ q.op = "list" /\ q.at = "read" /\ q.changes = {}
    BY SentOK DEF Ops
  <2> HIDE DEF q
  <2>2. r \in Request /\ ReqOK(r) /\ r.at = "read"
    BY <1>1, <2>1 DEF Request, ReqOK
  <2> QED
    BY <1>4, <2>2, BeginOK DEF BeginList, q
<1>5. ASSUME NEW i \in SaveSlots, BeginDeposit(c, h, i)
      PROVE  RequestsInv'
  <2> DEFINE m == store[sess[c]].save[i]
             q == Sent(c, "deposit", sess[c])
             r == [q EXCEPT !.slot = i, !.mon = m]
  <2>1. store[sess[c]].save \in Image /\ m # Blank /\ pc[c] = "edit" /\ sess[c] \in Sessions
    BY <1>1, <1>5, EditSession DEF BeginDeposit
  <2>2. m \in Mons
    BY <2>1 DEF Image
  <2>3. /\ q \in Request /\ q.op = "deposit" /\ q.at = "read" /\ q.changes = {}
        /\ q.con = c /\ q.sess = sess[c]
    BY <2>1, SentOK DEF Ops
  <2> HIDE DEF m, q
  <2>4. r \in Request /\ ReqOK(r) /\ r.at = "read"
    BY <2>1, <2>2, <2>3 DEF Request, ReqOK
  <2> QED
    BY <1>5, <2>4, BeginOK DEF BeginDeposit, m, q
<1>6. ASSUME NEW i \in SaveSlots, NEW b \in BankSlots, BeginWithdraw(c, h, i, b)
      PROVE  RequestsInv'
  <2> DEFINE x == [slot |-> b, gen |-> gen[b], what |-> "hold"]
             q == Sent(c, "withdraw", sess[c])
             r == [q EXCEPT !.slot = i, !.changes = {x}]
  <2>1. x \in Change /\ x.what = "hold" /\ pc[c] = "edit" /\ sess[c] \in Sessions
    BY <1>1, <1>6 DEF Change, Generations, BeginWithdraw
  <2>2. /\ q \in Request /\ q.op = "withdraw" /\ q.at = "read"
        /\ q.con = c /\ q.sess = sess[c]
    BY <2>1, SentOK DEF Ops
  <2> HIDE DEF x, q
  <2>3. r \in Request /\ r.at = "read" /\ r.op = "withdraw" /\ r.changes = {x}
        /\ r.slot = i /\ r.con = c /\ r.sess = sess[c]
    BY <2>1, <2>2 DEF Request
  <2> HIDE DEF r
  <2>4. ReqOK(r)
    BY <2>1, <2>3 DEF ReqOK
  <2> QED
    BY <1>6, <2>3, <2>4, BeginOK DEF BeginWithdraw, x, q, r
<1>7. CASE BeginCommit(c, h)
  <2> DEFINE r == Sent(c, "commit", sess[c])
  <2>1. sess[c] \in Sessions /\ pc[c] = "commit"
    BY <1>1, <1>7 DEF BeginCommit
  <2>2. r \in Request /\ r.op = "commit" /\ r.at = "read" /\ r.changes = {}
        /\ r.con = c /\ r.sess = sess[c]
    BY <2>1, SentOK DEF Ops
  <2> HIDE DEF r
  <2>3. ReqOK(r)
    BY <2>1, <2>2 DEF ReqOK
  <2> QED
    BY <1>7, <2>2, <2>3, BeginOK DEF BeginCommit, r
<1>8. CASE BeginAbandon(c, h)
  <2> DEFINE r == Sent(c, "abandon", sess[c])
  <2>1. sess[c] \in Sessions
    BY <1>1, <1>8 DEF BeginAbandon
  <2>2. r \in Request /\ r.op = "abandon" /\ r.at = "read" /\ r.changes = {}
        /\ r.sess = sess[c]
    BY <2>1, SentOK DEF Ops
  <2> HIDE DEF r
  <2>3. ReqOK(r)
    BY <2>1, <2>2 DEF ReqOK
  <2> QED
    BY <1>8, <2>2, <2>3, BeginOK DEF BeginAbandon, r
<1> QED
  BY <1>3, <1>4, <1>5, <1>6, <1>7, <1>8 DEF BeginSome

\* A handler decides on its changes.
LEMMA DecidesOK ==
    ASSUME RequestsInv, NEW h \in Running, NEW changes \in SUBSET Change, Decides(h, changes),
           store' \in Store,
           \A x \in changes : x.what = "insert" => reqs[h].op = "deposit",
           \A x, y \in changes : x.slot = y.slot => x = y,
           \A x \in changes : IsPending(rows[x.slot]) =>
             \/ x.what \in {"settle", "insert"}
             \/ x.what = "remove" /\ rows[x.slot].held = reqs[h].sess
    PROVE  RequestsInv'
<1>1. /\ reqs \in Requests /\ gen \in Generations /\ TypeInv /\ PendingHeld
      /\ h \in Handlers /\ reqs[h] \in Request /\ ReqOK(reqs[h])
  BY RequestFields DEF RequestsInv, Running
<1> DEFINE r == [reqs[h] EXCEPT !.at = "save", !.changes = changes, !.live = {}]
<1>2. /\ reqs' = [reqs EXCEPT ![h] = r]
      /\ UNCHANGED <<rows, game, console, gen>>
  BY DEF Decides
<1>3. r \in Request /\ ReqOK(r)
  BY <1>1 DEF Request, ReqOK
<1>4. reqs' \in Requests /\ reqs'[h] = r /\ OthersKept(h)
  BY <1>1, <1>2, <1>3 DEF Requests, OthersKept, console
<1>5. /\ TypeInv' /\ gen' \in Generations /\ PendingHeld' /\ PendingOld
  BY <1>1, <1>2
  DEF Store, console, TypeInv, TypeOK, PhaseOK, CommitTries, PendingHeld, PendingOld, IsPending
<1>6. (ReqOK(reqs[h]) /\ Agrees(reqs[h]))'
  <2>1. Agrees(r)
    BY <1>1 DEF Agrees, Request
  <2> HIDE DEF r
  <2> QED
    BY <1>2, <1>3, <1>4, <2>1 DEF ReqOK, Agrees, console, IsPending
<1>7. reqs'[h].heard = reqs[h].heard /\ reqs'[h].con = reqs[h].con
  BY <1>1, <1>4 DEF Request
<1> HIDE DEF r
<1> QED
  BY <1>1, <1>4, <1>5, <1>6, <1>7, StepOK

\* A handler refuses, or throws.
LEMMA RefusesOK ==
    ASSUME RequestsInv, NEW h \in Running, Answer(h, FALSE), UNCHANGED <<rows, store, game, gen>>
    PROVE  RequestsInv'
<1>1. /\ gen \in Generations /\ TypeInv /\ PendingHeld
  BY DEF RequestsInv
<1>2. ConsoleOK' /\ OthersKept(h) /\ reqs' \in Requests /\ reqs'[h] = None
  BY AnswerOK
<1>3. /\ TypeInv' /\ gen' \in Generations /\ PendingHeld' /\ PendingOld
  BY <1>1, <1>2
  DEF ConsoleOK, TypeInv, TypeOK, PendingHeld, PendingOld, IsPending
<1> QED
  BY <1>2, <1>3, StepOK

\* The session's save gets a Pokemon, or loses one, if the session is open.
LEMMA PutInOpenSaveType ==
    ASSUME RequestsInv, NEW s \in Sessions, NEW i \in SaveSlots, NEW x \in Mons \cup {Blank}
    PROVE  PutInOpenSave(s, i, x) \in Store
<1>1. store \in Store
  BY TypeInvParts DEF RequestsInv
<1> QED
  BY <1>1, PutInSaveType DEF PutInOpenSave

LEMMA ReadOK ==
    ASSUME RequestsInv, NEW h \in Handlers,
           ReadOrphans(h) \/ ReadBoxes(h) \/ ReadPokemon(h) \/ ReadHeld(h)
    PROVE  RequestsInv' /\ UNCHANGED rows
<1> DEFINE r == reqs[h]
<1>1. h \in Running
  BY DEF ReadOrphans, ReadBoxes, ReadPokemon, ReadHeld, Reads
<1>2. /\ rows \in Rows /\ store \in Store /\ gen \in Generations /\ PendingHeld
      /\ r.con \in Consoles /\ r.sess \in Sessions \cup {None} /\ ReqOK(r)
      /\ \A x \in r.changes : x \in Change
  BY <1>1, RequestFields, TypeInvParts DEF RequestsInv
<1>3. CASE ReadOrphans(h)
  <2> DEFINE live == r.live
             W == ToReconcile(live)
  <2>1. /\ W \in SUBSET Change
        /\ \A x \in W : x.what # "insert"
        /\ \A x, y \in W : x.slot = y.slot => x = y
        /\ \A x \in W : IsPending(rows[x.slot]) => x.what = "settle"
    BY <1>2 DEF ToReconcile, Orphans, Change, Generations, IsPending
  <2>2. Decides(h, W) /\ store' = store /\ rows' = rows
    BY <1>3 DEF ReadOrphans, Decides
  <2> HIDE DEF W
  <2> QED
    BY <1>1, <1>2, <2>1, <2>2, DecidesOK
<1>4. CASE ReadBoxes(h)
  <2>1. r.op = "deposit" /\ r.sess \in Sessions /\ r.slot \in SaveSlots
    BY <1>2, <1>4 DEF ReadBoxes, Reads, ReqOK
  <2>2. ASSUME NEW b \in DestOf[r.con],
               Decides(h, {[slot |-> b, gen |-> gen[b], what |-> "insert"]}),
               store' = PutInOpenSave(r.sess, r.slot, Blank)
        PROVE  RequestsInv' /\ UNCHANGED rows
    <3> DEFINE x == [slot |-> b, gen |-> gen[b], what |-> "insert"]
    <3>1. b \in BankSlots
      BY <1>2, DestOfAssumption
    <3>2. x \in Change /\ x.what = "insert"
      BY <1>2, <3>1 DEF Change, Generations
    <3>3. store' \in Store
      BY <2>1, <2>2, PutInOpenSaveType
    <3> HIDE DEF x
    <3>4. Decides(h, {x})
      BY <2>2 DEF x
    <3>5. RequestsInv'
      BY <1>1, <2>1, <3>2, <3>3, <3>4, DecidesOK
    <3> QED
      BY <3>4, <3>5 DEF Decides
  <2>3. CASE Answer(h, FALSE) /\ UNCHANGED <<rows, store, game, gen>>
    BY <1>1, <2>3, RefusesOK
  <2> QED
    BY <1>4, <2>2, <2>3 DEF ReadBoxes
<1>5. CASE ReadPokemon(h)
  <2>1. r.op = "withdraw" /\ r.sess \in Sessions /\ r.slot \in SaveSlots
    BY <1>2, <1>5 DEF ReadPokemon, Reads, ReqOK
  <2>2. ASSUME NEW x \in Picked(r),
               Decides(h, {[x EXCEPT !.what = IF rows[x.slot].committed THEN "hold" ELSE "remove"]}),
               store' = PutInOpenSave(r.sess, r.slot, rows[x.slot].mon)
        PROVE  RequestsInv' /\ UNCHANGED rows
    <3> DEFINE y == [x EXCEPT !.what = IF rows[x.slot].committed THEN "hold" ELSE "remove"]
    <3>1. x \in Change /\ rows[x.slot] # None /\ rows[x.slot].held \in {None, r.sess}
      BY <1>2 DEF Picked
    <3>2. /\ y \in Change /\ y.slot = x.slot
          /\ y.what = IF rows[x.slot].committed THEN "hold" ELSE "remove"
      BY <3>1 DEF Change
    <3>3. rows[x.slot].mon \in Mons
      BY <1>2, <3>1 DEF Change, Rows, Row
    <3>4. store' \in Store
      BY <2>1, <2>2, <3>3, PutInOpenSaveType
    <3>5. IsPending(rows[x.slot]) => y.what = "remove" /\ rows[x.slot].held = r.sess
      BY <1>2, <3>1, <3>2 DEF Change, PendingHeld, IsPending
    <3> HIDE DEF y
    <3>6. Decides(h, {y})
      BY <2>2 DEF y
    <3>7. RequestsInv'
      BY <1>1, <3>2, <3>4, <3>5, <3>6, DecidesOK
    <3> QED
      BY <3>6, <3>7 DEF Decides
  <2>3. CASE Answer(h, FALSE) /\ UNCHANGED <<rows, store, game, gen>>
    BY <1>1, <2>3, RefusesOK
  <2> QED
    BY <1>5, <2>2, <2>3 DEF ReadPokemon
<1>6. CASE ReadHeld(h)
  <2> DEFINE u == UserOf[r.con]
  <2>1. PICK W \in {ToCommit(u, r.sess), ToAbandon(u, r.sess)} :
          Decides(h, W) /\ store' = store
    BY <1>6 DEF ReadHeld
  <2>2. /\ W \in SUBSET Change
        /\ \A x \in W : x.what # "insert"
        /\ \A x, y \in W : x.slot = y.slot => x = y
        /\ \A x \in W : IsPending(rows[x.slot]) =>
             \/ x.what = "settle"
             \/ x.what = "remove" /\ rows[x.slot].held = r.sess
    <3>1. CASE W = ToCommit(u, r.sess)
      BY <1>2, <3>1 DEF ToCommit, HeldForUser, Change, Generations, IsPending
    <3>2. CASE W = ToAbandon(u, r.sess)
      BY <1>2, <3>2 DEF ToAbandon, HeldForUser, Change, Generations, IsPending
    <3> QED
      BY <2>1, <3>1, <3>2
  <2>3. rows' = rows
    BY <2>1 DEF Decides
  <2> QED
    BY <1>1, <1>2, <2>1, <2>2, <2>3, DecidesOK
<1> QED
  BY <1>3, <1>4, <1>5, <1>6

\* A handler saves and answers, or creates its session.
LEMMA SaveOK ==
    ASSUME RequestsInv, NEW h \in Handlers,
           SaveEdit(h) \/ SaveEnd(h) \/ \E s \in Sessions : SaveOpen(h, s)
    PROVE  /\ RequestsInv'
           /\ h \in Running /\ OwnOnly(h) /\ reqs'[h] = None
<1>1. h \in Running /\ SaveRows(h)
  BY DEF SaveEdit, SaveEnd, SaveOpen, SaveRows, SavesNow
<1>2. /\ rows' \in Rows /\ gen' \in Generations
      /\ PendingHeld' /\ PendingOld /\ OwnOnly(h)
  BY <1>1, SaveRowsOK
<1>3. /\ store \in Store /\ game \in [Consoles -> Image] /\ ConsoleOK /\ reqs \in Requests
      /\ reqs[h] \in Request /\ reqs[h].con \in Consoles /\ ReqOK(reqs[h])
  BY <1>1, RequestFields, TypeInvParts DEF RequestsInv
<1>4. game' = game
  BY <1>1 DEF SaveRows
<1>5. /\ store' \in Store /\ ConsoleOK' /\ OthersKept(h)
      /\ reqs' \in Requests /\ reqs'[h] = None
  <2>1. CASE SaveEdit(h) \/ SaveEnd(h)
    <3>1. Answer(h, TRUE) /\ (store' = store \/ store' = Remove(reqs[h].sess))
      BY <2>1 DEF SaveEdit, SaveEnd
    <3> QED
      BY <1>1, <1>3, <3>1, AnswerOK, RemoveType
  <2>2. ASSUME NEW s \in Sessions, SaveOpen(h, s)
        PROVE  /\ store' \in Store /\ ConsoleOK' /\ OthersKept(h)
               /\ reqs' \in Requests /\ reqs'[h] = None
    <3> DEFINE c == reqs[h].con
    <3>1. store' \in Store
      <4>1. [user |-> UserOf[c], save |-> reqs[h].img] \in SaveSession
        BY <1>3, <2>2, UserOfAssumption DEF SaveOpen, ReqOK, SaveSession
      <4> QED
        BY <1>3, <2>2, <4>1 DEF SaveOpen, Create, Store
    <3>2. reqs' = [reqs EXCEPT ![h] = None]
      BY <2>2 DEF SaveOpen
    <3>3. /\ reqs' \in Requests /\ reqs'[h] = None
          /\ \A k \in Handlers \ {h} : reqs'[k] = reqs[k]
      BY <1>3, <3>2 DEF Requests
    <3>4. CASE reqs[h].heard
      <4>1. /\ Phase(c, "edit") /\ sess' = [sess EXCEPT ![c] = s]
            /\ UNCHANGED <<dirty, file, tries>>
        BY <2>2, <3>4 DEF SaveOpen
      <4>2. ConsoleOK'
        BY <1>3, <4>1, NoneAssumption DEF Phase, ConsoleOK, PhaseOK, Phases, CommitTries
      <4>3. \A d \in Consoles \ {c} : pc'[d] = pc[d]
        BY <1>3, <4>1 DEF Phase, ConsoleOK
      <4> QED
        BY <1>1, <3>1, <3>3, <3>4, <4>2, <4>3, OthersWait
    <3>5. CASE ~reqs[h].heard
      BY <1>3, <2>2, <3>1, <3>3, <3>5
      DEF SaveOpen, console, OthersKept, ConsoleOK, PhaseOK, CommitTries
    <3> QED
      BY <3>4, <3>5
  <2> QED
    BY <2>1, <2>2
<1>6. TypeInv'
  BY <1>2, <1>3, <1>4, <1>5 DEF TypeInv, TypeOK, ConsoleOK, Rows, Store
<1> QED
  BY <1>1, <1>2, <1>5, <1>6, StepOK

LEMMA LoseConnectionOK ==
    ASSUME RequestsInv, NEW h \in Handlers, LoseConnection(h)
    PROVE  RequestsInv'
<1>1. h \in Running /\ reqs[h].heard
  BY DEF LoseConnection
<1>2. /\ reqs \in Requests /\ gen \in Generations /\ TypeInv /\ PendingHeld
      /\ reqs[h] \in Request /\ ReqOK(reqs[h]) /\ Agrees(reqs[h])
  BY <1>1, RequestFields DEF RequestsInv
<1> PICK r : r = [reqs[h] EXCEPT !.heard = FALSE]
  OBVIOUS
<1>3. reqs' = [reqs EXCEPT ![h] = r] /\ UNCHANGED <<rows, store, game, gen>>
  BY DEF LoseConnection
<1>4. r \in Request /\ ~r.heard
  BY <1>2 DEF Request
<1>5. /\ reqs' \in Requests /\ reqs'[h] = r
      /\ \A k \in Handlers \ {h} : reqs'[k] = reqs[k]
  BY <1>2, <1>3, <1>4 DEF Requests
<1>6. ConsoleOK' /\ OthersKept(h)
  BY <1>1, <1>5, AnsweredOK, OthersWait DEF LoseConnection
<1>7. TypeInv' /\ gen' \in Generations /\ PendingHeld' /\ PendingOld
  BY <1>2, <1>3, <1>6 DEF TypeInv, TypeOK, ConsoleOK, PendingHeld, PendingOld, IsPending
<1>8. ReqOK(reqs[h])' /\ Agrees(reqs[h])'
  <2>1. ReqOK(r)' /\ Agrees(r)'
    BY <1>2, <1>3 DEF ReqOK, Agrees, Request, IsPending
  <2> QED
    BY <1>5, <2>1 DEF ReqOK, Agrees
<1> QED
  BY <1>4, <1>5, <1>6, <1>7, <1>8, StepOK

LEMMA CancelOK ==
    ASSUME RequestsInv, NEW h \in Handlers, Cancel(h)
    PROVE  RequestsInv'
<1>1. /\ reqs \in Requests /\ gen \in Generations /\ TypeInv /\ PendingHeld
  BY DEF RequestsInv
<1>2. reqs' = [reqs EXCEPT ![h] = None] /\ UNCHANGED <<vars, gen>>
  BY DEF Cancel
<1>3. reqs' \in Requests /\ reqs'[h] = None /\ OthersKept(h)
  BY <1>1, <1>2 DEF Requests, OthersKept, vars
<1>4. TypeInv' /\ gen' \in Generations /\ PendingHeld' /\ PendingOld
  BY <1>1, <1>2
  DEF vars, TypeInv, TypeOK, PhaseOK, CommitTries, PendingHeld, PendingOld, IsPending
<1> QED
  BY <1>3, <1>4, StepOK

\* Steps of Transfer that no handler takes part in: the handlers stay as they are,
\* except that the console of the step may stop to wait for them.
LEMMA QuietOK ==
    ASSUME RequestsInv, Next, UNCHANGED <<rows, gen>>, NEW D \in SUBSET Consoles,
           \A d \in Consoles \ D : pc'[d] = pc[d],
           reqs' = [h \in Handlers |-> IF h \in Running /\ reqs[h].con \in D
                                         THEN [reqs[h] EXCEPT !.heard = FALSE] ELSE reqs[h]]
    PROVE  RequestsInv'
<1>1. /\ reqs \in Requests /\ gen \in Generations /\ TypeInv /\ PendingHeld /\ OneHeard
  BY DEF RequestsInv
<1>2. TypeInv' /\ gen' \in Generations /\ PendingHeld'
  BY <1>1, TypeStep DEF PendingHeld, IsPending
<1>3. ASSUME NEW h \in Handlers, reqs'[h] # None
      PROVE  /\ h \in Running
             /\ reqs'[h] \in Request
             /\ reqs'[h].con = reqs[h].con
             /\ reqs'[h].heard => reqs[h].heard /\ pc'[reqs[h].con] = pc[reqs[h].con]
             /\ ReqOK(reqs[h])' /\ Agrees(reqs[h])'
  <2>1. h \in Running
    BY <1>3 DEF Running
  <2>2. reqs[h] \in Request /\ ReqOK(reqs[h]) /\ Agrees(reqs[h]) /\ reqs[h].con \in Consoles
    BY <2>1, RequestFields
  <2>3. CASE reqs[h].con \in D
    <3> PICK r : r = [reqs[h] EXCEPT !.heard = FALSE]
      OBVIOUS
    <3>1. reqs'[h] = r
      BY <2>1, <2>3
    <3>2. r \in Request /\ ~r.heard /\ r.con = reqs[h].con
      BY <2>2 DEF Request
    <3>3. ReqOK(r)' /\ Agrees(r)'
      BY <2>2 DEF ReqOK, Agrees, Request, IsPending
    <3> QED
      BY <2>1, <3>1, <3>2, <3>3 DEF ReqOK, Agrees
  <2>4. CASE reqs[h].con \notin D
    <3>1. reqs'[h] = reqs[h] /\ pc'[reqs[h].con] = pc[reqs[h].con]
      BY <2>2, <2>4
    <3> QED
      BY <2>1, <2>2, <3>1 DEF ReqOK, Agrees, IsPending
  <2> QED
    BY <2>3, <2>4
<1>4. reqs' \in Requests
  BY <1>3 DEF Requests
<1>5. OneHeard' /\ ReqsOK'
  BY <1>1, <1>3 DEF OneHeard, ReqsOK, Running
<1> QED
  BY <1>2, <1>4, <1>5 DEF RequestsInv

LEMMA LocalOK ==
    ASSUME RequestsInv, NEW c \in Consoles, LocalStep(c) \/ SwitchOff(c)
    PROVE  RequestsInv' /\ UNCHANGED rows
<1>1. pc \in [Consoles -> Phases] /\ reqs \in Requests
  BY DEF RequestsInv, TypeInv, TypeOK
<1>2. UNCHANGED <<rows, gen>> /\ \A d \in Consoles \ {c} : pc'[d] = pc[d]
  BY <1>1
  DEF LocalStep, SwitchOff, Crash, ChooseWrite, LeaveBoxes, SwitchGivesUp, Download,
      DownloadFails, WriteSave, WriteFails, TornWrite, GoHome, Phase
<1>3. Next
  BY DEF LocalStep, SwitchOff, Next, ConsoleNext, RunOn
<1>4. reqs' = [h \in Handlers |-> IF h \in Running /\ reqs[h].con \in {c}
                                    THEN [reqs[h] EXCEPT !.heard = FALSE] ELSE reqs[h]]
  <2>1. CASE LocalStep(c)
    <3>1. reqs' = reqs /\ ~Waiting(c)
      BY <2>1 DEF LocalStep
    <3>2. ASSUME NEW h \in Running, reqs[h].con = c
          PROVE  [reqs[h] EXCEPT !.heard = FALSE] = reqs[h]
      <4>1. ~reqs[h].heard /\ reqs[h] \in Request
        BY <3>1, <3>2, RequestFields DEF Waiting
      <4> QED
        BY <4>1 DEF Request
    <3> QED
      BY <1>1, <3>1, <3>2 DEF Requests
  <2>2. CASE SwitchOff(c)
    BY <2>2 DEF SwitchOff
  <2> QED
    BY <2>1, <2>2
<1> QED
  BY <1>2, <1>3, <1>4, QuietOK

LEMMA ExpireOK ==
    ASSUME RequestsInv, NEW s \in Sessions, ExpireSession(s)
    PROVE  RequestsInv' /\ UNCHANGED rows
<1>1. reqs \in Requests
  BY DEF RequestsInv
<1>2. /\ UNCHANGED <<rows, gen>> /\ pc' = pc /\ Next
      /\ reqs' = [h \in Handlers |-> IF h \in Running /\ reqs[h].con \in {}
                                      THEN [reqs[h] EXCEPT !.heard = FALSE] ELSE reqs[h]]
  BY <1>1 DEF ExpireSession, Expire, console, Next, Requests
<1>3. {} \in SUBSET Consoles /\ \A d \in Consoles \ {} : pc'[d] = pc[d]
  BY <1>2
<1> QED
  BY <1>2, <1>3, QuietOK

--------------------------------------------------------------------------------

LEMMA RequestsInitOK == RequestsInit => RequestsInv
<1> SUFFICES ASSUME RequestsInit PROVE RequestsInv
  OBVIOUS
<1>1. TypeInv
  BY InitType DEF RequestsInit
<1>2. gen \in Generations /\ reqs \in Requests /\ Running = {}
  BY GensAssumption DEF RequestsInit, Generations, Requests, Running
<1>3. PendingHeld
  <2> SUFFICES ASSUME NEW b \in BankSlots, IsPending(rows[b]) PROVE FALSE
    BY DEF PendingHeld
  <2>1. PICK m \in Mons : rows[b] = Settled(PendingRow(m, None))
    BY DEF RequestsInit, Init, IsPending
  <2>2. rows[b].committed
    BY <2>1, PendingIsRow, SettledIsRow
  <2> QED
    BY <2>2 DEF IsPending
<1> QED
  BY <1>1, <1>2, <1>3 DEF RequestsInv, OneHeard, ReqsOK

\* What PendingIsOwn says of one step.
OwnStep ==
    \A b \in BankSlots : IsPending(rows[b]) =>
      \/ rows'[b] \in {rows[b], Settled(rows[b])}
      \/ /\ rows'[b] = None
         /\ \E h \in Running : reqs[h].sess = rows[b].held /\ reqs'[h] = None

LEMMA RequestsStep == RequestsInv /\ [RequestsNext]_allVars => RequestsInv' /\ OwnStep
<1> SUFFICES ASSUME RequestsInv, [RequestsNext]_allVars PROVE RequestsInv' /\ OwnStep
  OBVIOUS
<1>1. ASSUME NEW c \in Consoles, NEW h \in Handlers, BeginSome(c, h)
      PROVE  RequestsInv' /\ OwnStep
  <2>1. UNCHANGED rows
    BY <1>1 DEF BeginSome, BeginOpen, BeginList, BeginDeposit, BeginWithdraw, BeginCommit,
                BeginAbandon, Begin, vars
  <2> QED
    BY <1>1, <2>1, BeginSomeOK DEF OwnStep
<1>2. ASSUME NEW c \in Consoles, LocalStep(c) \/ SwitchOff(c)
      PROVE  RequestsInv' /\ OwnStep
  BY <1>2, LocalOK DEF OwnStep
<1>3. ASSUME NEW h \in Handlers,
             ReadOrphans(h) \/ ReadBoxes(h) \/ ReadPokemon(h) \/ ReadHeld(h)
      PROVE  RequestsInv' /\ OwnStep
  BY <1>3, ReadOK DEF OwnStep
<1>4. ASSUME NEW h \in Handlers,
             SaveEdit(h) \/ SaveEnd(h) \/ \E s \in Sessions : SaveOpen(h, s)
      PROVE  RequestsInv' /\ OwnStep
  BY <1>4, SaveOK DEF OwnStep, OwnOnly
<1>5. ASSUME NEW h \in Handlers, SaveThrows(h)
      PROVE  RequestsInv' /\ OwnStep
  BY <1>5, RefusesOK DEF SaveThrows, OwnStep
<1>6. ASSUME NEW h \in Handlers, LoseConnection(h)
      PROVE  RequestsInv' /\ OwnStep
  BY <1>6, LoseConnectionOK DEF LoseConnection, OwnStep
<1>7. ASSUME NEW h \in Handlers, Cancel(h)
      PROVE  RequestsInv' /\ OwnStep
  BY <1>7, CancelOK DEF Cancel, vars, OwnStep
<1>8. ASSUME NEW s \in Sessions, ExpireSession(s)
      PROVE  RequestsInv' /\ OwnStep
  BY <1>8, ExpireOK DEF OwnStep
<1>9. CASE UNCHANGED allVars
  BY <1>9
  DEF allVars, vars, RequestsInv, TypeInv, TypeOK, PhaseOK, CommitTries, PendingHeld,
      OneHeard, ReqsOK, ReqOK, Agrees, Running, IsPending, OwnStep
<1> QED
  BY <1>1, <1>2, <1>3, <1>4, <1>5, <1>6, <1>7, <1>8, <1>9 DEF RequestsNext, RunHandler

THEOREM RequestsInvariant == RequestsSpec => []RequestsInv
<1> QED
  BY RequestsInitOK, RequestsStep, PTL DEF RequestsSpec

\* Handlers that run at the same time keep the types of the database, of the store,
\* of the consoles and of their own locals.
THEOREM RequestsTypeCorrect == RequestsSpec => []RequestsTypeOK
<1>1. RequestsInv => RequestsTypeOK
  BY DEF RequestsInv, RequestsTypeOK, TypeInv, Requests, Generations
<1> QED
  BY <1>1, RequestsInvariant, PTL

\* However handlers interleave, whatever is lost, cancelled, torn, expired or
\* switched off: a pending deposit leaves the bank only by a request of its own
\* session (BankService.cs:116-119, 150-179, 234-237).
THEOREM PendingStaysOwn == RequestsSpec => PendingIsOwn
<1>1. RequestsInv /\ [RequestsNext]_allVars =>
        [\A b \in BankSlots : IsPending(rows[b]) =>
           \/ rows'[b] \in {rows[b], Settled(rows[b])}
           \/ /\ rows'[b] = None
              /\ \E h \in Running : reqs[h].sess = rows[b].held /\ reqs'[h] = None]_allVars
  BY RequestsStep DEF OwnStep
<1> QED
  BY <1>1, RequestsInvariant, PTL DEF RequestsSpec, PendingIsOwn
--------------------------------------------------------------------------------
(* The end of a session.  Unless a console gives a call up and goes on with    *)
(* the session, one handler at a time works for a session, so nobody takes a   *)
(* row for it between the query of its commit or DELETE and what that saves.   *)

Editing == {"deposit", "withdraw"}
Ending == {"commit", "abandon"}

AloneInSession ==
    \A h, k \in Running : reqs[h].sess = reqs[k].sess /\ reqs[h].sess # None => h = k

\* The console that has the session of a request is the one that waits for it.
OwnerWaits ==
    \A h \in Running, c \in Consoles :
      reqs[h].sess = sess[c] /\ sess[c] # None => reqs[h].heard /\ reqs[h].con = c

\* A session whose console was switched off holds rows of its user too.
SessionHoldsOwn ==
    \A h \in Running, b \in BankSlots :
      rows[b] # None /\ rows[b].held # None /\ rows[b].held = reqs[h].sess
        => BankOwner[b] = UserOf[reqs[h].con]

\* Only edits take rows, for the session and from the boxes of the user.
TakesOwn(r) ==
    /\ r.op \in {"open", "list"} => r.sess = None
    /\ r.at = "save" =>
         \A x \in r.changes : x.what \in {"insert", "hold"} =>
           r.op \in Editing /\ BankOwner[x.slot] = UserOf[r.con]

\* The rows that an end of a session selected are all that the session holds.
Selected(r) ==
    r.op \in Ending /\ r.at = "save" =>
      \A b \in BankSlots : rows[b] # None /\ rows[b].held = r.sess =>
        \E x \in r.changes : x.slot = b

EndInv ==
    /\ SessionsUnique /\ HoldsAreOwn
    /\ AloneInSession /\ OwnerWaits /\ SessionHoldsOwn
    /\ \A h \in Running : TakesOwn(reqs[h]) /\ Selected(reqs[h])

\* A session that nothing refers to.
Fresh(s) ==
    /\ \A c \in Consoles : sess[c] # s
    /\ \A h \in Running : reqs[h].sess # s
    /\ \A b \in BankSlots : rows[b] # None => rows[b].held # s

\* What steps do to the sessions of consoles, to the handlers that run on, and to
\* the rows that are held: the handler h, which ends, may take some for its session.
SessKept ==
    \A c \in Consoles :
      \/ sess'[c] \in {sess[c], None}
      \/ Fresh(sess'[c]) /\ \A d \in Consoles \ {c} : sess'[d] = sess[d]

RunOnAlike ==
    \A k \in Handlers : reqs'[k] # None =>
      /\ k \in Running
      /\ \/ reqs'[k] = reqs[k]
         \/ /\ reqs'[k] = [reqs[k] EXCEPT !.heard = FALSE]
            /\ sess'[reqs[k].con] = None

TakenBy(h) ==
    \A b \in BankSlots : rows'[b] # None /\ rows'[b].held # None =>
      \/ rows[b] # None /\ rows'[b].held = rows[b].held
      \/ /\ h \in Running /\ reqs'[h] = None
         /\ rows'[b].held = reqs[h].sess /\ BankOwner[b] = UserOf[reqs[h].con]

LEMMA RunOnEnd ==
    ASSUME RequestsInv, EndInv, NEW h, SessKept, RunOnAlike, TakenBy(h)
    PROVE  EndInv'
<1>1. /\ SessionsUnique /\ HoldsAreOwn
      /\ AloneInSession /\ OwnerWaits /\ SessionHoldsOwn
      /\ \A k \in Running : TakesOwn(reqs[k]) /\ Selected(reqs[k])
  BY DEF EndInv
<1>2. ASSUME NEW k \in Handlers, reqs'[k] # None
      PROVE  /\ k \in Running /\ reqs[k].con \in Consoles /\ ReqOK(reqs[k])
             /\ reqs'[k].sess = reqs[k].sess /\ reqs'[k].con = reqs[k].con
             /\ reqs'[k].op = reqs[k].op /\ reqs'[k].at = reqs[k].at
             /\ reqs'[k].changes = reqs[k].changes
             /\ reqs'[k].heard = reqs[k].heard \/ sess'[reqs[k].con] = None
  <2>1. k \in Running
    BY <1>2 DEF RunOnAlike
  <2>2. reqs[k] \in Request /\ reqs[k].con \in Consoles /\ ReqOK(reqs[k])
    BY <2>1, RequestFields
  <2>3. \/ reqs'[k] = reqs[k]
        \/ reqs'[k] = [reqs[k] EXCEPT !.heard = FALSE] /\ sess'[reqs[k].con] = None
    BY <1>2 DEF RunOnAlike
  <2> QED
    BY <2>1, <2>2, <2>3 DEF Request
<1>3. SessionsUnique'
  BY <1>1 DEF SessionsUnique, SessKept, Fresh
<1>4. AloneInSession'
  BY <1>1, <1>2 DEF AloneInSession, Running
<1>5. OwnerWaits'
  <2> SUFFICES ASSUME NEW k \in Handlers, reqs'[k] # None, NEW c \in Consoles,
                      reqs'[k].sess = sess'[c], sess'[c] # None
               PROVE  reqs'[k].heard /\ reqs'[k].con = c
    BY DEF OwnerWaits, Running
  <2>1. k \in Running /\ reqs[k].sess = sess'[c]
    BY <1>2
  <2>2. sess'[c] = sess[c]
    BY <2>1 DEF SessKept, Fresh
  <2>3. reqs[k].heard /\ reqs[k].con = c
    BY <1>1, <2>1, <2>2 DEF OwnerWaits
  <2> QED
    BY <1>2, <2>3
<1>6. HoldsAreOwn'
  <2> SUFFICES ASSUME NEW b \in BankSlots, NEW c \in Consoles,
                      rows'[b] # None, rows'[b].held # None, rows'[b].held = sess'[c]
               PROVE  BankOwner[b] = UserOf[c]
    BY DEF HoldsAreOwn
  <2>1. CASE rows[b] # None /\ rows'[b].held = rows[b].held
    <3>1. sess'[c] = sess[c]
      BY <2>1 DEF SessKept, Fresh
    <3> QED
      BY <1>1, <2>1, <3>1 DEF HoldsAreOwn
  <2>2. CASE /\ h \in Running /\ reqs'[h] = None
             /\ rows'[b].held = reqs[h].sess /\ BankOwner[b] = UserOf[reqs[h].con]
    <3>1. sess'[c] = sess[c]
      BY <2>2 DEF SessKept, Fresh
    <3>2. reqs[h].con = c
      BY <1>1, <2>2, <3>1 DEF OwnerWaits
    <3> QED
      BY <2>2, <3>2
  <2> QED
    BY <2>1, <2>2 DEF TakenBy
<1>7. ASSUME NEW k \in Handlers, reqs'[k] # None, NEW b \in BankSlots,
             rows'[b] # None, rows'[b].held # None, rows'[b].held = reqs'[k].sess
      PROVE  rows[b] # None /\ rows[b].held = rows'[b].held
  <2>1. k \in Running /\ reqs'[k].sess = reqs[k].sess
    BY <1>2, <1>7
  <2>2. CASE h \in Running /\ reqs'[h] = None /\ rows'[b].held = reqs[h].sess
    <3>1. h = k
      BY <1>1, <1>7, <2>1, <2>2 DEF AloneInSession
    <3> QED
      BY <1>7, <2>2, <3>1
  <2> QED
    BY <1>7, <2>2 DEF TakenBy
<1>8. SessionHoldsOwn'
  BY <1>1, <1>2, <1>7 DEF SessionHoldsOwn, Running
<1>9. ASSUME NEW k \in Handlers, reqs'[k] # None
      PROVE  TakesOwn(reqs[k])' /\ Selected(reqs[k])'
  <2>1. TakesOwn(reqs[k]) /\ Selected(reqs[k])
    BY <1>1, <1>2, <1>9
  <2>2. TakesOwn(reqs[k])'
    BY <1>2, <1>9, <2>1 DEF TakesOwn
  <2>3. Selected(reqs[k])'
    <3> SUFFICES ASSUME reqs'[k].op \in Ending, reqs'[k].at = "save", NEW b \in BankSlots,
                        rows'[b] # None, rows'[b].held = reqs'[k].sess
                 PROVE  \E x \in reqs'[k].changes : x.slot = b
      BY DEF Selected
    <3>1. reqs[k].sess \in Sessions
      BY <1>2, <1>9 DEF ReqOK, Ending
    <3>2. rows[b] # None /\ rows[b].held = reqs[k].sess
      BY <1>2, <1>7, <1>9, <3>1, NoneAssumption
    <3> QED
      BY <1>2, <1>9, <2>1, <3>2 DEF Selected
  <2> QED
    BY <2>2, <2>3
<1> QED
  BY <1>3, <1>4, <1>5, <1>6, <1>8, <1>9 DEF EndInv, Running

\* A console sends a request: for its own session, or for none.
LEMMA BeginEnd ==
    ASSUME RequestsInv, EndInv, NEW h \in Handlers, NEW r \in Request, Begin(h, r),
           r.at = "read", r.heard,
           r.sess \in {None, sess[r.con]},
           r.op \in {"open", "list"} => r.sess = None
    PROVE  EndInv'
<1>1. /\ SessionsUnique /\ HoldsAreOwn
      /\ AloneInSession /\ OwnerWaits /\ SessionHoldsOwn
      /\ \A k \in Running : TakesOwn(reqs[k]) /\ Selected(reqs[k])
      /\ reqs \in Requests
  BY DEF EndInv, RequestsInv
<1>2. /\ h \notin Running /\ ~Waiting(r.con) /\ r.con \in Consoles
      /\ reqs' = [reqs EXCEPT ![h] = r] /\ UNCHANGED <<vars, gen>>
  BY DEF Begin, Request
<1>3. rows' = rows /\ sess' = sess
  BY <1>2 DEF vars
<1>4. /\ reqs'[h] = r
      /\ \A k \in Handlers \ {h} : reqs'[k] = reqs[k]
      /\ \A k \in Handlers \ {h} : k \in Running <=> reqs'[k] # None
  BY <1>1, <1>2 DEF Requests, Running
<1>5. \A k \in Running : k # h /\ (r.sess # None => reqs[k].sess # r.sess)
  BY <1>1, <1>2 DEF OwnerWaits, Waiting
<1>6. SessionsUnique' /\ HoldsAreOwn'
  BY <1>1, <1>3 DEF SessionsUnique, HoldsAreOwn
<1>7. AloneInSession'
  <2> SUFFICES ASSUME NEW j \in Handlers, NEW k \in Handlers, reqs'[j] # None, reqs'[k] # None,
                      reqs'[j].sess = reqs'[k].sess, reqs'[j].sess # None, j # k
               PROVE  FALSE
    BY DEF AloneInSession, Running
  <2>1. CASE j # h /\ k # h
    BY <1>1, <1>4, <2>1 DEF AloneInSession
  <2>2. CASE j = h
    BY <1>4, <1>5, <2>2
  <2>3. CASE k = h
    BY <1>4, <1>5, <2>3
  <2> QED
    BY <2>1, <2>2, <2>3
<1>8. OwnerWaits'
  <2> SUFFICES ASSUME NEW k \in Handlers, reqs'[k] # None, NEW c \in Consoles,
                      reqs'[k].sess = sess[c], sess[c] # None
               PROVE  reqs'[k].heard /\ reqs'[k].con = c
    BY <1>3 DEF OwnerWaits, Running
  <2>1. CASE k # h
    BY <1>1, <1>4, <2>1 DEF OwnerWaits
  <2>2. CASE k = h
    BY <1>1, <1>2, <1>4, <2>2 DEF SessionsUnique
  <2> QED
    BY <2>1, <2>2
<1>9. SessionHoldsOwn'
  <2> SUFFICES ASSUME NEW k \in Handlers, reqs'[k] # None, NEW b \in BankSlots,
                      rows[b] # None, rows[b].held # None, rows[b].held = reqs'[k].sess
               PROVE  BankOwner[b] = UserOf[reqs'[k].con]
    BY <1>3 DEF SessionHoldsOwn, Running
  <2>1. CASE k # h
    BY <1>1, <1>4, <2>1 DEF SessionHoldsOwn
  <2>2. CASE k = h
    BY <1>1, <1>2, <1>4, <2>2 DEF HoldsAreOwn
  <2> QED
    BY <2>1, <2>2
<1>10. ASSUME NEW k \in Handlers, reqs'[k] # None
       PROVE  TakesOwn(reqs[k])' /\ Selected(reqs[k])'
  <2>1. CASE k # h
    BY <1>1, <1>3, <1>4, <1>10, <2>1 DEF TakesOwn, Selected
  <2>2. CASE k = h
    BY <1>3, <1>4, <2>2 DEF TakesOwn, Selected
  <2> QED
    BY <2>1, <2>2
<1> QED
  BY <1>6, <1>7, <1>8, <1>9, <1>10 DEF EndInv, Running

LEMMA BeginSomeEnd ==
    ASSUME RequestsInv, EndInv, NEW c \in Consoles, NEW h \in Handlers, BeginSome(c, h)
    PROVE  EndInv'
<1>1. /\ game[c] \in Image /\ sess[c] \in Sessions \cup {None}
      /\ ActiveIds \subseteq Sessions /\ gen \in Generations
  BY DEF RequestsInv, TypeInv, TypeOK, ActiveIds
<1>2. ASSUME NEW r \in Request, Begin(h, r), r.con = c, r.heard, r.at = "read",
             r.sess \in {None, sess[c]}, r.op \in {"open", "list"} => r.sess = None
      PROVE  EndInv'
  BY <1>2, BeginEnd
<1>3. CASE BeginOpen(c, h)
  <2> DEFINE q == Sent(c, "open", None)
             r == [q EXCEPT !.img = game[c], !.live = ActiveIds]
  <2>1. q \in Request /\ q.sess = None /\ q.at = "read" /\ q.con = c /\ q.heard
    BY SentOK DEF Ops
  <2> HIDE DEF q
  <2>2. r \in Request /\ r.sess = None /\ r.at = "read" /\ r.con = c /\ r.heard
    BY <1>1, <2>1 DEF Request
  <2>3. Begin(h, r)
    BY <1>3 DEF BeginOpen, q
  <2> HIDE DEF r
  <2> QED
    BY <1>2, <2>2, <2>3
<1>4. CASE BeginList(c, h)
  <2> DEFINE q == Sent(c, "list", None)
             r == [q EXCEPT !.live = ActiveIds]
  <2>1. q \in Request /\ q.sess = None /\ q.at = "read" /\ q.con = c /\ q.heard
    BY SentOK DEF Ops
  <2> HIDE DEF q
  <2>2. r \in Request /\ r.sess = None /\ r.at = "read" /\ r.con = c /\ r.heard
    BY <1>1, <2>1 DEF Request
  <2>3. Begin(h, r)
    BY <1>4 DEF BeginList, q
  <2> HIDE DEF r
  <2> QED
    BY <1>2, <2>2, <2>3
<1>5. ASSUME NEW i \in SaveSlots, BeginDeposit(c, h, i)
      PROVE  EndInv'
  <2> DEFINE m == store[sess[c]].save[i]
             q == Sent(c, "deposit", sess[c])
             r == [q EXCEPT !.slot = i, !.mon = m]
  <2>1. store[sess[c]].save \in Image /\ m # Blank
    BY <1>5, EditSession DEF BeginDeposit, RequestsInv
  <2>2. m \in Mons
    BY <2>1 DEF Image
  <2>3. /\ q \in Request /\ q.op = "deposit" /\ q.at = "read" /\ q.heard
        /\ q.con = c /\ q.sess = sess[c]
    BY <1>1, SentOK DEF Ops
  <2>4. Begin(h, r)
    BY <1>5 DEF BeginDeposit
  <2> HIDE DEF m, q
  <2>5. /\ r \in Request /\ r.op = "deposit" /\ r.at = "read" /\ r.heard
        /\ r.con = c /\ r.sess = sess[c]
    BY <2>2, <2>3 DEF Request
  <2> HIDE DEF r
  <2> QED
    BY <1>2, <2>4, <2>5
<1>6. ASSUME NEW i \in SaveSlots, NEW b \in BankSlots, BeginWithdraw(c, h, i, b)
      PROVE  EndInv'
  <2> DEFINE x == [slot |-> b, gen |-> gen[b], what |-> "hold"]
             q == Sent(c, "withdraw", sess[c])
             r == [q EXCEPT !.slot = i, !.changes = {x}]
  <2>1. x \in Change
    BY <1>1 DEF Change, Generations
  <2>2. /\ q \in Request /\ q.op = "withdraw" /\ q.at = "read" /\ q.heard
        /\ q.con = c /\ q.sess = sess[c]
    BY <1>1, SentOK DEF Ops
  <2>3. Begin(h, r)
    BY <1>6 DEF BeginWithdraw
  <2> HIDE DEF x, q
  <2>4. /\ r \in Request /\ r.op = "withdraw" /\ r.at = "read" /\ r.heard
        /\ r.con = c /\ r.sess = sess[c]
    BY <2>1, <2>2 DEF Request
  <2> HIDE DEF r
  <2> QED
    BY <1>2, <2>3, <2>4
<1>7. ASSUME NEW op \in Ending, Begin(h, Sent(c, op, sess[c]))
      PROVE  EndInv'
  <2> DEFINE r == Sent(c, op, sess[c])
  <2>1. op \in Ops
    BY DEF Ending, Ops
  <2>2. /\ r \in Request /\ r.op = op /\ r.at = "read" /\ r.heard
        /\ r.con = c /\ r.sess = sess[c]
    BY <1>1, <2>1, SentOK
  <2>3. Begin(h, r)
    BY <1>7
  <2> HIDE DEF r
  <2> QED
    BY <1>2, <2>2, <2>3 DEF Ending
<1>8. CASE BeginCommit(c, h) \/ BeginAbandon(c, h)
  BY <1>7, <1>8 DEF BeginCommit, BeginAbandon, Ending
<1> QED
  BY <1>3, <1>4, <1>5, <1>6, <1>8 DEF BeginSome

\* A handler decides on its changes.
LEMMA DecidesEnd ==
    ASSUME RequestsInv, EndInv, NEW h \in Running, NEW changes \in SUBSET Change,
           Decides(h, changes),
           \A x \in changes : x.what \in {"insert", "hold"} =>
             reqs[h].op \in Editing /\ BankOwner[x.slot] = UserOf[reqs[h].con],
           reqs[h].op \in Ending =>
             \A b \in BankSlots : rows[b] # None /\ rows[b].held = reqs[h].sess =>
               \E x \in changes : x.slot = b
    PROVE  EndInv'
<1> DEFINE r == [reqs[h] EXCEPT !.at = "save", !.changes = changes, !.live = {}]
<1>1. /\ reqs \in Requests /\ h \in Handlers /\ reqs[h] \in Request
      /\ SessionsUnique /\ HoldsAreOwn
      /\ AloneInSession /\ OwnerWaits /\ SessionHoldsOwn
      /\ \A k \in Running : TakesOwn(reqs[k]) /\ Selected(reqs[k])
  BY RequestFields DEF EndInv, RequestsInv, Running
<1>2. /\ reqs' = [reqs EXCEPT ![h] = r] /\ rows' = rows /\ sess' = sess
  BY DEF Decides, console
<1>3. /\ r.con = reqs[h].con /\ r.sess = reqs[h].sess /\ r.heard = reqs[h].heard
      /\ r.op = reqs[h].op /\ r.changes = changes /\ r.at = "save"
  BY <1>1 DEF Request
<1> HIDE DEF r
<1>4. ASSUME NEW k \in Handlers, reqs'[k] # None
      PROVE  /\ k \in Running
             /\ reqs'[k].con = reqs[k].con /\ reqs'[k].sess = reqs[k].sess
             /\ reqs'[k].heard = reqs[k].heard
             /\ IF k = h THEN reqs'[k] = r ELSE reqs'[k] = reqs[k]
  BY <1>1, <1>2, <1>3, <1>4 DEF Requests, Running
<1>5. SessionsUnique' /\ HoldsAreOwn'
  BY <1>1, <1>2 DEF SessionsUnique, HoldsAreOwn
<1>6. AloneInSession' /\ OwnerWaits' /\ SessionHoldsOwn'
  <2>1. AloneInSession'
    BY <1>1, <1>4 DEF AloneInSession, Running
  <2>2. OwnerWaits'
    BY <1>1, <1>2, <1>4 DEF OwnerWaits, Running
  <2>3. SessionHoldsOwn'
    BY <1>1, <1>2, <1>4 DEF SessionHoldsOwn, Running
  <2> QED
    BY <2>1, <2>2, <2>3
<1>7. TakesOwn(r) /\ Selected(r)
  BY <1>1, <1>3 DEF TakesOwn, Selected
<1>8. ASSUME NEW k \in Handlers, reqs'[k] # None
      PROVE  TakesOwn(reqs[k])' /\ Selected(reqs[k])'
  <2>1. CASE k # h
    BY <1>1, <1>2, <1>4, <1>8, <2>1 DEF TakesOwn, Selected
  <2>2. CASE k = h
    BY <1>2, <1>4, <1>7, <1>8, <2>2 DEF TakesOwn, Selected
  <2> QED
    BY <2>1, <2>2
<1> QED
  BY <1>5, <1>6, <1>8 DEF EndInv, Running

\* A step that takes no row and gives no console a session.
LEMMA NothingTaken ==
    ASSUME RequestsInv, EndInv, RunOnAlike, UNCHANGED rows,
           \A c \in Consoles : sess'[c] \in {sess[c], None}
    PROVE  EndInv'
<1>1. SessKept
  BY DEF SessKept
<1>2. TakenBy(None)
  BY DEF TakenBy
<1> QED
  BY <1>1, <1>2, RunOnEnd

\* A console that gets an answer keeps its session or forgets it.
LEMMA AnswerSess ==
    ASSUME RequestsInv, NEW h \in Running, NEW ok \in BOOLEAN, Answer(h, ok)
    PROVE  /\ \A c \in Consoles : sess'[c] \in {sess[c], None}
           /\ RunOnAlike /\ reqs'[h] = None
<1>1. /\ reqs \in Requests /\ h \in Handlers /\ reqs' = [reqs EXCEPT ![h] = None]
      /\ sess \in [Consoles -> Sessions \cup {None}] /\ reqs[h].con \in Consoles
  BY RequestFields DEF RequestsInv, TypeInv, TypeOK, Running, Answer
<1>2. RunOnAlike /\ reqs'[h] = None
  BY <1>1 DEF RunOnAlike, Requests, Running
<1>3. sess' = sess \/ sess' = [sess EXCEPT ![reqs[h].con] = None]
  BY DEF Answer, Answered, console, AfterEdit, Retry, GoHome
<1> QED
  BY <1>1, <1>2, <1>3

LEMMA RefusesEnd ==
    ASSUME RequestsInv, EndInv, NEW h \in Running, Answer(h, FALSE), UNCHANGED rows
    PROVE  EndInv'
BY AnswerSess, NothingTaken

LEMMA ReadEnd ==
    ASSUME RequestsInv, EndInv, NEW h \in Handlers,
           ReadOrphans(h) \/ ReadBoxes(h) \/ ReadPokemon(h) \/ ReadHeld(h)
    PROVE  EndInv'
<1> DEFINE r == reqs[h]
<1>1. h \in Running
  BY DEF ReadOrphans, ReadBoxes, ReadPokemon, ReadHeld, Reads
<1>2. /\ gen \in Generations /\ r.con \in Consoles /\ ReqOK(r)
      /\ \A x \in r.changes : x \in Change
  BY <1>1, RequestFields DEF RequestsInv
<1>3. CASE ReadOrphans(h)
  <2> DEFINE W == ToReconcile(r.live)
  <2>1. W \in SUBSET Change /\ \A x \in W : x.what \in {"free", "settle"}
    BY <1>2 DEF ToReconcile, Orphans, Change, Generations
  <2>2. Decides(h, W) /\ r.op \notin Ending
    BY <1>3 DEF ReadOrphans, Reads, Ending
  <2> HIDE DEF W
  <2> QED
    BY <1>1, <2>1, <2>2, DecidesEnd
<1>4. CASE ReadBoxes(h)
  <2>1. r.op = "deposit"
    BY <1>4 DEF ReadBoxes, Reads
  <2>2. ASSUME NEW b \in DestOf[r.con], BankOwner[b] = UserOf[r.con],
               Decides(h, {[slot |-> b, gen |-> gen[b], what |-> "insert"]})
        PROVE  EndInv'
    <3> DEFINE x == [slot |-> b, gen |-> gen[b], what |-> "insert"]
    <3>1. b \in BankSlots
      BY <1>2, DestOfAssumption
    <3>2. x \in Change /\ x.slot = b
      BY <1>2, <3>1 DEF Change, Generations
    <3> HIDE DEF x
    <3>3. Decides(h, {x})
      BY <2>2 DEF x
    <3> QED
      BY <1>1, <2>1, <2>2, <3>2, <3>3, DecidesEnd DEF Editing, Ending
  <2>3. CASE Answer(h, FALSE) /\ UNCHANGED <<rows, store, game, gen>>
    BY <1>1, <2>3, RefusesEnd
  <2> QED
    BY <1>4, <2>2, <2>3 DEF ReadBoxes
<1>5. CASE ReadPokemon(h)
  <2>1. r.op = "withdraw"
    BY <1>5 DEF ReadPokemon, Reads
  <2>2. ASSUME NEW x \in Picked(r),
               Decides(h, {[x EXCEPT !.what = IF rows[x.slot].committed THEN "hold" ELSE "remove"]})
        PROVE  EndInv'
    <3> DEFINE y == [x EXCEPT !.what = IF rows[x.slot].committed THEN "hold" ELSE "remove"]
    <3>1. x \in Change /\ BankOwner[x.slot] = UserOf[r.con]
      BY <1>2 DEF Picked
    <3>2. y \in Change /\ y.slot = x.slot
      BY <3>1 DEF Change
    <3> HIDE DEF y
    <3>3. Decides(h, {y})
      BY <2>2 DEF y
    <3> QED
      BY <1>1, <2>1, <3>1, <3>2, <3>3, DecidesEnd DEF Editing, Ending
  <2>3. CASE Answer(h, FALSE) /\ UNCHANGED <<rows, store, game, gen>>
    BY <1>1, <2>3, RefusesEnd
  <2> QED
    BY <1>5, <2>2, <2>3 DEF ReadPokemon
<1>6. CASE ReadHeld(h)
  <2> DEFINE u == UserOf[r.con]
  <2>1. PICK W \in {ToCommit(u, r.sess), ToAbandon(u, r.sess)} : Decides(h, W)
    BY <1>6 DEF ReadHeld
  <2>2. r.op \in Ending /\ r.sess \in Sessions
    BY <1>2, <1>6 DEF ReadHeld, Reads, Ending, ReqOK
  <2>3. PICK what \in [BankSlots -> {"remove", "settle", "free"}] :
          W = {[slot |-> b, gen |-> gen[b], what |-> what[b]] : b \in HeldForUser(rows, u, r.sess)}
    <3>1. CASE W = ToCommit(u, r.sess)
      <4> DEFINE f == [b \in BankSlots |-> IF rows[b].committed THEN "remove" ELSE "settle"]
      <4> WITNESS f \in [BankSlots -> {"remove", "settle", "free"}]
      <4> QED
        BY <3>1 DEF ToCommit, HeldForUser
    <3>2. CASE W = ToAbandon(u, r.sess)
      <4> DEFINE f == [b \in BankSlots |-> IF rows[b].committed THEN "free" ELSE "remove"]
      <4> WITNESS f \in [BankSlots -> {"remove", "settle", "free"}]
      <4> QED
        BY <3>2 DEF ToAbandon, HeldForUser
    <3> QED
      BY <2>1, <3>1, <3>2
  <2>4. \A b \in BankSlots : rows[b] # None /\ rows[b].held = r.sess => b \in HeldForUser(rows, u, r.sess)
    BY <1>1, <2>2, NoneAssumption DEF HeldForUser, EndInv, SessionHoldsOwn
  <2> DEFINE x(b) == [slot |-> b, gen |-> gen[b], what |-> what[b]]
  <2>5. \A b \in BankSlots : x(b) \in Change /\ x(b).slot = b /\ x(b).what \notin {"insert", "hold"}
    BY <1>2 DEF Change, Generations
  <2>6. W = {x(b) : b \in HeldForUser(rows, u, r.sess)} /\ HeldForUser(rows, u, r.sess) \subseteq BankSlots
    BY <2>3 DEF HeldForUser
  <2> HIDE DEF x
  <2>7. W \in SUBSET Change /\ \A y \in W : y.what \notin {"insert", "hold"}
    BY <2>5, <2>6
  <2>8. \A b \in HeldForUser(rows, u, r.sess) : \E y \in W : y.slot = b
    BY <2>5, <2>6
  <2> QED
    BY <1>1, <2>1, <2>4, <2>7, <2>8, DecidesEnd
<1> QED
  BY <1>3, <1>4, <1>5, <1>6

\* A row that is held after SaveChangesAsync was held before, or is taken.
LEMMA SaveTakes ==
    ASSUME RequestsInv, EndInv, NEW h \in Running, SaveRows(h), reqs'[h] = None
    PROVE  TakenBy(h)
<1> DEFINE r == reqs[h]
<1>1. /\ SavesNow(h) /\ r.at = "save" /\ Saves(r.changes)
      /\ rows' = [b \in BankSlots |->
                    IF \E x \in r.changes : x.slot = b
                      THEN Changed(CHOOSE x \in r.changes : x.slot = b, r.mon, r.sess)
                      ELSE rows[b]]
  BY DEF SaveRows, SavesNow, SaveChanges
<1>2. /\ TakesOwn(r) /\ \A x \in r.changes : x \in Change
      /\ \A b \in BankSlots : rows[b] # None => rows[b] \in Row
  BY RequestFields DEF EndInv, RequestsInv, TypeInv, TypeOK
<1> SUFFICES ASSUME NEW b \in BankSlots, rows'[b] # None, rows'[b].held # None
             PROVE  \/ rows[b] # None /\ rows'[b].held = rows[b].held
                    \/ rows'[b].held = r.sess /\ BankOwner[b] = UserOf[r.con]
  BY DEF TakenBy
<1>3. CASE \E x \in r.changes : x.slot = b
  <2>1. PICK x \in r.changes : x.slot = b /\ rows'[b] = Changed(x, r.mon, r.sess)
    BY <1>1, <1>3
  <2>2. x.what \in {"insert", "hold", "free", "settle", "remove"}
    BY <1>2, <2>1 DEF Change
  <2>3. x.what # "insert" => rows[b] \in Row
    BY <1>1, <1>2, <2>1 DEF Saves
  <2>4. CASE x.what \in {"insert", "hold"}
    <3>1. BankOwner[b] = UserOf[r.con]
      BY <1>1, <1>2, <2>1, <2>4 DEF TakesOwn
    <3>2. CASE x.what = "insert"
      BY <2>1, <3>1, <3>2 DEF Changed, PendingRow
    <3>3. CASE x.what = "hold"
      BY <2>1, <2>3, <3>1, <3>3 DEF Changed, Row
    <3> QED
      BY <2>4, <3>2, <3>3
  <2>5. CASE x.what = "free"
    BY <2>1, <2>3, <2>5 DEF Changed, Row
  <2>6. CASE x.what = "settle"
    BY <2>1, <2>3, <2>6, SettledIsRow DEF Changed
  <2>7. CASE x.what = "remove"
    BY <2>1, <2>7 DEF Changed
  <2> QED
    BY <2>2, <2>4, <2>5, <2>6, <2>7
<1>4. CASE ~ \E x \in r.changes : x.slot = b
  BY <1>1, <1>4
<1> QED
  BY <1>3, <1>4

\* What the end of a session saves leaves none of the rows it selected with it.
LEMMA EndLeavesNone ==
    ASSUME RequestsInv, EndInv, NEW h \in Running, SaveEnd(h), NEW b \in BankSlots, rows'[b] # None
    PROVE  rows'[b].held # reqs[h].sess
<1> DEFINE r == reqs[h]
<1>1. /\ r.op \in Ending /\ r.at = "save" /\ Saves(r.changes)
      /\ rows' = [d \in BankSlots |->
                    IF \E x \in r.changes : x.slot = d
                      THEN Changed(CHOOSE x \in r.changes : x.slot = d, r.mon, r.sess)
                      ELSE rows[d]]
  BY DEF SaveEnd, SaveRows, SavesNow, SaveChanges, Ending
<1>2. /\ TakesOwn(r) /\ Selected(r) /\ r.sess \in Sessions /\ \A x \in r.changes : x \in Change
      /\ rows[b] # None => rows[b] \in Row
  BY <1>1, RequestFields DEF EndInv, RequestsInv, TypeInv, TypeOK, ReqOK, Ending
<1>3. CASE \E x \in r.changes : x.slot = b
  <2>1. PICK x \in r.changes : x.slot = b /\ rows'[b] = Changed(x, r.mon, r.sess)
    BY <1>1, <1>3
  <2>2. x.what \in {"free", "settle", "remove"}
    BY <1>1, <1>2, <2>1 DEF Change, TakesOwn, Ending, Editing
  <2>3. rows[b] \in Row
    BY <1>1, <1>2, <2>1, <2>2 DEF Saves
  <2>4. rows'[b].held = None
    <3>1. CASE x.what = "free"
      BY <2>1, <2>3, <3>1 DEF Changed, Row
    <3>2. CASE x.what = "settle"
      BY <2>1, <2>3, <3>2, SettledIsRow DEF Changed
    <3>3. CASE x.what = "remove"
      BY <2>1, <3>3 DEF Changed
    <3> QED
      BY <2>2, <3>1, <3>2, <3>3
  <2> QED
    BY <1>2, <2>4, NoneAssumption
<1>4. CASE ~ \E x \in r.changes : x.slot = b
  BY <1>1, <1>2, <1>4 DEF Selected
<1> QED
  BY <1>3, <1>4

LEMMA SaveKeepsEnd ==
    ASSUME RequestsInv, EndInv, NEW h \in Handlers,
           SaveEdit(h) \/ SaveEnd(h) \/ \E s \in Sessions : SaveOpen(h, s)
    PROVE  EndInv'
<1>1. h \in Running /\ SaveRows(h)
  BY DEF SaveEdit, SaveEnd, SaveOpen, SaveRows, SavesNow
<1>2. /\ reqs \in Requests /\ reqs[h].con \in Consoles
      /\ sess \in [Consoles -> Sessions \cup {None}]
  BY <1>1, RequestFields DEF RequestsInv, TypeInv, TypeOK
<1>3. CASE SaveEdit(h) \/ SaveEnd(h)
  <2>1. Answer(h, TRUE)
    BY <1>3 DEF SaveEdit, SaveEnd
  <2>2. RunOnAlike /\ reqs'[h] = None /\ \A c \in Consoles : sess'[c] \in {sess[c], None}
    BY <1>1, <2>1, AnswerSess
  <2> QED
    BY <1>1, <2>2, SaveTakes, RunOnEnd DEF SessKept
<1>4. ASSUME NEW s \in Sessions, SaveOpen(h, s)
      PROVE  EndInv'
  <2>1. /\ reqs' = [reqs EXCEPT ![h] = None]
        /\ sess' \in {sess, [sess EXCEPT ![reqs[h].con] = s]}
    BY <1>4 DEF SaveOpen, console
  <2>2. RunOnAlike /\ reqs'[h] = None
    BY <1>1, <1>2, <2>1 DEF RunOnAlike, Requests, Running
  <2>3. Fresh(s)
    BY <1>4 DEF SaveOpen, IsNewId, Fresh
  <2>4. SessKept
    BY <1>2, <2>1, <2>3 DEF SessKept
  <2> QED
    BY <1>1, <2>2, <2>4, SaveTakes, RunOnEnd
<1> QED
  BY <1>3, <1>4

\* Steps of consoles, and sessions that expire.
LEMMA LocalEnd ==
    ASSUME RequestsInv, EndInv,
           \/ \E c \in Consoles : LocalStep(c) \/ SwitchOff(c)
           \/ \E s \in Sessions : ExpireSession(s)
    PROVE  EndInv'
<1>1. reqs \in Requests /\ sess \in [Consoles -> Sessions \cup {None}]
  BY DEF RequestsInv, TypeInv, TypeOK
<1>2. ASSUME NEW c \in Consoles, LocalStep(c)
      PROVE  EndInv'
  <2>1. reqs' = reqs /\ rows' = rows /\ sess' \in {sess, [sess EXCEPT ![c] = None]}
    BY <1>2
    DEF LocalStep, ChooseWrite, LeaveBoxes, SwitchGivesUp, Download, DownloadFails,
        WriteSave, WriteFails, TornWrite, GoHome
  <2>2. RunOnAlike
    BY <2>1 DEF RunOnAlike, Running
  <2> QED
    BY <1>1, <2>1, <2>2, NothingTaken
<1>3. ASSUME NEW c \in Consoles, SwitchOff(c)
      PROVE  EndInv'
  <2>1. rows' = rows /\ sess' = [sess EXCEPT ![c] = None]
    BY <1>3 DEF SwitchOff, Crash, GoHome
  <2>2. RunOnAlike
    <3> SUFFICES ASSUME NEW k \in Handlers, reqs'[k] # None
                 PROVE  /\ k \in Running
                        /\ \/ reqs'[k] = reqs[k]
                           \/ /\ reqs'[k] = [reqs[k] EXCEPT !.heard = FALSE]
                              /\ sess'[reqs[k].con] = None
      BY DEF RunOnAlike
    <3>1. reqs'[k] = IF k \in Running /\ reqs[k].con = c
                       THEN [reqs[k] EXCEPT !.heard = FALSE] ELSE reqs[k]
      BY <1>3 DEF SwitchOff
    <3> QED
      BY <1>1, <2>1, <3>1 DEF Running
  <2> QED
    BY <1>1, <2>1, <2>2, NothingTaken
<1>4. ASSUME NEW s \in Sessions, ExpireSession(s)
      PROVE  EndInv'
  <2>1. reqs' = reqs /\ rows' = rows /\ sess' = sess
    BY <1>4 DEF ExpireSession, Expire, console
  <2>2. RunOnAlike
    BY <2>1 DEF RunOnAlike, Running
  <2> QED
    BY <2>1, <2>2, NothingTaken
<1> QED
  BY <1>2, <1>3, <1>4

LEMMA CancelEnd ==
    ASSUME RequestsInv, EndInv, NEW h \in Handlers, Cancel(h)
    PROVE  EndInv'
<1>1. reqs' = [reqs EXCEPT ![h] = None] /\ rows' = rows /\ sess' = sess /\ reqs \in Requests
  BY DEF Cancel, vars, RequestsInv
<1>2. RunOnAlike
  BY <1>1 DEF RunOnAlike, Requests, Running
<1> QED
  BY <1>1, <1>2, NothingTaken

LEMMA EndInitOK == RequestsInit => EndInv
<1> SUFFICES ASSUME RequestsInit PROVE EndInv
  OBVIOUS
<1>1. Running = {} /\ \A c \in Consoles : sess[c] = None
  BY DEF RequestsInit, Init, Running
<1> QED
  BY <1>1 DEF EndInv, SessionsUnique, HoldsAreOwn, AloneInSession, OwnerWaits, SessionHoldsOwn

\* What EndedHoldsNothing says of one step.
EndsClean ==
    \A h \in Running : SaveEnd(h) =>
      \A b \in BankSlots : rows'[b] # None => rows'[b].held # reqs[h].sess

LEMMA EndStep ==
    ASSUME "lost" \notin Faults, RequestsInv, EndInv, [RequestsNext]_allVars
    PROVE  EndInv' /\ EndsClean
<1>1. EndInv'
  <2>1. ASSUME NEW c \in Consoles, NEW h \in Handlers, BeginSome(c, h)
        PROVE  EndInv'
    BY <2>1, BeginSomeEnd
  <2>2. ASSUME \/ \E c \in Consoles : LocalStep(c) \/ SwitchOff(c)
               \/ \E s \in Sessions : ExpireSession(s)
        PROVE  EndInv'
    BY <2>2, LocalEnd
  <2>3. ASSUME NEW h \in Handlers,
               ReadOrphans(h) \/ ReadBoxes(h) \/ ReadPokemon(h) \/ ReadHeld(h)
        PROVE  EndInv'
    BY <2>3, ReadEnd
  <2>4. ASSUME NEW h \in Handlers,
               SaveEdit(h) \/ SaveEnd(h) \/ \E s \in Sessions : SaveOpen(h, s)
        PROVE  EndInv'
    BY <2>4, SaveKeepsEnd
  <2>5. ASSUME NEW h \in Handlers, SaveThrows(h)
        PROVE  EndInv'
    BY <2>5, RefusesEnd DEF SaveThrows
  <2>6. ASSUME NEW h \in Handlers, LoseConnection(h)
        PROVE  FALSE
    BY <2>6 DEF LoseConnection
  <2>7. ASSUME NEW h \in Handlers, Cancel(h)
        PROVE  EndInv'
    BY <2>7, CancelEnd
  <2>8. CASE UNCHANGED allVars
    <3>1. reqs' = reqs /\ rows' = rows /\ sess' = sess
      BY <2>8 DEF allVars, vars
    <3>2. RunOnAlike
      BY <3>1 DEF RunOnAlike, Running
    <3> QED
      BY <3>1, <3>2, NothingTaken
  <2> QED
    BY <2>4, <2>5, <2>6, <2>7, <2>8, <2>1, <2>2, <2>3 DEF RequestsNext, RunHandler
<1>2. EndsClean
  BY EndLeavesNone DEF EndsClean
<1> QED
  BY <1>1, <1>2

\* Where consoles hear the answers to their calls, or are switched off with them, a
\* commit or a DELETE that is answered with success leaves no row held by its session,
\* however handlers interleave and sessions expire, and whatever is cancelled or torn
\* (BankService.cs:150-179, ApiController.cs:216-239).  A console that takes an edit
\* for failed, and commits while the handler runs on, is what the hypothesis excludes.
THEOREM EndedSessionsHoldNothing ==
    ASSUME "lost" \notin Faults
    PROVE  RequestsSpec => EndedHoldsNothing
<1>1. RequestsInit => EndInv
  BY EndInitOK
<1>2. RequestsInv /\ EndInv /\ [RequestsNext]_allVars => EndInv'
  BY EndStep
<1>3. RequestsInv /\ EndInv /\ [RequestsNext]_allVars =>
        [\A h \in Running : SaveEnd(h) =>
           \A b \in BankSlots : rows'[b] # None => rows'[b].held # reqs[h].sess]_allVars
  BY EndStep DEF EndsClean
<1> QED
  BY <1>1, <1>2, <1>3, RequestsInvariant, PTL DEF RequestsSpec, EndedHoldsNothing
--------------------------------------------------------------------------------
(* No Pokemon is lost between handlers, where consoles deposit into boxes of   *)
(* their own and hear their answers.  The argument is that of NoLossProofs:    *)
(* some row is in nobody's hands, or some one console keeps the Pokemon in     *)
(* both of its futures.  What is new is in between.  A row that a running      *)
(* handler has decided to remove does not count (Firm), whoever takes or       *)
(* frees it meanwhile; a deposit that was read counts for the copy that was    *)
(* blanked (Arriving); and what a handler will put in the bank or take from    *)
(* it fits the copy of its session (HandlerOK).                                *)

Doomed(b) ==
    \E h \in Running : /\ reqs[h].at = "save"
                       /\ \E x \in reqs[h].changes :
                            x.slot = b /\ x.what = "remove" /\ x.gen = gen[b]

Firm(b) == rows[b] # None /\ ~Doomed(b)

Unclaimed(b) == rows[b].held = None \/ \A c \in Consoles : sess[c] # rows[b].held

FirmFree(m) == \E b \in BankSlots : Firm(b) /\ rows[b].mon = m /\ Unclaimed(b)

FirmDeposit(s, m) ==
    \E b \in BankSlots :
      Firm(b) /\ rows[b].mon = m /\ rows[b].held = s /\ ~rows[b].committed

FirmWithdrawal(s, m) ==
    \E b \in BankSlots :
      Firm(b) /\ rows[b].mon = m /\ rows[b].held = s /\ rows[b].committed

\* A deposit of m whose row is not there yet.
Arriving(c, m) ==
    \E h \in Running :
      /\ reqs[h].con = c /\ reqs[h].mon = m
      /\ reqs[h].op = "deposit" /\ reqs[h].at = "save"

\* Console c keeps m, whether it writes its copy or not.
Stays(c, m) ==
    /\ pc[c] = "idle" => Has(game[c], m)
    /\ pc[c] \in {"edit", "download", "write", "abandon"}
         => Has(game[c], m) \/ FirmWithdrawal(sess[c], m)
    /\ pc[c] \in {"edit", "download"} /\ sess[c] \in ActiveIds
         => \/ Has(store[sess[c]].save, m)
            \/ FirmDeposit(sess[c], m) \/ Arriving(c, m)
    /\ pc[c] = "write" => Has(file[c], m) \/ FirmDeposit(sess[c], m)
    /\ pc[c] = "commit" => Has(game[c], m) \/ FirmDeposit(sess[c], m)

NoneLost == \A m \in Mons : FirmFree(m) \/ \E c \in Consoles : Stays(c, m)

\* What the handlers of an operation decide.
Decisions(op) ==
    CASE op \in {"open", "list"} -> {"free", "settle"}
      [] op = "deposit"          -> {"insert"}
      [] op = "withdraw"         -> {"hold", "remove"}
      [] op = "commit"           -> {"remove", "settle"}
      [] op = "abandon"          -> {"free", "remove"}

HandlerOK(r) ==
    /\ r.heard
    /\ r.op = "open" => r.img = game[r.con] /\ pc[r.con] = "idle"
    /\ r.op = "abandon" => pc[r.con] = "abandon"
    /\ r.op \notin {"open", "list"} => r.sess = sess[r.con]
    /\ r.at = "save" => \A x \in r.changes : x.what \in Decisions(r.op)
    /\ r.at = "read" /\ r.sess \in ActiveIds =>
         /\ r.op = "deposit" => store[r.sess].save[r.slot] = r.mon
         /\ r.op = "withdraw" => store[r.sess].save[r.slot] = Blank
    /\ r.at = "save" /\ r.op = "deposit" =>
         \E b \in DestOf[r.con] : rows[b] = None /\ \A x \in r.changes : x.slot = b
    /\ r.at = "save" /\ r.op = "deposit" => r.changes # {}
    /\ r.at = "save" /\ r.op = "withdraw" /\ r.sess \in ActiveIds =>
         \A x \in r.changes :
           x.what = "hold" /\ rows[x.slot] # None /\ gen[x.slot] = x.gen =>
             Has(store[r.sess].save, rows[x.slot].mon)

LossInv == NoneLost /\ \A h \in Running : HandlerOK(reqs[h])

\* Consoles deposit into boxes of their own.
OwnBoxes == \A c, d \in Consoles : c # d => DestOf[c] \cap DestOf[d] = {}

AllInv == RequestsInv /\ EndInv /\ LossInv

--------------------------------------------------------------------------------
(* Steps that leave the rows as they are. *)

\* The consoles outside of C do nothing, and nobody else changes their copies.
OnlyThese(C) ==
    \A d \in Consoles \ C :
      /\ pc'[d] = pc[d] /\ sess'[d] = sess[d] /\ file'[d] = file[d] /\ game'[d] = game[d]
      /\ sess[d] \in ActiveIds' => sess[d] \in ActiveIds /\ store'[sess[d]] = store[sess[d]]

LEMMA StaysFrame ==
    ASSUME NEW C, OnlyThese(C), NEW d \in Consoles \ C, NEW m \in Mons, Stays(d, m),
           UNCHANGED <<rows, gen>>,
           pc[d] # "idle" =>
             \A b \in BankSlots : Firm(b) /\ rows[b].held = sess[d] => Firm(b)',
           Arriving(d, m) => Arriving(d, m)'
    PROVE  Stays(d, m)'
<1>1. /\ pc'[d] = pc[d] /\ sess'[d] = sess[d] /\ file'[d] = file[d] /\ game'[d] = game[d]
      /\ sess[d] \in ActiveIds' => sess[d] \in ActiveIds /\ store'[sess[d]] = store[sess[d]]
  BY DEF OnlyThese
<1>2. pc[d] # "idle" => /\ FirmWithdrawal(sess[d], m) => FirmWithdrawal(sess[d], m)'
                        /\ FirmDeposit(sess[d], m) => FirmDeposit(sess[d], m)'
  BY <1>1 DEF FirmWithdrawal, FirmDeposit
<1> QED
  BY <1>1, <1>2 DEF Stays, Has

LEMMA FreeFrame ==
    ASSUME NEW m \in Mons, FirmFree(m), UNCHANGED rows,
           \A c \in Consoles : sess'[c] \in {sess[c], None},
           \A b \in BankSlots : Firm(b) /\ Unclaimed(b) => Firm(b)'
    PROVE  FirmFree(m)'
BY DEF FirmFree, Unclaimed

\* Handlers that run on are as they were.
Unmoved == \A k \in Handlers : reqs'[k] # None => reqs'[k] = reqs[k]

LEMMA FirmFrame ==
    ASSUME Unmoved, UNCHANGED <<rows, gen>>, NEW b \in BankSlots, Firm(b)
    PROVE  Firm(b)'
BY DEF Unmoved, Firm, Doomed, Running

\* What a handler has decided is still right after the steps of others: a row is
\* there longer, or gone, or a new one; none appears in the boxes of its console.
LEMMA HandlerFrame ==
    ASSUME RequestsInv, NEW k \in Handlers, reqs[k] # None, reqs'[k] = reqs[k], HandlerOK(reqs[k]),
           \A b \in BankSlots : rows'[b] # None =>
             \/ rows[b] # None /\ rows'[b].mon = rows[b].mon /\ gen'[b] = gen[b]
             \/ Unknown(b, gen'[b]) /\ b \notin DestOf[reqs[k].con],
           NEW C, OnlyThese(C), reqs[k].con \notin C
    PROVE  HandlerOK(reqs[k])'
<1> DEFINE r == reqs[k]
<1>1. /\ k \in Running /\ r.con \in Consoles \ C /\ DestOf[r.con] \subseteq BankSlots
      /\ \A x \in r.changes : x.slot \in BankSlots
  <2>1. k \in Running
    BY DEF Running
  <2> QED
    BY <2>1, RequestFields, DestOfAssumption DEF Change
<1>2. /\ pc'[r.con] = pc[r.con] /\ sess'[r.con] = sess[r.con] /\ game'[r.con] = game[r.con]
      /\ sess[r.con] \in ActiveIds'
           => sess[r.con] \in ActiveIds /\ store'[sess[r.con]] = store[sess[r.con]]
  BY <1>1 DEF OnlyThese
<1>3. r.op \in {"deposit", "withdraw"} => r.sess = sess[r.con]
  BY DEF HandlerOK
<1>4. \A b \in DestOf[r.con] : rows[b] = None => rows'[b] = None
  BY <1>1
<1>5. \A x \in r.changes : rows'[x.slot] # None /\ gen'[x.slot] = x.gen =>
        rows[x.slot] # None /\ gen[x.slot] = x.gen /\ rows'[x.slot].mon = rows[x.slot].mon
  BY <1>1 DEF Unknown
<1>6. r.at = "save" /\ r.op = "withdraw" /\ r.sess \in ActiveIds' =>
        \A x \in r.changes :
          x.what = "hold" /\ rows'[x.slot] # None /\ gen'[x.slot] = x.gen =>
            Has(store'[r.sess].save, rows'[x.slot].mon)
  <2> SUFFICES ASSUME r.at = "save", r.op = "withdraw", r.sess \in ActiveIds',
                      NEW x \in r.changes, x.what = "hold", rows'[x.slot] # None,
                      gen'[x.slot] = x.gen
               PROVE  Has(store'[r.sess].save, rows'[x.slot].mon)
    OBVIOUS
  <2>1. r.sess \in ActiveIds /\ store'[r.sess] = store[r.sess]
    BY <1>2, <1>3
  <2>2. Has(store[r.sess].save, rows[x.slot].mon)
    BY <1>5, <2>1 DEF HandlerOK
  <2> QED
    BY <1>5, <2>1, <2>2
<1>7. r.at = "read" /\ r.sess \in ActiveIds' =>
        /\ r.op = "deposit" => store'[r.sess].save[r.slot] = r.mon
        /\ r.op = "withdraw" => store'[r.sess].save[r.slot] = Blank
  BY <1>2, <1>3 DEF HandlerOK
<1> QED
  BY <1>2, <1>4, <1>6, <1>7 DEF HandlerOK, Has
--------------------------------------------------------------------------------
(* What SaveChangesAsync does to the rows nobody has decided to remove. *)

LEMMA HandlerFacts ==
    ASSUME AllInv, NEW h \in Running
    PROVE  /\ reqs[h].con \in Consoles /\ reqs[h].op \in Ops /\ reqs[h].heard
           /\ reqs[h].sess \in Sessions \cup {None}
           /\ \A x \in reqs[h].changes : x \in Change
           /\ ReqOK(reqs[h]) /\ Agrees(reqs[h]) /\ HandlerOK(reqs[h])
           /\ TakesOwn(reqs[h]) /\ Selected(reqs[h])
BY RequestFields DEF AllInv, EndInv, LossInv, HandlerOK

\* What a handler that saves its changes has done to a row.
LEMMA SavedRow ==
    ASSUME AllInv, NEW h \in Running, SaveRows(h), NEW b \in BankSlots
    PROVE  LET r == reqs[h] IN
           /\ rows[b] # None /\ rows'[b] # None =>
                rows'[b].mon = rows[b].mon /\ gen'[b] = gen[b]
           /\ rows[b] = None /\ rows'[b] # None =>
                r.op = "deposit" /\ b \in DestOf[r.con] /\ Unknown(b, gen'[b])
           /\ Firm(b) =>
                /\ rows'[b] # None
                /\ \/ rows'[b] = rows[b]
                   \/ rows'[b].held = None
                   \/ /\ r.op = "withdraw" /\ rows'[b].held = r.sess /\ rows'[b].committed
                      /\ r.sess \in ActiveIds => Has(store[r.sess].save, rows[b].mon)
           /\ Firm(b) /\ r.op \in Ending /\ rows[b].held = r.sess => rows'[b].held = None
<1> DEFINE r == reqs[h]
<1>1. /\ SavesNow(h) /\ r.at = "save" /\ Saves(r.changes)
      /\ rows' = [d \in BankSlots |->
                    IF \E x \in r.changes : x.slot = d
                      THEN Changed(CHOOSE x \in r.changes : x.slot = d, r.mon, r.sess)
                      ELSE rows[d]]
      /\ gen' = [d \in BankSlots |-> IF rows'[d] = None THEN 0
                                     ELSE IF rows[d] = None THEN NewGen(d) ELSE gen[d]]
  BY DEF SaveRows, SavesNow, SaveChanges
<1>2. /\ r.op \in Ops /\ ReqOK(r) /\ Agrees(r) /\ HandlerOK(r) /\ Selected(r)
      /\ \A x \in r.changes : x \in Change /\ x.what \in Decisions(r.op)
      /\ rows[b] # None => rows[b] \in Row
      /\ RequestsInv /\ r.sess \in Sessions \cup {None}
  BY <1>1, HandlerFacts DEF AllInv, RequestsInv, TypeInv, TypeOK, HandlerOK
<1>3. CASE \E x \in r.changes : x.slot = b
  <2>1. PICK x \in r.changes : x.slot = b /\ rows'[b] = Changed(x, r.mon, r.sess)
    BY <1>1, <1>3
  <2>2. /\ x.what \in {"insert", "hold", "free", "settle", "remove"}
        /\ x.what \in Decisions(r.op)
    BY <1>2, <2>1 DEF Change
  <2>3. /\ x.what = "insert" => rows[b] = None
        /\ x.what # "insert" => rows[b] \in Row /\ rows[b] # None /\ gen[b] = x.gen
    BY <1>1, <1>2, <2>1 DEF Saves
  <2>4. x.what = "remove" => ~Firm(b)
    BY <1>1, <2>1, <2>3 DEF Firm, Doomed
  <2>5. CASE x.what = "insert"
    <3>1. r.op = "deposit" /\ rows[b] = None
      BY <1>2, <2>3, <2>5 DEF ReqOK
    <3>2. b \in DestOf[r.con]
      BY <1>1, <1>2, <2>1, <3>1 DEF HandlerOK
    <3>3. rows'[b] # None => Unknown(b, gen'[b])
      BY <1>1, <1>2, <3>1, NewGenIsUnknown
    <3> QED
      BY <3>1, <3>2, <3>3 DEF Firm
  <2>6. CASE x.what = "hold"
    <3>1. r.op = "withdraw"
      BY <1>2, <2>2, <2>6 DEF Decisions, Ops
    <3>2. rows'[b] = [rows[b] EXCEPT !.held = r.sess] /\ rows[b] \in Row /\ rows[b] # None
      BY <2>1, <2>3, <2>6 DEF Changed
    <3>3. rows[b].committed
      BY <1>1, <1>2, <2>1, <2>3, <2>6 DEF Agrees, IsPending
    <3>4. /\ rows'[b].mon = rows[b].mon /\ rows'[b].held = r.sess /\ rows'[b].committed
          /\ rows'[b] \in Row
      BY <1>2, <3>2, <3>3 DEF Row
    <3>5. r.sess \in ActiveIds => Has(store[r.sess].save, rows[b].mon)
      BY <1>1, <1>2, <2>1, <2>3, <2>6, <3>1 DEF HandlerOK
    <3>6. gen'[b] = gen[b]
      BY <1>1, <3>2, <3>4, NoRowAssumption
    <3> QED
      BY <3>1, <3>2, <3>4, <3>5, <3>6, NoRowAssumption DEF Ending
  <2>7. CASE x.what \in {"free", "settle"}
    <3>1. rows[b] \in Row /\ rows[b] # None
      BY <2>3, <2>7
    <3>2. rows'[b] \in Row /\ rows'[b].held = None /\ rows'[b].mon = rows[b].mon
      <4>1. CASE x.what = "free"
        BY <2>1, <3>1, <4>1 DEF Changed, Row
      <4>2. CASE x.what = "settle"
        BY <2>1, <3>1, <4>2, SettledIsRow DEF Changed
      <4> QED
        BY <2>7, <4>1, <4>2
    <3>3. gen'[b] = gen[b]
      BY <1>1, <3>1, <3>2, NoRowAssumption
    <3> QED
      BY <3>1, <3>2, <3>3, NoRowAssumption
  <2>8. CASE x.what = "remove"
    <3>1. rows'[b] = None
      BY <2>1, <2>8 DEF Changed
    <3> QED
      BY <2>4, <2>8, <3>1
  <2> QED
    BY <2>2, <2>5, <2>6, <2>7, <2>8
<1>4. CASE ~ \E x \in r.changes : x.slot = b
  <2>1. rows'[b] = rows[b] /\ (rows[b] # None => gen'[b] = gen[b])
    BY <1>1, <1>4
  <2>2. ~(r.op \in Ending /\ rows[b] # None /\ rows[b].held = r.sess)
    BY <1>1, <1>2, <1>4 DEF Selected
  <2> QED
    BY <2>1, <2>2 DEF Firm
<1> QED
  BY <1>3, <1>4

\* A withdrawal of m has been saved: its row is the session's, its copy has m.
Took(h, m) ==
    LET r == reqs[h] IN
    /\ r.op = "withdraw"
    /\ \E b \in BankSlots : /\ Firm(b)' /\ rows'[b].mon = m
                            /\ rows'[b].held = r.sess /\ rows'[b].committed
    /\ r.sess \in ActiveIds => Has(store[r.sess].save, m)

\* A row that somebody has counted on is there after the save of h, as it was,
\* free, or taken by the withdrawal of h.
LEMMA SavedFirm ==
    ASSUME AllInv, NEW h \in Running, SaveRows(h), reqs' = [reqs EXCEPT ![h] = None],
           NEW b \in BankSlots, Firm(b)
    PROVE  /\ Firm(b)' /\ rows'[b].mon = rows[b].mon
           /\ rows'[b] = rows[b] \/ rows'[b].held = None \/ Took(h, rows[b].mon)
<1>1. reqs \in Requests
  BY DEF AllInv, RequestsInv
<1>2. /\ rows'[b] # None /\ rows'[b].mon = rows[b].mon /\ gen'[b] = gen[b]
      /\ \/ rows'[b] = rows[b]
         \/ rows'[b].held = None
         \/ /\ reqs[h].op = "withdraw"
            /\ rows'[b].held = reqs[h].sess /\ rows'[b].committed
            /\ reqs[h].sess \in ActiveIds => Has(store[reqs[h].sess].save, rows[b].mon)
  BY SavedRow DEF Firm
<1>3. \A k \in Handlers : reqs'[k] # None => k \in Running /\ reqs'[k] = reqs[k]
  BY <1>1 DEF Requests, Running
<1>4. Firm(b)'
  BY <1>2, <1>3 DEF Firm, Doomed, Running
<1> QED
  BY <1>2, <1>4 DEF Took

LEMMA SaveKeepsFree ==
    ASSUME AllInv, NEW h \in Running, SaveRows(h), reqs' = [reqs EXCEPT ![h] = None], SessKept,
           NEW m \in Mons, FirmFree(m)
    PROVE  FirmFree(m)' \/ Took(h, m)
<1>1. PICK b \in BankSlots : Firm(b) /\ rows[b].mon = m /\ Unclaimed(b)
  BY DEF FirmFree
<1>2. /\ Firm(b)' /\ rows'[b].mon = m
      /\ rows'[b] = rows[b] \/ rows'[b].held = None \/ Took(h, m)
  BY <1>1, SavedFirm
<1>3. rows'[b] = rows[b] => Unclaimed(b)'
  BY <1>1 DEF Unclaimed, SessKept, Fresh, Firm
<1> QED
  BY <1>2, <1>3 DEF FirmFree, Unclaimed

LEMMA SaveKeepsHeld ==
    ASSUME AllInv, NEW h \in Running, SaveRows(h), reqs' = [reqs EXCEPT ![h] = None],
           NEW m \in Mons, NEW s
    PROVE  /\ FirmWithdrawal(s, m) => FirmWithdrawal(s, m)' \/ FirmFree(m)' \/ Took(h, m)
           /\ FirmDeposit(s, m) => FirmDeposit(s, m)' \/ FirmFree(m)' \/ Took(h, m)
<1>1. ASSUME NEW b \in BankSlots, Firm(b), rows[b].mon = m
      PROVE  (Firm(b)' /\ rows'[b] = rows[b]) \/ FirmFree(m)' \/ Took(h, m)
  <2>1. /\ Firm(b)' /\ rows'[b].mon = m
        /\ rows'[b] = rows[b] \/ rows'[b].held = None \/ Took(h, m)
    BY <1>1, SavedFirm
  <2> QED
    BY <2>1 DEF FirmFree, Unclaimed
<1> QED
  BY <1>1 DEF FirmWithdrawal, FirmDeposit

\* The consoles that do not wait for h.
LEMMA SaveKeepsOthers ==
    ASSUME AllInv, NEW h \in Running, SaveRows(h), reqs' = [reqs EXCEPT ![h] = None],
           OnlyThese({reqs[h].con}),
           NEW d \in Consoles \ {reqs[h].con}, NEW m \in Mons, Stays(d, m)
    PROVE  Stays(d, m)' \/ FirmFree(m)' \/ Took(h, m)
<1>1. reqs \in Requests
  BY DEF AllInv, RequestsInv
<1>2. /\ pc'[d] = pc[d] /\ sess'[d] = sess[d] /\ file'[d] = file[d] /\ game'[d] = game[d]
      /\ sess[d] \in ActiveIds' => sess[d] \in ActiveIds /\ store'[sess[d]] = store[sess[d]]
  BY DEF OnlyThese
<1>3. Arriving(d, m) => Arriving(d, m)'
  BY <1>1 DEF Arriving, Requests, Running
<1> SUFFICES ASSUME ~FirmFree(m)', ~Took(h, m)
             PROVE  Stays(d, m)'
  OBVIOUS
<1>4. /\ FirmWithdrawal(sess[d], m) => FirmWithdrawal(sess[d], m)'
      /\ FirmDeposit(sess[d], m) => FirmDeposit(sess[d], m)'
  <2> PICK s : s = sess[d]
    OBVIOUS
  <2>1. /\ FirmWithdrawal(s, m) => FirmWithdrawal(s, m)'
        /\ FirmDeposit(s, m) => FirmDeposit(s, m)'
    BY SaveKeepsHeld
  <2>2. s = sess'[d]
    BY <1>2
  <2> QED
    BY <2>1, <2>2 DEF FirmWithdrawal, FirmDeposit
<1> QED
  BY <1>2, <1>3, <1>4 DEF Stays, Has

\* The other handlers, and the Pokemon, if the console of h keeps what it kept.
LEMMA SaveLoss ==
    ASSUME AllInv, OwnBoxes, NEW h \in Running, SaveRows(h), reqs' = [reqs EXCEPT ![h] = None],
           SessKept, NEW c \in Consoles, c = reqs[h].con, OnlyThese({c}),
           \A m \in Mons : Stays(c, m) \/ Took(h, m) => Stays(c, m)' \/ FirmFree(m)'
    PROVE  LossInv'
<1>1. /\ reqs \in Requests /\ RequestsInv /\ OneHeard /\ reqs[h].heard
      /\ h \in Handlers
  BY HandlerFacts DEF AllInv, RequestsInv, Running
<1>2. ASSUME NEW m \in Mons, FirmFree(m) \/ \E d \in Consoles : Stays(d, m)
      PROVE  FirmFree(m)' \/ \E d \in Consoles : Stays(d, m)'
  BY <1>2, SaveKeepsFree, SaveKeepsOthers
<1>3. NoneLost'
  BY <1>2 DEF NoneLost, AllInv, LossInv
<1>4. ASSUME NEW k \in Handlers, reqs'[k] # None
      PROVE  HandlerOK(reqs[k])'
  <2>1. k \in Running /\ k # h /\ reqs'[k] = reqs[k] /\ reqs[k] # None
    BY <1>1, <1>4 DEF Requests, Running
  <2>2. HandlerOK(reqs[k]) /\ reqs[k].con \in Consoles /\ reqs[k].heard
    BY <2>1, HandlerFacts
  <2>3. reqs[k].con # c
    BY <1>1, <2>1, <2>2 DEF OneHeard
  <2>4. \A b \in BankSlots : rows'[b] # None =>
          \/ rows[b] # None /\ rows'[b].mon = rows[b].mon /\ gen'[b] = gen[b]
          \/ Unknown(b, gen'[b]) /\ b \notin DestOf[reqs[k].con]
    BY <1>1, <2>2, <2>3, SavedRow DEF OwnBoxes
  <2> QED
    BY <1>1, <2>1, <2>2, <2>3, <2>4, HandlerFrame
<1> QED
  BY <1>3, <1>4 DEF LossInv, Running

\* The console of a handler that has answered.
LEMMA AnswerFrame ==
    ASSUME AllInv, NEW h \in Running, NEW ok \in BOOLEAN, Answer(h, ok),
           NEW c, c = reqs[h].con
    PROVE  /\ c \in Consoles /\ Answered(c, reqs[h].op, ok) /\ SessKept
           /\ reqs' = [reqs EXCEPT ![h] = None]
           /\ \A d \in Consoles : sess'[d] \in {sess[d], None}
           /\ \A d \in Consoles \ {c} :
                pc'[d] = pc[d] /\ sess'[d] = sess[d] /\ file'[d] = file[d]
<1>1. /\ c \in Consoles /\ reqs[h].heard /\ ConsoleOK
      /\ Answered(c, reqs[h].op, ok) /\ reqs' = [reqs EXCEPT ![h] = None]
  BY HandlerFacts, TypeInvParts DEF AllInv, RequestsInv, Answer
<1>2. \A d \in Consoles : sess'[d] \in {sess[d], None}
  BY AnswerSess DEF AllInv
<1>3. UNCHANGED console \/ AfterEdit(c, ok) \/ Retry(c) \/ GoHome(c)
  BY <1>1 DEF Answered
<1>4. \A d \in Consoles \ {c} : pc'[d] = pc[d] /\ sess'[d] = sess[d] /\ file'[d] = file[d]
  BY <1>1, <1>3 DEF console, AfterEdit, Retry, GoHome, Phase, ConsoleOK
<1> QED
  BY <1>1, <1>2, <1>4 DEF SessKept

\* A deposit that has been saved is there.
LEMMA DepositArrives ==
    ASSUME AllInv, NEW h \in Running, SaveRows(h), reqs' = [reqs EXCEPT ![h] = None],
           reqs[h].op = "deposit"
    PROVE  \E b \in BankSlots : /\ Firm(b)' /\ rows'[b].mon = reqs[h].mon
                                /\ rows'[b].held = reqs[h].sess /\ ~rows'[b].committed
<1> DEFINE r == reqs[h]
<1>1. /\ SavesNow(h) /\ r.at = "save" /\ Saves(r.changes)
      /\ rows' = [d \in BankSlots |->
                    IF \E x \in r.changes : x.slot = d
                      THEN Changed(CHOOSE x \in r.changes : x.slot = d, r.mon, r.sess)
                      ELSE rows[d]]
      /\ gen' = [d \in BankSlots |-> IF rows'[d] = None THEN 0
                                     ELSE IF rows[d] = None THEN NewGen(d) ELSE gen[d]]
      /\ reqs \in Requests /\ RequestsInv
  BY DEF SaveRows, SavesNow, SaveChanges, AllInv, RequestsInv
<1>2. HandlerOK(r) /\ ReqOK(r) /\ r.con \in Consoles
  BY HandlerFacts
<1>3. PICK b \in DestOf[r.con] : rows[b] = None /\ \A x \in r.changes : x.slot = b
  BY <1>1, <1>2 DEF HandlerOK
<1>4. b \in BankSlots
  BY <1>2, <1>3, DestOfAssumption
<1>5. PICK x \in r.changes : rows'[b] = Changed(x, r.mon, r.sess)
  BY <1>1, <1>2, <1>3, <1>4 DEF HandlerOK
<1>6. x.what = "insert"
  BY <1>1, <1>2, <1>5 DEF HandlerOK, Decisions
<1>7. r.mon \in Mons /\ r.sess \in Sessions
  BY <1>2 DEF ReqOK
<1>8. /\ rows'[b] \in Row /\ rows'[b].mon = r.mon /\ rows'[b].held = r.sess
      /\ ~rows'[b].committed
  BY <1>5, <1>6, <1>7, PendingIsRow DEF Changed, PendingRow
<1>9. gen'[b] = NewGen(b) /\ Unknown(b, gen'[b])
  BY <1>1, <1>3, <1>4, <1>8, NewGenIsUnknown, NoRowAssumption
<1>10. \A k \in Handlers : reqs'[k] # None => k \in Running /\ reqs'[k] = reqs[k]
  BY <1>1 DEF Requests, Running
<1>11. Firm(b)'
  BY <1>8, <1>9, <1>10, NoRowAssumption DEF Firm, Doomed, Unknown, Running
<1> QED
  BY <1>4, <1>8, <1>11

\* list, deposit and withdraw.
LEMMA SaveEditLoss ==
    ASSUME AllInv, OwnBoxes, NEW h \in Handlers, SaveEdit(h)
    PROVE  LossInv'
<1> PICK c : c = reqs[h].con
  OBVIOUS
<1> PICK s : s = reqs[h].sess
  OBVIOUS
<1>1. /\ h \in Running /\ SaveRows(h) /\ Answer(h, TRUE)
      /\ game' = game /\ store' = store
      /\ reqs[h].op \in {"list", "deposit", "withdraw"}
  BY DEF SaveEdit, SaveRows, SavesNow
<1>2. /\ c \in Consoles /\ reqs' = [reqs EXCEPT ![h] = None] /\ SessKept
      /\ Answered(c, reqs[h].op, TRUE) /\ OnlyThese({c})
      /\ HandlerOK(reqs[h]) /\ ReqOK(reqs[h]) /\ reqs[h].heard
      /\ reqs \in Requests /\ pc \in [Consoles -> Phases]
  BY <1>1, AnswerFrame, HandlerFacts
  DEF OnlyThese, ActiveIds, AllInv, RequestsInv, TypeInv, TypeOK
<1>3. reqs[h].op \in {"deposit", "withdraw"} => pc[c] = "edit" /\ s = sess[c]
  BY <1>2 DEF HandlerOK, ReqOK
<1>4. /\ sess' = sess /\ file' = file
      /\ pc'[c] = pc[c] \/ (pc[c] = "edit" /\ pc'[c] = "download")
  BY <1>1, <1>2, <1>3 DEF Answered, console, AfterEdit, Phase
<1>5. ASSUME NEW m \in Mons, Took(h, m)
      PROVE  Stays(c, m)'
  <2>1. FirmWithdrawal(s, m)' /\ (s \in ActiveIds => Has(store[s].save, m))
    BY <1>5 DEF Took, FirmWithdrawal
  <2>2. s = sess'[c] /\ pc'[c] \in {"edit", "download"}
    BY <1>3, <1>4, <1>5 DEF Took
  <2> QED
    BY <1>1, <2>1, <2>2 DEF Stays, FirmWithdrawal, ActiveIds, Has
<1>6. ASSUME NEW m \in Mons, Arriving(c, m)
      PROVE  Arriving(c, m)' \/ (s = sess[c] /\ pc[c] = "edit" /\ FirmDeposit(s, m)')
  <2>1. PICK k \in Running : /\ reqs[k].con = c /\ reqs[k].mon = m
                             /\ reqs[k].op = "deposit" /\ reqs[k].at = "save"
    BY <1>6 DEF Arriving
  <2>2. CASE k = h
    <3>1. FirmDeposit(s, m)'
      BY <1>1, <1>2, <2>1, <2>2, DepositArrives DEF FirmDeposit
    <3> QED
      BY <1>3, <2>1, <2>2, <3>1
  <2>3. CASE k # h
    BY <1>2, <2>1, <2>3 DEF Arriving, Running, Requests
  <2> QED
    BY <2>2, <2>3
<1>7. ASSUME NEW m \in Mons, Stays(c, m), ~Took(h, m), ~FirmFree(m)'
      PROVE  Stays(c, m)'
  <2> PICK e : e = sess[c]
    OBVIOUS
  <2>1. /\ FirmWithdrawal(e, m) => FirmWithdrawal(e, m)'
        /\ FirmDeposit(e, m) => FirmDeposit(e, m)'
    BY <1>1, <1>2, <1>7, SaveKeepsHeld
  <2>2. e = sess'[c]
    BY <1>4
  <2>3. /\ FirmWithdrawal(sess[c], m) => FirmWithdrawal(sess[c], m)'
        /\ FirmDeposit(sess[c], m) => FirmDeposit(sess[c], m)'
    BY <2>1, <2>2 DEF FirmWithdrawal, FirmDeposit
  <2>4. Arriving(c, m) => Arriving(c, m)' \/ (FirmDeposit(sess[c], m)' /\ pc[c] = "edit")
    BY <1>6, <2>2 DEF FirmDeposit
  <2> QED
    BY <1>1, <1>4, <1>7, <2>3, <2>4 DEF Stays, ActiveIds, Has
<1> QED
  BY <1>1, <1>2, <1>5, <1>7, SaveLoss

\* commit and DELETE: the console is at its home menu again.
LEMMA SaveEndLoss ==
    ASSUME AllInv, OwnBoxes, NEW h \in Handlers, SaveEnd(h)
    PROVE  LossInv'
<1> PICK c : c = reqs[h].con
  OBVIOUS
<1> DEFINE s == reqs[h].sess
<1>1. /\ h \in Running /\ SaveRows(h) /\ Answer(h, TRUE)
      /\ game' = game /\ store' = Remove(s) /\ reqs[h].op \in Ending
  BY DEF SaveEnd, SaveRows, SavesNow, Ending
<1>2. /\ c \in Consoles /\ reqs' = [reqs EXCEPT ![h] = None] /\ SessKept
      /\ Answered(c, reqs[h].op, TRUE)
      /\ \A d \in Consoles \ {c} : pc'[d] = pc[d] /\ sess'[d] = sess[d] /\ file'[d] = file[d]
      /\ HandlerOK(reqs[h]) /\ ReqOK(reqs[h]) /\ reqs[h].heard
      /\ pc \in [Consoles -> Phases] /\ store \in Store
  BY <1>1, AnswerFrame, HandlerFacts
  DEF AllInv, RequestsInv, TypeInv, TypeOK, Store
<1>3. s = sess[c] /\ s \in Sessions /\ pc[c] = reqs[h].op /\ pc'[c] = "idle"
  BY <1>1, <1>2 DEF HandlerOK, ReqOK, Ending, Answered, GoHome, Phase
<1>4. OnlyThese({c})
  BY <1>1, <1>2 DEF OnlyThese, ActiveIds, Remove, Store
<1>5. ASSUME NEW m \in Mons, NEW b \in BankSlots, Firm(b), rows[b].mon = m, rows[b].held = s
      PROVE  FirmFree(m)'
  <2>1. Firm(b)' /\ rows'[b].mon = m /\ rows'[b].held = None
    BY <1>1, <1>2, <1>5, SavedFirm, SavedRow
  <2> QED
    BY <2>1 DEF FirmFree, Unclaimed
<1>6. ASSUME NEW m \in Mons, Stays(c, m)
      PROVE  Stays(c, m)' \/ FirmFree(m)'
  <2>1. Has(game[c], m) \/ FirmDeposit(s, m) \/ FirmWithdrawal(s, m)
    BY <1>1, <1>3, <1>6 DEF Stays, Ending
  <2>2. CASE Has(game[c], m)
    BY <1>1, <1>3, <2>2 DEF Stays, Has
  <2>3. CASE FirmDeposit(s, m) \/ FirmWithdrawal(s, m)
    BY <1>5, <2>3 DEF FirmDeposit, FirmWithdrawal
  <2> QED
    BY <2>1, <2>2, <2>3
<1>7. \A m \in Mons : ~Took(h, m)
  BY <1>1 DEF Took, Ending
<1> QED
  BY <1>1, <1>2, <1>4, <1>6, <1>7, SaveLoss

\* The new session's copy is the game's save.
LEMMA SaveOpenLoss ==
    ASSUME AllInv, OwnBoxes, NEW h \in Handlers, NEW s \in Sessions, SaveOpen(h, s)
    PROVE  LossInv'
<1> PICK c : c = reqs[h].con
  OBVIOUS
<1>1. /\ h \in Running /\ SaveRows(h) /\ game' = game /\ reqs[h].op = "open"
      /\ store' = Create(s, UserOf[c], reqs[h].img) /\ Fresh(s)
      /\ reqs' = [reqs EXCEPT ![h] = None]
  BY DEF SaveOpen, SaveRows, SavesNow, IsNewId, Fresh
<1>2. /\ c \in Consoles /\ reqs[h].heard /\ reqs[h].img = game[c] /\ pc[c] = "idle"
      /\ pc \in [Consoles -> Phases] /\ store \in Store
      /\ sess \in [Consoles -> Sessions \cup {None}]
  BY <1>1, HandlerFacts DEF HandlerOK, AllInv, RequestsInv, TypeInv, TypeOK, Store
<1>3. /\ pc' = [pc EXCEPT ![c] = "edit"] /\ sess' = [sess EXCEPT ![c] = s]
      /\ file' = file
  BY <1>2 DEF SaveOpen, Phase
<1>4. SessKept
  BY <1>1, <1>2, <1>3 DEF SessKept
<1>5. OnlyThese({c})
  BY <1>1, <1>2, <1>3 DEF OnlyThese, Fresh, ActiveIds, Create, Store
<1>6. store'[s].save = game[c]
  BY <1>1, <1>2 DEF Create, Store
<1>7. ASSUME NEW m \in Mons, Stays(c, m)
      PROVE  Stays(c, m)'
  <2>1. Has(game[c], m)
    BY <1>2, <1>7 DEF Stays
  <2>2. pc'[c] = "edit" /\ sess'[c] = s /\ Has(game'[c], m) /\ Has(store'[s].save, m)
    BY <1>1, <1>2, <1>3, <1>6, <2>1 DEF Has
  <2> QED
    BY <2>2 DEF Stays
<1>8. \A m \in Mons : ~Took(h, m)
  BY <1>1 DEF Took
<1> QED
  BY <1>1, <1>2, <1>4, <1>5, <1>7, <1>8, SaveLoss

--------------------------------------------------------------------------------
(* Steps that touch no row: of consoles, of sessions that expire, and of       *)
(* handlers that are refused or throw.                                         *)

LEMMA QuietLoss ==
    ASSUME AllInv, UNCHANGED <<rows, gen>>, Unmoved,
           \A c \in Consoles : sess'[c] \in {sess[c], None},
           NEW C \in SUBSET Consoles, OnlyThese(C),
           \A k \in Running : reqs[k].con \in C <=> reqs'[k] = None,
           \A k \in Handlers : reqs'[k] # None => k \in Running,
           \A c \in C, m \in Mons : Stays(c, m) => Stays(c, m)' \/ FirmFree(m)'
    PROVE  LossInv'
<1>1. \A b \in BankSlots : Firm(b) => Firm(b)'
  BY FirmFrame
<1>2. ASSUME NEW d \in Consoles \ C, NEW m \in Mons, Arriving(d, m)
      PROVE  Arriving(d, m)'
  BY <1>2 DEF Arriving, Running, Unmoved
<1>3. NoneLost'
  <2> SUFFICES ASSUME NEW m \in Mons
               PROVE  FirmFree(m)' \/ \E c \in Consoles : Stays(c, m)'
    BY DEF NoneLost
  <2>1. FirmFree(m) \/ \E c \in Consoles : Stays(c, m)
    BY DEF AllInv, LossInv, NoneLost
  <2>2. CASE FirmFree(m)
    BY <1>1, <2>2, FreeFrame
  <2>3. ASSUME NEW d \in Consoles \ C, Stays(d, m)
        PROVE  Stays(d, m)'
    BY <1>1, <1>2, <2>3, StaysFrame
  <2> QED
    BY <2>1, <2>2, <2>3
<1>4. ASSUME NEW k \in Handlers, reqs'[k] # None
      PROVE  HandlerOK(reqs[k])'
  <2>1. k \in Running /\ reqs'[k] = reqs[k] /\ reqs[k] # None /\ reqs[k].con \notin C
    BY <1>4 DEF Unmoved
  <2>2. HandlerOK(reqs[k]) /\ RequestsInv
    BY <2>1, HandlerFacts DEF AllInv
  <2> QED
    BY <2>1, <2>2, HandlerFrame
<1> QED
  BY <1>3, <1>4 DEF LossInv, Running

\* The rows of a console that goes home are nobody's.
LEMMA HomeAgain ==
    ASSUME AllInv, UNCHANGED <<rows, gen>>, Unmoved,
           \A d \in Consoles : sess'[d] \in {sess[d], None},
           NEW c \in Consoles, sess'[c] = None, pc'[c] = "idle", game'[c] = game[c],
           NEW m \in Mons, Stays(c, m)
    PROVE  Stays(c, m)' \/ FirmFree(m)'
<1>1. pc[c] \in Phases /\ SessionsUnique
      /\ sess[c] \in Sessions \cup {None} /\ (pc[c] # "idle" => sess[c] # None)
  BY DEF AllInv, EndInv, RequestsInv, TypeInv, TypeOK, PhaseOK
<1>2. ASSUME pc[c] # "idle", NEW b \in BankSlots, Firm(b), rows[b].mon = m, rows[b].held = sess[c]
      PROVE  FirmFree(m)'
  <2>1. Firm(b)'
    BY <1>2, FirmFrame
  <2>2. Unclaimed(b)'
    BY <1>1, <1>2 DEF Unclaimed, SessionsUnique
  <2> QED
    BY <1>2, <2>1, <2>2 DEF FirmFree
<1>3. Has(game[c], m) \/ (pc[c] # "idle" /\ (FirmWithdrawal(sess[c], m) \/ FirmDeposit(sess[c], m)))
  BY <1>1 DEF Stays, Phases
<1>4. Has(game[c], m) => Stays(c, m)'
  BY DEF Stays, Has
<1> QED
  BY <1>2, <1>3, <1>4 DEF FirmWithdrawal, FirmDeposit

\* A console that goes on with its session, and has nothing under way.
LEMMA GoesOn ==
    ASSUME AllInv, UNCHANGED <<rows, gen, store>>, Unmoved,
           NEW c \in Consoles, sess'[c] = sess[c],
           NEW m \in Mons, Stays(c, m), ~Arriving(c, m),
           \/ pc'[c] = pc[c] /\ game'[c] = game[c] /\ file'[c] = file[c]
           \/ pc[c] = "edit" /\ pc'[c] \in {"download", "abandon"} /\ game'[c] = game[c]
           \/ pc[c] \in {"download", "write"} /\ pc'[c] = "abandon" /\ game'[c] = game[c]
           \/ /\ pc[c] = "download" /\ pc'[c] = "write" /\ game'[c] = game[c]
              /\ sess[c] \in ActiveIds /\ file'[c] = store[sess[c]].save
           \/ pc[c] = "write" /\ pc'[c] = "commit" /\ game'[c] = file[c]
    PROVE  Stays(c, m)'
<1>1. \A b \in BankSlots : Firm(b) => Firm(b)'
  BY FirmFrame
<1>2. /\ FirmWithdrawal(sess[c], m) => FirmWithdrawal(sess[c], m)'
      /\ FirmDeposit(sess[c], m) => FirmDeposit(sess[c], m)'
  BY <1>1 DEF FirmWithdrawal, FirmDeposit
<1>3. ActiveIds' = ActiveIds
  BY DEF ActiveIds
<1> QED
  BY <1>2, <1>3 DEF Stays, Has

LEMMA LocalLoss ==
    ASSUME AllInv, "tornWrite" \notin Faults, NEW c \in Consoles, LocalStep(c)
    PROVE  LossInv'
<1>1. /\ pc \in [Consoles -> Phases] /\ sess \in [Consoles -> Sessions \cup {None}]
      /\ file \in [Consoles -> Image \cup {None}] /\ game \in [Consoles -> Image]
  BY DEF AllInv, RequestsInv, TypeInv, TypeOK
<1>2. /\ UNCHANGED <<rows, gen, reqs, store>> /\ ~Waiting(c)
      /\ \/ ChooseWrite(c) \/ LeaveBoxes(c) \/ SwitchGivesUp(c)
         \/ Download(c) \/ DownloadFails(c) \/ WriteSave(c) \/ WriteFails(c)
  BY DEF LocalStep, ChooseWrite, LeaveBoxes, SwitchGivesUp, Download, DownloadFails,
         WriteSave, WriteFails, TornWrite
<1>3. /\ sess' \in {sess, [sess EXCEPT ![c] = None]}
      /\ \A d \in Consoles \ {c} :
           pc'[d] = pc[d] /\ sess'[d] = sess[d] /\ file'[d] = file[d] /\ game'[d] = game[d]
  BY <1>1, <1>2 DEF ChooseWrite, LeaveBoxes, SwitchGivesUp, Download, DownloadFails,
                    WriteSave, WriteFails, GoHome, Phase
<1>4. \A k \in Running : reqs[k].con # c
  BY <1>2, HandlerFacts DEF Waiting
<1>5. /\ Unmoved /\ OnlyThese({c}) /\ \A d \in Consoles : sess'[d] \in {sess[d], None}
      /\ \A k \in Running : reqs'[k] # None
      /\ \A k \in Handlers : reqs'[k] # None => k \in Running
  BY <1>1, <1>2, <1>3 DEF Unmoved, OnlyThese, ActiveIds, Running
<1>6. ASSUME NEW m \in Mons, Stays(c, m)
      PROVE  Stays(c, m)' \/ FirmFree(m)'
  <2>1. ~Arriving(c, m)
    BY <1>4 DEF Arriving
  <2>2. CASE SwitchGivesUp(c)
    <3>1. sess'[c] = None /\ pc'[c] = "idle" /\ game'[c] = game[c]
      BY <1>1, <2>2 DEF SwitchGivesUp, GoHome, Phase
    <3> QED
      BY <1>2, <1>5, <1>6, <3>1, HomeAgain
  <2>3. CASE ~SwitchGivesUp(c)
    <3>1. sess' = sess
      BY <1>2, <2>3 DEF ChooseWrite, LeaveBoxes, Download, DownloadFails, WriteSave, WriteFails
    <3>2. \/ pc[c] = "edit" /\ pc'[c] \in {"download", "abandon"} /\ game'[c] = game[c]
          \/ pc[c] \in {"download", "write"} /\ pc'[c] = "abandon" /\ game'[c] = game[c]
          \/ /\ pc[c] = "download" /\ pc'[c] = "write" /\ game'[c] = game[c]
             /\ sess[c] \in ActiveIds /\ file'[c] = store[sess[c]].save
          \/ pc[c] = "write" /\ pc'[c] = "commit" /\ game'[c] = file[c]
      BY <1>1, <1>2, <2>3
      DEF ChooseWrite, LeaveBoxes, Download, DownloadFails, WriteSave, WriteFails, Phase, Get
    <3> QED
      BY <1>2, <1>5, <1>6, <2>1, <3>1, <3>2, GoesOn
  <2> QED
    BY <2>2, <2>3
<1> QED
  BY <1>2, <1>4, <1>5, <1>6, QuietLoss

LEMMA ExpireLoss ==
    ASSUME AllInv, NEW s \in Sessions, ExpireSession(s)
    PROVE  LossInv'
<1>1. /\ UNCHANGED <<rows, gen, reqs, game, console>> /\ store' = Remove(s) /\ store \in Store
  BY DEF ExpireSession, Expire, AllInv, RequestsInv, TypeInv, TypeOK, Store
<1>2. /\ Unmoved /\ \A d \in Consoles : sess'[d] \in {sess[d], None}
      /\ \A k \in Running : reqs'[k] # None
      /\ \A k \in Handlers : reqs'[k] # None => k \in Running
  BY <1>1 DEF Unmoved, Running, console
<1>3. OnlyThese({})
  BY <1>1 DEF OnlyThese, ActiveIds, Remove, Store, console
<1> QED
  BY <1>1, <1>2, <1>3, QuietLoss

\* A handler that refuses, or throws, and has no deposit under way.
LEMMA RefusedLoss ==
    ASSUME AllInv, NEW h \in Running, Answer(h, FALSE), UNCHANGED <<rows, store, game, gen>>,
           ~(reqs[h].op = "deposit" /\ reqs[h].at = "save")
    PROVE  LossInv'
<1> PICK c : c = reqs[h].con
  OBVIOUS
<1>1. /\ c \in Consoles /\ reqs' = [reqs EXCEPT ![h] = None]
      /\ Answered(c, reqs[h].op, FALSE)
      /\ \A d \in Consoles : sess'[d] \in {sess[d], None}
      /\ \A d \in Consoles \ {c} : pc'[d] = pc[d] /\ sess'[d] = sess[d] /\ file'[d] = file[d]
      /\ reqs \in Requests /\ h \in Handlers /\ OneHeard /\ ReqOK(reqs[h]) /\ reqs[h].heard
      /\ pc \in [Consoles -> Phases] /\ sess \in [Consoles -> Sessions \cup {None}]
  BY AnswerFrame, HandlerFacts DEF Running, AllInv, RequestsInv, TypeInv, TypeOK
<1>2. \A k \in Running \ {h} : reqs[k].con # c
  BY <1>1, HandlerFacts DEF OneHeard
<1>3. /\ Unmoved /\ OnlyThese({c})
      /\ \A k \in Running : reqs[k].con \in {c} <=> reqs'[k] = None
      /\ \A k \in Handlers : reqs'[k] # None => k \in Running
  BY <1>1, <1>2 DEF Unmoved, OnlyThese, ActiveIds, Running, Requests
<1>4. ASSUME NEW m \in Mons, Stays(c, m)
      PROVE  Stays(c, m)' \/ FirmFree(m)'
  <2>1. ~Arriving(c, m)
    BY <1>1, <1>2 DEF Arriving
  <2>2. CASE GoHome(c)
    <3>1. sess'[c] = None /\ pc'[c] = "idle" /\ game'[c] = game[c]
      BY <1>1, <2>2 DEF GoHome, Phase
    <3> QED
      BY <1>1, <1>3, <1>4, <3>1, HomeAgain
  <2>3. CASE ~GoHome(c)
    <3>1. reqs[h].op \in {"deposit", "withdraw"} => pc[c] = "edit"
      BY <1>1 DEF ReqOK
    <3>2. /\ sess' = sess /\ file' = file
          /\ pc'[c] = pc[c] \/ (pc[c] = "edit" /\ pc'[c] = "download")
      BY <1>1, <2>3, <3>1 DEF Answered, AfterEdit, Retry, Phase, console
    <3> QED
      BY <1>1, <1>3, <1>4, <2>1, <3>2, GoesOn
  <2> QED
    BY <2>2, <2>3
<1> QED
  BY <1>1, <1>3, <1>4, QuietLoss

\* A deposit into a box of its own never throws.
LEMMA SaveThrowsLoss ==
    ASSUME AllInv, "saveChanges" \notin Faults, NEW h \in Handlers, SaveThrows(h)
    PROVE  LossInv'
<1>1. /\ h \in Running /\ reqs[h].at = "save" /\ ~Saves(reqs[h].changes)
      /\ Answer(h, FALSE) /\ UNCHANGED <<rows, store, game, gen>>
  BY DEF SaveThrows
<1>2. reqs[h].op # "deposit"
  <2> SUFFICES ASSUME reqs[h].op = "deposit" PROVE Saves(reqs[h].changes)
    BY <1>1
  <2>1. HandlerOK(reqs[h])
    BY <1>1, HandlerFacts
  <2>2. \A x \in reqs[h].changes : x.what = "insert" /\ rows[x.slot] = None
    BY <1>1, <2>1 DEF HandlerOK, Decisions
  <2> QED
    BY <2>2 DEF Saves
<1> QED
  BY <1>1, <1>2, RefusedLoss

--------------------------------------------------------------------------------
(* A console sends a request. *)

LEMMA BeginLoss ==
    ASSUME AllInv, NEW h \in Handlers, NEW r \in Request, Begin(h, r), r.at = "read", HandlerOK(r)
    PROVE  LossInv'
<1>1. /\ h \notin Running /\ UNCHANGED <<vars, gen>>
      /\ reqs' = [reqs EXCEPT ![h] = r] /\ reqs \in Requests
  BY DEF Begin, AllInv, RequestsInv
<1>2. /\ reqs'[h] = r
      /\ \A k \in Handlers \ {h} : reqs'[k] = reqs[k]
      /\ \A k \in Handlers \ {h} : k \in Running <=> reqs'[k] # None
  BY <1>1 DEF Requests, Running
<1>3. /\ rows' = rows /\ store' = store /\ game' = game /\ pc' = pc /\ sess' = sess /\ file' = file
      /\ gen' = gen
  BY <1>1 DEF vars
<1>4. \A b \in BankSlots : Firm(b) => Firm(b)'
  BY <1>2, <1>3 DEF Firm, Doomed, Running
<1>5. NoneLost'
  <2> SUFFICES ASSUME NEW m \in Mons
               PROVE  FirmFree(m)' \/ \E c \in Consoles : Stays(c, m)'
    BY DEF NoneLost
  <2>1. FirmFree(m) \/ \E c \in Consoles : Stays(c, m)
    BY DEF AllInv, LossInv, NoneLost
  <2>2. CASE FirmFree(m)
    BY <1>3, <1>4, <2>2, FreeFrame
  <2>3. ASSUME NEW c \in Consoles, Stays(c, m)
        PROVE  Stays(c, m)'
    <3>1. Arriving(c, m) => Arriving(c, m)'
      BY <1>1, <1>2 DEF Arriving, Running
    <3>2. OnlyThese({}) /\ c \in Consoles \ {}
      BY <1>3 DEF OnlyThese, ActiveIds
    <3> QED
      BY <1>3, <1>4, <2>3, <3>1, <3>2, StaysFrame
  <2> QED
    BY <2>1, <2>2, <2>3
<1>6. ASSUME NEW k \in Handlers, reqs'[k] # None
      PROVE  HandlerOK(reqs[k])'
  <2>1. PICK q : q = reqs'[k] /\ HandlerOK(q)
    BY <1>1, <1>2, <1>6, HandlerFacts
  <2>2. HandlerOK(q)'
    BY <1>3, <2>1 DEF HandlerOK, ActiveIds, Has
  <2> QED
    BY <2>1, <2>2 DEF HandlerOK
<1> QED
  BY <1>5, <1>6 DEF LossInv, Running

LEMMA BeginSomeLoss ==
    ASSUME AllInv, NEW c \in Consoles, NEW h \in Handlers, BeginSome(c, h)
    PROVE  LossInv'
<1>1. /\ game[c] \in Image /\ sess[c] \in Sessions \cup {None}
      /\ ActiveIds \subseteq Sessions /\ gen \in Generations /\ TypeInv
  BY DEF AllInv, RequestsInv, TypeInv, TypeOK, ActiveIds
<1>2. CASE BeginOpen(c, h)
  <2> DEFINE q == Sent(c, "open", None)
             r == [q EXCEPT !.img = game[c], !.live = ActiveIds]
  <2>1. q \in Request /\ q.op = "open" /\ q.at = "read" /\ q.con = c /\ q.heard
    BY SentOK DEF Ops
  <2> HIDE DEF q
  <2>2. /\ r \in Request /\ r.op = "open" /\ r.at = "read" /\ r.con = c /\ r.heard
        /\ r.img = game[c]
    BY <1>1, <2>1 DEF Request
  <2>3. Begin(h, r) /\ pc[c] = "idle"
    BY <1>2 DEF BeginOpen, q
  <2> HIDE DEF r
  <2>4. HandlerOK(r)
    BY <2>2, <2>3 DEF HandlerOK
  <2> QED
    BY <2>2, <2>3, <2>4, BeginLoss
<1>3. CASE BeginList(c, h)
  <2> DEFINE q == Sent(c, "list", None)
             r == [q EXCEPT !.live = ActiveIds]
  <2>1. q \in Request /\ q.op = "list" /\ q.at = "read" /\ q.con = c /\ q.heard
    BY SentOK DEF Ops
  <2> HIDE DEF q
  <2>2. r \in Request /\ r.op = "list" /\ r.at = "read" /\ r.con = c /\ r.heard
    BY <1>1, <2>1 DEF Request
  <2>3. Begin(h, r)
    BY <1>3 DEF BeginList, q
  <2> HIDE DEF r
  <2>4. HandlerOK(r)
    BY <2>2 DEF HandlerOK
  <2> QED
    BY <2>2, <2>3, <2>4, BeginLoss
<1>4. ASSUME NEW i \in SaveSlots, BeginDeposit(c, h, i)
      PROVE  LossInv'
  <2> DEFINE m == store[sess[c]].save[i]
             q == Sent(c, "deposit", sess[c])
             r == [q EXCEPT !.slot = i, !.mon = m]
  <2>1. store[sess[c]].save \in Image /\ m # Blank
    BY <1>1, <1>4, EditSession DEF BeginDeposit
  <2>2. m \in Mons
    BY <2>1 DEF Image
  <2>3. /\ q \in Request /\ q.op = "deposit" /\ q.at = "read" /\ q.heard
        /\ q.con = c /\ q.sess = sess[c]
    BY <1>1, SentOK DEF Ops
  <2>4. Begin(h, r)
    BY <1>4 DEF BeginDeposit
  <2>5. m = store[sess[c]].save[i]
    OBVIOUS
  <2> HIDE DEF m, q
  <2>6. /\ r \in Request /\ r.op = "deposit" /\ r.at = "read" /\ r.heard
        /\ r.con = c /\ r.sess = sess[c] /\ r.slot = i /\ r.mon = m
    BY <2>2, <2>3 DEF Request
  <2> HIDE DEF r
  <2>7. HandlerOK(r)
    BY <2>5, <2>6 DEF HandlerOK
  <2> QED
    BY <2>4, <2>6, <2>7, BeginLoss
<1>5. ASSUME NEW i \in SaveSlots, NEW b \in BankSlots, BeginWithdraw(c, h, i, b)
      PROVE  LossInv'
  <2> DEFINE x == [slot |-> b, gen |-> gen[b], what |-> "hold"]
             q == Sent(c, "withdraw", sess[c])
             r == [q EXCEPT !.slot = i, !.changes = {x}]
  <2>1. x \in Change
    BY <1>1 DEF Change, Generations
  <2>2. /\ q \in Request /\ q.op = "withdraw" /\ q.at = "read" /\ q.heard
        /\ q.con = c /\ q.sess = sess[c]
    BY <1>1, SentOK DEF Ops
  <2>3. Begin(h, r) /\ store[sess[c]].save[i] = Blank
    BY <1>5 DEF BeginWithdraw
  <2> HIDE DEF x, q
  <2>4. /\ r \in Request /\ r.op = "withdraw" /\ r.at = "read" /\ r.heard
        /\ r.con = c /\ r.sess = sess[c] /\ r.slot = i
    BY <2>1, <2>2 DEF Request
  <2> HIDE DEF r
  <2>5. HandlerOK(r)
    BY <2>3, <2>4 DEF HandlerOK
  <2> QED
    BY <2>3, <2>4, <2>5, BeginLoss
<1>6. ASSUME NEW op \in Ending, Begin(h, Sent(c, op, sess[c])), pc[c] = op
      PROVE  LossInv'
  <2> DEFINE r == Sent(c, op, sess[c])
  <2>1. op \in Ops
    BY DEF Ending, Ops
  <2>2. /\ r \in Request /\ r.op = op /\ r.at = "read" /\ r.heard
        /\ r.con = c /\ r.sess = sess[c]
    BY <1>1, <2>1, SentOK
  <2>3. Begin(h, r)
    BY <1>6
  <2> HIDE DEF r
  <2>4. HandlerOK(r)
    BY <1>6, <2>2 DEF HandlerOK, Ending
  <2> QED
    BY <2>2, <2>3, <2>4, BeginLoss
<1>7. CASE BeginCommit(c, h) \/ BeginAbandon(c, h)
  BY <1>6, <1>7 DEF BeginCommit, BeginAbandon, Ending
<1> QED
  BY <1>2, <1>3, <1>4, <1>5, <1>7 DEF BeginSome

--------------------------------------------------------------------------------
(* A handler decides on its changes: it condemns rows of its own session. *)

Condemned(W, b) == \E x \in W : x.slot = b /\ x.what = "remove"

\* The handler that has decided, and the rest.
LEMMA DecidedAlike ==
    ASSUME AllInv, NEW h \in Running, NEW W \in SUBSET Change, Decides(h, W)
    PROVE  /\ reqs'[h] # None /\ reqs'[h].at = "save" /\ reqs'[h].changes = W
           /\ reqs'[h].con = reqs[h].con /\ reqs'[h].op = reqs[h].op
           /\ reqs'[h].sess = reqs[h].sess /\ reqs'[h].heard = reqs[h].heard
           /\ reqs'[h].slot = reqs[h].slot /\ reqs'[h].mon = reqs[h].mon
           /\ reqs'[h].img = reqs[h].img
           /\ \A k \in Handlers \ {h} : reqs'[k] = reqs[k]
           /\ rows' = rows /\ gen' = gen /\ game' = game
           /\ pc' = pc /\ sess' = sess /\ file' = file
<1> DEFINE r == [reqs[h] EXCEPT !.at = "save", !.changes = W, !.live = {}]
<1>1. reqs \in Requests /\ h \in Handlers /\ reqs[h] \in Request
  BY RequestFields DEF AllInv, RequestsInv, Running
<1>2. reqs' = [reqs EXCEPT ![h] = r]
  BY DEF Decides
<1>3. /\ r.at = "save" /\ r.changes = W /\ r.con = reqs[h].con /\ r.op = reqs[h].op
      /\ r.sess = reqs[h].sess /\ r.heard = reqs[h].heard /\ r.slot = reqs[h].slot
      /\ r.mon = reqs[h].mon /\ r.img = reqs[h].img
      /\ r \in Request
  BY <1>1 DEF Request
<1> HIDE DEF r
<1>4. reqs'[h] = r /\ \A k \in Handlers \ {h} : reqs'[k] = reqs[k]
  BY <1>1, <1>2 DEF Requests
<1>5. r # None
  BY <1>3, NoRequestAssumption
<1> QED
  BY <1>3, <1>4, <1>5 DEF Decides, console

\* What is firm stays so, except for the rows that h condemns.
LEMMA DecidedFirm ==
    ASSUME AllInv, NEW h \in Running, NEW W \in SUBSET Change, Decides(h, W),
           NEW b \in BankSlots, Firm(b), ~Condemned(W, b)
    PROVE  Firm(b)'
<1>1. /\ reqs'[h].changes = W
      /\ \A k \in Handlers \ {h} : reqs'[k] = reqs[k]
      /\ rows' = rows /\ gen' = gen
  BY DecidedAlike
<1> QED
  BY <1>1 DEF Firm, Doomed, Condemned, Running

LEMMA DecidesLoss ==
    ASSUME AllInv, NEW h \in Running, NEW W \in SUBSET Change, Decides(h, W),
           NEW c \in Consoles, c = reqs[h].con, reqs[h].at = "read",
           \A s \in ActiveIds : s # reqs[h].sess => store'[s] = store[s],
           ActiveIds' \subseteq ActiveIds,
           reqs[h].op \in {"open", "list"} => store' = store,
           \A b \in BankSlots : Condemned(W, b) =>
             rows[b].held # None /\ rows[b].held = sess[c],
           \A m \in Mons : Stays(c, m) => Stays(c, m)',
           HandlerOK(reqs[h])'
    PROVE  LossInv'
<1>1. /\ \A k \in Handlers \ {h} : reqs'[k] = reqs[k]
      /\ rows' = rows /\ gen' = gen /\ game' = game
      /\ pc' = pc /\ sess' = sess /\ file' = file
  BY DecidedAlike
<1>2. /\ SessionsUnique /\ OneHeard /\ h \in Handlers /\ HandlerOK(reqs[h]) /\ RequestsInv
      /\ \A d \in Consoles : pc[d] = "idle" <=> sess[d] = None
      /\ ActiveIds \subseteq Sessions /\ reqs[h].op \in Ops
  BY HandlerFacts DEF AllInv, EndInv, RequestsInv, TypeInv, PhaseOK, Running, ActiveIds
<1>3. OnlyThese({c})
  <2> SUFFICES ASSUME NEW d \in Consoles \ {c}, sess[d] \in ActiveIds
               PROVE  store'[sess[d]] = store[sess[d]]
    BY <1>1 DEF OnlyThese
  <2>1. sess[d] # None
    BY <1>2, NoneAssumption
  <2>2. CASE reqs[h].op \in {"open", "list"}
    BY <2>2
  <2>3. CASE reqs[h].op \notin {"open", "list"}
    <3>1. reqs[h].sess = sess[c]
      BY <1>2, <2>3 DEF HandlerOK
    <3>2. reqs[h].sess # sess[d]
      BY <1>2, <2>1, <3>1 DEF SessionsUnique
    <3> QED
      BY <3>2
  <2> QED
    BY <2>2, <2>3
<1>4. ASSUME NEW b \in BankSlots, Firm(b), ~(rows[b].held # None /\ rows[b].held = sess[c])
      PROVE  Firm(b)'
  BY <1>4, DecidedFirm
<1>5. NoneLost'
  <2> SUFFICES ASSUME NEW m \in Mons
               PROVE  FirmFree(m)' \/ \E d \in Consoles : Stays(d, m)'
    BY DEF NoneLost
  <2>1. FirmFree(m) \/ \E d \in Consoles : Stays(d, m)
    BY DEF AllInv, LossInv, NoneLost
  <2>2. CASE FirmFree(m)
    <3>1. \A b \in BankSlots : Firm(b) /\ Unclaimed(b) => Firm(b)'
      BY <1>4 DEF Unclaimed
    <3> QED
      BY <1>1, <2>2, <3>1, FreeFrame
  <2>3. ASSUME NEW d \in Consoles \ {c}, Stays(d, m)
        PROVE  Stays(d, m)'
    <3>1. pc[d] # "idle" => \A b \in BankSlots : Firm(b) /\ rows[b].held = sess[d] => Firm(b)'
      BY <1>2, <1>4 DEF SessionsUnique
    <3>2. Arriving(d, m) => Arriving(d, m)'
      BY <1>1 DEF Arriving, Running
    <3> QED
      BY <1>1, <1>3, <2>3, <3>1, <3>2, StaysFrame
  <2> QED
    BY <2>1, <2>2, <2>3
<1>6. ASSUME NEW k \in Handlers, reqs'[k] # None
      PROVE  HandlerOK(reqs[k])'
  <2>1. CASE k = h
    BY <2>1
  <2>2. CASE k # h
    <3>1. k \in Running /\ reqs'[k] = reqs[k] /\ reqs[k] # None
      BY <1>1, <1>6, <2>2 DEF Running
    <3>2. HandlerOK(reqs[k]) /\ reqs[k].heard /\ reqs[h].heard
      BY <3>1, HandlerFacts
    <3>3. reqs[k].con \notin {c}
      BY <1>2, <2>2, <3>1, <3>2 DEF OneHeard
    <3> QED
      BY <1>1, <1>2, <1>3, <3>1, <3>2, <3>3, HandlerFrame
  <2> QED
    BY <2>1, <2>2
<1> QED
  BY <1>5, <1>6 DEF LossInv, Running

\* What a handler changes of the open saves: one slot of its session's, if it is there.
IsPut(s, i, x) ==
    /\ ActiveIds' = ActiveIds
    /\ \A t \in ActiveIds : t # s => store'[t] = store[t]
    /\ s \in ActiveIds =>
         /\ store[s].save \in Image
         /\ store'[s].save = [store[s].save EXCEPT ![i] = x]

LEMMA PutInOpenSaveDoes ==
    ASSUME store \in Store, NEW s, NEW i \in SaveSlots, NEW x \in Mons \cup {Blank},
           store' = PutInOpenSave(s, i, x)
    PROVE  IsPut(s, i, x)
<1>1. CASE s \in ActiveIds
  <2>1. s \in Sessions /\ store[s] \in SaveSession
    BY <1>1 DEF ActiveIds, Store
  <2>2. store' = PutInSave(s, i, x)
    BY <1>1 DEF PutInOpenSave
  <2>3. /\ store'[s] # None /\ store'[s].save = [store[s].save EXCEPT ![i] = x]
        /\ \A t \in Sessions \ {s} : store'[t] = store[t]
    BY <1>1, <2>2, PutInSaveType
  <2>4. store[s].save \in Image
    BY <2>1 DEF SaveSession
  <2> QED
    BY <1>1, <2>1, <2>3, <2>4 DEF ActiveIds, IsPut
<1>2. CASE s \notin ActiveIds
  BY <1>2 DEF PutInOpenSave, ActiveIds, IsPut
<1> QED
  BY <1>1, <1>2

LEMMA ReadOrphansLoss ==
    ASSUME AllInv, NEW h \in Handlers, ReadOrphans(h)
    PROVE  LossInv'
<1> DEFINE W == ToReconcile(reqs[h].live)
<1> PICK c : c = reqs[h].con
  OBVIOUS
<1>1. /\ h \in Running /\ reqs[h].op \in {"open", "list"} /\ reqs[h].at = "read"
      /\ Decides(h, W) /\ store' = store
  BY DEF ReadOrphans, Reads
<1>2. gen \in Generations /\ HandlerOK(reqs[h]) /\ c \in Consoles
  BY <1>1, HandlerFacts DEF AllInv, RequestsInv
<1>3. W \in SUBSET Change /\ \A x \in W : x.what \in {"free", "settle"}
  BY <1>2 DEF ToReconcile, Orphans, Change, Generations
<1> HIDE DEF W
<1>4. \A b \in BankSlots : ~Condemned(W, b)
  BY <1>3 DEF Condemned
<1>5. /\ reqs'[h].heard = reqs[h].heard /\ reqs'[h].con = c /\ reqs'[h].op = reqs[h].op
      /\ reqs'[h].img = reqs[h].img /\ reqs'[h].at = "save" /\ reqs'[h].changes = W
      /\ \A k \in Handlers \ {h} : reqs'[k] = reqs[k]
      /\ rows' = rows /\ gen' = gen /\ game' = game
      /\ pc' = pc /\ sess' = sess /\ file' = file
  BY <1>1, <1>3, DecidedAlike
<1>6. HandlerOK(reqs[h])'
  BY <1>1, <1>2, <1>3, <1>5 DEF HandlerOK, Decisions
<1>7. ASSUME NEW m \in Mons, Stays(c, m)
      PROVE  Stays(c, m)'
  <2>1. \A b \in BankSlots : Firm(b) => Firm(b)'
    BY <1>1, <1>3, <1>4, DecidedFirm
  <2>2. Arriving(c, m) => Arriving(c, m)'
    BY <1>1, <1>5 DEF Arriving, Running
  <2>3. OnlyThese({}) /\ c \in Consoles \ {}
    BY <1>1, <1>2, <1>5 DEF OnlyThese, ActiveIds
  <2> QED
    BY <1>5, <1>7, <2>1, <2>2, <2>3, StaysFrame
<1> QED
  BY <1>1, <1>2, <1>3, <1>4, <1>6, <1>7, DecidesLoss DEF ActiveIds

LEMMA ReadBoxesLoss ==
    ASSUME AllInv, NEW h \in Handlers, ReadBoxes(h)
    PROVE  LossInv'
<1> PICK r : r = reqs[h]
  OBVIOUS
<1>1. h \in Running /\ r.op = "deposit" /\ r.at = "read"
  BY DEF ReadBoxes, Reads
<1>2. /\ gen \in Generations /\ store \in Store /\ HandlerOK(r) /\ ReqOK(r) /\ r.con \in Consoles
      /\ r.heard
  BY <1>1, HandlerFacts DEF AllInv, RequestsInv, TypeInv, TypeOK, Store
<1>3. ASSUME NEW b \in DestOf[r.con], rows[b] = None,
             Decides(h, {[slot |-> b, gen |-> gen[b], what |-> "insert"]}),
             store' = PutInOpenSave(r.sess, r.slot, Blank)
      PROVE  LossInv'
  <2> DEFINE x == [slot |-> b, gen |-> gen[b], what |-> "insert"]
  <2> PICK W : W = {x}
    OBVIOUS
  <2> PICK c : c = r.con
    OBVIOUS
  <2>1. b \in BankSlots
    BY <1>2, DestOfAssumption
  <2>2. x \in Change /\ x.slot = b /\ x.what = "insert"
    BY <1>2, <2>1 DEF Change, Generations
  <2> HIDE DEF x
  <2>3. W \in SUBSET Change /\ Decides(h, W) /\ c \in Consoles
    BY <1>2, <1>3, <2>2 DEF x
  <2>4. /\ reqs'[h] # None /\ reqs'[h].at = "save" /\ reqs'[h].changes = W
        /\ reqs'[h].con = c /\ reqs'[h].op = "deposit"
        /\ reqs'[h].sess = r.sess /\ reqs'[h].heard
        /\ reqs'[h].slot = r.slot /\ reqs'[h].mon = r.mon
        /\ \A k \in Handlers \ {h} : reqs'[k] = reqs[k]
        /\ rows' = rows /\ gen' = gen /\ game' = game
        /\ pc' = pc /\ sess' = sess /\ file' = file
    BY <1>1, <1>2, <2>3, DecidedAlike
  <2>5. r.slot \in SaveSlots /\ r.sess = sess[c] /\ pc[c] = "edit"
        /\ (r.sess \in ActiveIds => store[r.sess].save[r.slot] = r.mon)
    BY <1>1, <1>2 DEF HandlerOK, ReqOK
  <2>6. /\ ActiveIds' = ActiveIds
        /\ \A t \in ActiveIds : t # r.sess => store'[t] = store[t]
        /\ r.sess \in ActiveIds =>
             /\ store[r.sess].save \in Image
             /\ store'[r.sess].save = [store[r.sess].save EXCEPT ![r.slot] = Blank]
    <3>1. IsPut(r.sess, r.slot, Blank)
      BY <1>2, <1>3, <2>5, PutInOpenSaveDoes
    <3> QED
      BY <3>1 DEF IsPut
  <2>7. \A d \in BankSlots : ~Condemned(W, d)
    BY <2>2 DEF Condemned
  <2>8. HandlerOK(reqs[h])'
    BY <1>2, <1>3, <2>2, <2>4, <2>5 DEF HandlerOK, Decisions
  <2>9. ASSUME NEW m \in Mons, Stays(c, m)
        PROVE  Stays(c, m)'
    <3>1. \A d \in BankSlots : Firm(d) => Firm(d)'
      BY <1>1, <2>3, <2>7, DecidedFirm
    <3>2. /\ FirmWithdrawal(sess[c], m) => FirmWithdrawal(sess[c], m)'
          /\ FirmDeposit(sess[c], m) => FirmDeposit(sess[c], m)'
      BY <2>4, <3>1 DEF FirmWithdrawal, FirmDeposit
    <3>3. Arriving(c, m) => Arriving(c, m)'
      BY <1>1, <2>4 DEF Arriving, Running
    <3>4. m = r.mon => Arriving(c, m)'
      BY <1>1, <2>4 DEF Arriving, Running
    <3>5. sess[c] \in ActiveIds /\ Has(store[sess[c]].save, m) =>
            Has(store'[sess[c]].save, m) \/ m = r.mon
      BY <2>5, <2>6 DEF Has, Image
    <3> QED
      BY <2>4, <2>5, <2>6, <2>9, <3>2, <3>3, <3>4, <3>5 DEF Stays, Has
  <2> QED
    BY <1>1, <2>3, <2>6, <2>7, <2>8, <2>9, DecidesLoss
<1>4. CASE Answer(h, FALSE) /\ UNCHANGED <<rows, store, game, gen>>
  BY <1>1, <1>4, RefusedLoss
<1> QED
  BY <1>3, <1>4 DEF ReadBoxes

\* The copy gets the Pokemon before its row is held, or gone.
LEMMA ReadPokemonLoss ==
    ASSUME AllInv, NEW h \in Handlers, ReadPokemon(h)
    PROVE  LossInv'
<1> PICK r : r = reqs[h]
  OBVIOUS
<1>1. h \in Running /\ r.op = "withdraw" /\ r.at = "read"
  BY DEF ReadPokemon, Reads
<1>2. /\ gen \in Generations /\ store \in Store /\ HandlerOK(r) /\ ReqOK(r) /\ r.con \in Consoles
      /\ r.heard /\ PendingHeld /\ \A x \in r.changes : x \in Change
      /\ \A b \in BankSlots : rows[b] # None => rows[b] \in Row
  BY <1>1, HandlerFacts DEF AllInv, RequestsInv, TypeInv, TypeOK, Store
<1>3. ASSUME NEW x \in Picked(r),
             Decides(h, {[x EXCEPT !.what = IF rows[x.slot].committed THEN "hold" ELSE "remove"]}),
             store' = PutInOpenSave(r.sess, r.slot, rows[x.slot].mon)
      PROVE  LossInv'
  <2> DEFINE y == [x EXCEPT !.what = IF rows[x.slot].committed THEN "hold" ELSE "remove"]
  <2> PICK W : W = {y}
    OBVIOUS
  <2> PICK c : c = r.con
    OBVIOUS
  <2> PICK b : b = x.slot
    OBVIOUS
  <2> PICK m0 : m0 = rows[b].mon
    OBVIOUS
  <2>1. /\ x \in Change /\ b \in BankSlots /\ rows[b] # None /\ gen[b] = x.gen
        /\ rows[b].held \in {None, r.sess} /\ rows[b] \in Row /\ m0 \in Mons
        /\ ~rows[b].committed => rows[b].held = r.sess
    BY <1>2 DEF Picked, Change, Row, PendingHeld, IsPending
  <2>2. /\ y \in Change /\ y.slot = b /\ y.gen = x.gen
        /\ y.what = IF rows[b].committed THEN "hold" ELSE "remove"
    BY <2>1 DEF Change
  <2> HIDE DEF y
  <2>3. W \in SUBSET Change /\ Decides(h, W) /\ c \in Consoles
    BY <1>2, <1>3, <2>2 DEF y
  <2>4. /\ reqs'[h] # None /\ reqs'[h].at = "save" /\ reqs'[h].changes = W
        /\ reqs'[h].con = c /\ reqs'[h].op = "withdraw"
        /\ reqs'[h].sess = r.sess /\ reqs'[h].heard
        /\ \A k \in Handlers \ {h} : reqs'[k] = reqs[k]
        /\ rows' = rows /\ gen' = gen /\ game' = game
        /\ pc' = pc /\ sess' = sess /\ file' = file
    BY <1>1, <1>2, <2>3, DecidedAlike
  <2>5. r.slot \in SaveSlots /\ r.sess \in Sessions /\ r.sess = sess[c] /\ pc[c] = "edit"
        /\ (r.sess \in ActiveIds => store[r.sess].save[r.slot] = Blank)
    BY <1>1, <1>2 DEF HandlerOK, ReqOK
  <2>6. /\ ActiveIds' = ActiveIds
        /\ \A t \in ActiveIds : t # r.sess => store'[t] = store[t]
        /\ r.sess \in ActiveIds =>
             /\ store[r.sess].save \in Image
             /\ store'[r.sess].save = [store[r.sess].save EXCEPT ![r.slot] = m0]
    <3>1. IsPut(r.sess, r.slot, m0)
      BY <1>2, <1>3, <2>1, <2>5, PutInOpenSaveDoes
    <3> QED
      BY <3>1 DEF IsPut
  <2>7. \A d \in BankSlots : Condemned(W, d) =>
          d = b /\ ~rows[b].committed /\ rows[d].held # None /\ rows[d].held = sess[c]
    BY <2>1, <2>2, <2>5, NoneAssumption DEF Condemned
  <2>8. r.sess \in ActiveIds =>
          /\ Has(store'[r.sess].save, m0)
          /\ \A m \in Mons : Has(store[r.sess].save, m) => Has(store'[r.sess].save, m)
    <3> SUFFICES ASSUME r.sess \in ActiveIds
                 PROVE  /\ Has(store'[r.sess].save, m0)
                        /\ \A m \in Mons : Has(store[r.sess].save, m) => Has(store'[r.sess].save, m)
      OBVIOUS
    <3>1. Has(store'[r.sess].save, m0)
      BY <2>5, <2>6 DEF Has, Image
    <3>2. ASSUME NEW m \in Mons, NEW i \in SaveSlots, store[r.sess].save[i] = m
          PROVE  store'[r.sess].save[i] = m
      BY <2>5, <2>6, <3>2, BlankAssumption DEF Image
    <3> QED
      BY <3>1, <3>2 DEF Has
  <2>9. HandlerOK(reqs[h])'
    <3>1. \A z \in W : z.what \in {"hold", "remove"} /\ z.slot = b
      BY <2>2
    <3> QED
      BY <2>4, <2>5, <2>6, <2>8, <3>1 DEF HandlerOK, Decisions
  <2>10. ASSUME NEW m \in Mons, Stays(c, m)
         PROVE  Stays(c, m)'
    <3>1. \A d \in BankSlots : Firm(d) => Firm(d)' \/ (d = b /\ ~rows[b].committed)
      BY <1>1, <2>3, <2>7, DecidedFirm
    <3>2. /\ FirmWithdrawal(sess[c], m) => FirmWithdrawal(sess[c], m)'
          /\ FirmDeposit(sess[c], m) => FirmDeposit(sess[c], m)' \/ m = m0
      BY <2>4, <3>1 DEF FirmWithdrawal, FirmDeposit
    <3>3. Arriving(c, m) => Arriving(c, m)'
      BY <1>1, <2>4 DEF Arriving, Running
    <3> QED
      BY <2>4, <2>5, <2>6, <2>8, <2>10, <3>2, <3>3 DEF Stays, Has
  <2> QED
    BY <1>1, <2>3, <2>6, <2>7, <2>9, <2>10, DecidesLoss
<1>4. CASE Answer(h, FALSE) /\ UNCHANGED <<rows, store, game, gen>>
  BY <1>1, <1>4, RefusedLoss
<1> QED
  BY <1>3, <1>4 DEF ReadPokemon

\* A commit condemns withdrawals, which its console does without; a DELETE deposits.
LEMMA ReadHeldLoss ==
    ASSUME AllInv, NEW h \in Handlers, ReadHeld(h)
    PROVE  LossInv'
<1> PICK r : r = reqs[h]
  OBVIOUS
<1> PICK c : c = r.con
  OBVIOUS
<1> DEFINE u == UserOf[c]
           removed(b) == IF r.op = "commit" THEN rows[b].committed ELSE ~rows[b].committed
           W == IF r.op = "commit" THEN ToCommit(u, r.sess) ELSE ToAbandon(u, r.sess)
<1>1. /\ h \in Running /\ r.op \in Ending /\ r.at = "read" /\ Decides(h, W) /\ store' = store
  BY DEF ReadHeld, Reads, Ending
<1>2. /\ gen \in Generations /\ HandlerOK(r) /\ ReqOK(r) /\ c \in Consoles /\ r.heard
  BY <1>1, HandlerFacts DEF AllInv, RequestsInv
<1>3. r.sess = sess[c] /\ r.sess \in Sessions /\ pc[c] = r.op
  BY <1>1, <1>2 DEF HandlerOK, ReqOK, Ending
<1>4. W \in SUBSET Change
  BY <1>2 DEF ToCommit, ToAbandon, HeldForUser, Change, Generations
<1>5. \A x \in W : x.what \in Decisions(r.op)
  BY <1>1 DEF ToCommit, ToAbandon, Decisions, Ending
<1>6. \A b \in BankSlots : Condemned(W, b) =>
        removed(b) /\ rows[b].held # None /\ rows[b].held = sess[c]
  BY <1>3, NoneAssumption DEF Condemned, ToCommit, ToAbandon, HeldForUser
<1> HIDE DEF W
<1>7. /\ reqs'[h] # None /\ reqs'[h].at = "save" /\ reqs'[h].changes = W
      /\ reqs'[h].con = c /\ reqs'[h].op = r.op
      /\ reqs'[h].sess = r.sess /\ reqs'[h].heard
      /\ \A k \in Handlers \ {h} : reqs'[k] = reqs[k]
      /\ rows' = rows /\ gen' = gen /\ game' = game
      /\ pc' = pc /\ sess' = sess /\ file' = file
  BY <1>1, <1>2, <1>4, DecidedAlike
<1>8. HandlerOK(reqs[h])'
  BY <1>1, <1>3, <1>5, <1>7 DEF HandlerOK, Ending
<1>9. ASSUME NEW m \in Mons, Stays(c, m)
      PROVE  Stays(c, m)'
  <2>1. \A b \in BankSlots : Firm(b) => Firm(b)' \/ removed(b)
    BY <1>1, <1>4, <1>6, DecidedFirm
  <2>2. /\ r.op = "commit" /\ FirmDeposit(sess[c], m) => FirmDeposit(sess[c], m)'
        /\ r.op = "abandon" /\ FirmWithdrawal(sess[c], m) => FirmWithdrawal(sess[c], m)'
    BY <1>7, <2>1 DEF FirmDeposit, FirmWithdrawal
  <2> QED
    BY <1>1, <1>3, <1>7, <1>9, <2>2 DEF Stays, Has, Ending
<1> QED
  BY <1>1, <1>2, <1>4, <1>6, <1>8, <1>9, DecidesLoss DEF ActiveIds, Ending

--------------------------------------------------------------------------------

LEMMA LossInitOK == RequestsInit => LossInv
<1> SUFFICES ASSUME RequestsInit PROVE LossInv
  OBVIOUS
<1>1. /\ Running = {} /\ \A c \in Consoles : sess[c] = None /\ pc[c] = "idle"
      /\ rows \in [BankSlots -> {Settled(PendingRow(m, None)) : m \in Mons} \cup {None}]
      /\ \A m \in Mons : \E p \in Places(m) : Places(m) = {p}
  BY DEF RequestsInit, Init, Running
<1>2. ASSUME NEW m \in Mons
      PROVE  FirmFree(m) \/ \E c \in Consoles : Stays(c, m)
  <2>1. PICK p \in Places(m) : TRUE
    BY <1>1
  <2>2. CASE \E q \in Consoles \X SaveSlots : game[q[1]][q[2]] = m
    <3>1. PICK c \in Consoles, i \in SaveSlots : game[c][i] = m
      BY <2>2
    <3>2. Stays(c, m)
      BY <1>1, <3>1 DEF Stays, Has
    <3> QED
      BY <3>2
  <2>3. CASE \E b \in BankSlots : rows[b] # None /\ rows[b].mon = m
    <3>1. PICK b \in BankSlots : rows[b] # None /\ rows[b].mon = m
      BY <2>3
    <3>2. PICK n \in Mons : rows[b] = Settled(PendingRow(n, None))
      BY <1>1, <3>1
    <3>3. rows[b].held = None
      BY <3>2, PendingIsRow, SettledIsRow
    <3>4. Firm(b)
      BY <1>1, <3>1 DEF Firm, Doomed
    <3> QED
      BY <3>1, <3>3, <3>4 DEF FirmFree, Unclaimed
  <2> QED
    BY <2>1, <2>2, <2>3 DEF Places
<1> QED
  BY <1>1, <1>2 DEF LossInv, NoneLost

LEMMA LossStep ==
    ASSUME Faults \cap {"lost", "crash", "saveChanges", "tornWrite"} = {}, OwnBoxes,
           AllInv, [RequestsNext]_allVars
    PROVE  LossInv'
<1>1. ASSUME NEW c \in Consoles, NEW h \in Handlers, BeginSome(c, h)
      PROVE  LossInv'
  BY <1>1, BeginSomeLoss
<1>2. ASSUME NEW c \in Consoles, LocalStep(c)
      PROVE  LossInv'
  BY <1>2, LocalLoss
<1>3. ASSUME NEW c \in Consoles, SwitchOff(c)
      PROVE  FALSE
  BY <1>3 DEF SwitchOff, Crash
<1>4. ASSUME NEW s \in Sessions, ExpireSession(s)
      PROVE  LossInv'
  BY <1>4, ExpireLoss
<1>5. ASSUME NEW h \in Handlers,
             ReadOrphans(h) \/ ReadBoxes(h) \/ ReadPokemon(h) \/ ReadHeld(h)
      PROVE  LossInv'
  BY <1>5, ReadOrphansLoss, ReadBoxesLoss, ReadPokemonLoss, ReadHeldLoss
<1>6. ASSUME NEW h \in Handlers,
             SaveEdit(h) \/ SaveEnd(h) \/ \E s \in Sessions : SaveOpen(h, s)
      PROVE  LossInv'
  BY <1>6, SaveEditLoss, SaveEndLoss, SaveOpenLoss
<1>7. ASSUME NEW h \in Handlers, SaveThrows(h)
      PROVE  LossInv'
  BY <1>7, SaveThrowsLoss
<1>8. ASSUME NEW h \in Handlers, LoseConnection(h)
      PROVE  FALSE
  BY <1>8 DEF LoseConnection
<1>9. ASSUME NEW h \in Handlers, Cancel(h)
      PROVE  FALSE
  BY <1>9, HandlerFacts DEF Cancel
<1>10. CASE UNCHANGED allVars
  <2>1. UNCHANGED <<rows, gen, reqs, store, game, pc, sess, file>>
    BY <1>10 DEF allVars, vars
  <2>2. /\ Unmoved /\ OnlyThese({})
        /\ \A k \in Running : reqs'[k] # None
        /\ \A k \in Handlers : reqs'[k] # None => k \in Running
    BY <2>1 DEF Unmoved, OnlyThese, Running, ActiveIds
  <2> QED
    BY <2>1, <2>2, QuietLoss
<1> QED
  BY <1>1, <1>2, <1>3, <1>4, <1>5, <1>6, <1>7, <1>8, <1>9, <1>10 DEF RequestsNext, RunHandler

LEMMA LossImpliesNoLoss == RequestsInv /\ LossInv => NoLoss
<1> SUFFICES ASSUME RequestsInv, LossInv, NEW m \in Mons
             PROVE  InBank(m) \/ \E c \in Consoles : Has(game[c], m)
  BY DEF NoLoss
<1>1. CASE FirmFree(m)
  BY <1>1 DEF FirmFree, Firm, InBank
<1>2. ASSUME NEW c \in Consoles, Stays(c, m)
      PROVE  InBank(m) \/ Has(game[c], m)
  <2>1. pc[c] \in Phases
    BY DEF RequestsInv, TypeInv, TypeOK
  <2>2. Has(game[c], m) \/ FirmWithdrawal(sess[c], m) \/ FirmDeposit(sess[c], m)
    BY <1>2, <2>1 DEF Stays, Phases
  <2> QED
    BY <2>2 DEF FirmWithdrawal, FirmDeposit, Firm, InBank
<1> QED
  BY <1>1, <1>2 DEF LossInv, NoneLost

\* No Pokemon is lost, however the handlers of ApiController interleave between their
\* queries and their SaveChangesAsync, and whichever sessions expire meanwhile, where
\* consoles hear the answers to their calls, write whole saves and deposit into boxes
\* of their own, and the database takes what it is given.  Two consoles that deposit into
\* the same box, a call that is given up, a console that is switched off and a save the
\* database refuses are what the hypotheses exclude.
THEOREM NothingLostBetweenHandlers ==
    ASSUME Faults \cap {"lost", "crash", "saveChanges", "tornWrite"} = {}, OwnBoxes
    PROVE  RequestsSpec => []NoLoss
<1>1. RequestsInit => EndInv /\ LossInv
  BY EndInitOK, LossInitOK
<1>2. RequestsInv /\ (EndInv /\ LossInv) /\ [RequestsNext]_allVars => (EndInv /\ LossInv)'
  <2>1. "lost" \notin Faults
    OBVIOUS
  <2> QED
    BY <2>1, EndStep, LossStep DEF AllInv
<1>3. RequestsInv /\ (EndInv /\ LossInv) => NoLoss
  BY LossImpliesNoLoss
<1> QED
  BY <1>1, <1>2, <1>3, RequestsInvariant, PTL DEF RequestsSpec

================================================================================
