----------------------------- MODULE TransferProofs -----------------------------
(***************************************************************************)
(* Theorems about Transfer, for every set of consoles, users, Pokemon,     *)
(* slots and sessions.                                                     *)
(***************************************************************************)
EXTENDS TransferProps, TLAPS

Rows == [BankSlots -> Row \cup {None}]
Store == [Sessions -> SaveSession \cup {None}]

--------------------------------------------------------------------------------
(* The operators of BankService give a table again. *)

\* A settled row is a row.
LEMMA SettledIsRow ==
    ASSUME NEW r \in Row
    PROVE  /\ Settled(r) \in Row
           /\ Settled(r).mon = r.mon /\ Settled(r).committed /\ Settled(r).held = None
BY DEF Settled, Row

\* So is a pending one.
LEMMA PendingIsRow ==
    ASSUME NEW m \in Mons, NEW s \in Sessions \cup {None}
    PROVE  /\ PendingRow(m, s) \in Row
           /\ PendingRow(m, s).mon = m /\ PendingRow(m, s).held = s
           /\ ~PendingRow(m, s).committed
BY DEF PendingRow, Row

LEMMA DepositedType ==
    ASSUME NEW t \in Rows, NEW m \in Mons, NEW s \in Sessions, NEW b \in BankSlots
    PROVE  [t EXCEPT ![b] = PendingRow(m, s)] \in Rows
<1>1. PendingRow(m, s) \in Row
  BY DEF PendingRow, Row
<1> QED
  BY <1>1 DEF Rows

LEMMA WithdrawnType ==
    ASSUME NEW t \in Rows, NEW s \in Sessions, NEW b \in BankSlots, t[b] # None
    PROVE  Withdrawn(t, s, b) \in Rows
<1>1. t[b] \in Row
  BY DEF Rows
<1>2. [t[b] EXCEPT !.held = s] \in Row
  BY <1>1 DEF Row
<1> QED
  BY <1>2 DEF Rows, Withdrawn

LEMMA CommitType ==
    ASSUME NEW t \in Rows, NEW u \in Users, NEW s \in Sessions
    PROVE  CommitSession(t, u, s) \in Rows
<1>1. ASSUME NEW b \in BankSlots, t[b] # None
      PROVE  Settled(t[b]) \in Row
  BY <1>1, SettledIsRow DEF Rows
<1> QED
  BY <1>1 DEF Rows, CommitSession, HeldForUser

LEMMA AbandonType ==
    ASSUME NEW t \in Rows, NEW u \in Users, NEW s \in Sessions
    PROVE  AbandonSession(t, u, s) \in Rows
<1>1. ASSUME NEW b \in BankSlots, t[b] # None
      PROVE  Settled(t[b]) \in Row
  BY <1>1, SettledIsRow DEF Rows
<1> QED
  BY <1>1 DEF Rows, AbandonSession, HeldForUser

LEMMA ReconcileType ==
    ASSUME NEW t \in Rows, NEW live
    PROVE  ReconcileOrphans(t, live) \in Rows
<1>1. ASSUME NEW b \in BankSlots, t[b] # None
      PROVE  Settled(t[b]) \in Row
  BY <1>1, SettledIsRow DEF Rows
<1> QED
  BY <1>1 DEF Rows, ReconcileOrphans, Orphans

LEMMA PutInSaveType ==
    ASSUME store \in Store, NEW s \in ActiveIds, NEW i \in SaveSlots,
           NEW x \in Mons \cup {Blank}
    PROVE  /\ PutInSave(s, i, x) \in Store
           /\ PutInSave(s, i, x)[s].save = [store[s].save EXCEPT ![i] = x]
           /\ PutInSave(s, i, x)[s].user = store[s].user
           /\ PutInSave(s, i, x)[s] # None
           /\ \A t \in Sessions \ {s} : PutInSave(s, i, x)[t] = store[t]
<1>1. s \in Sessions /\ store[s] \in SaveSession
  BY DEF ActiveIds, Store
<1>2. [store[s].save EXCEPT ![i] = x] \in Image
  BY <1>1 DEF SaveSession, Image
<1>3. [store[s] EXCEPT !.save = [store[s].save EXCEPT ![i] = x]] \in SaveSession
  BY <1>1, <1>2 DEF SaveSession
<1>4. PutInSave(s, i, x)
        = [store EXCEPT ![s] = [store[s] EXCEPT !.save = [store[s].save EXCEPT ![i] = x]]]
  BY <1>1 DEF PutInSave
<1> QED
  BY <1>1, <1>2, <1>3, <1>4, NoSessionAssumption DEF Store, SaveSession

--------------------------------------------------------------------------------
(* Types.  TypeOK needs that a console in a transfer remembers a session, that *)
(* one about to write has downloaded a file, and that commits are counted.     *)

PhaseOK ==
    \A c \in Consoles :
      /\ pc[c] = "idle" <=> sess[c] = None
      /\ pc[c] = "write" => file[c] # None
      /\ tries[c] < CommitTries(c)

ConsoleOK ==
    /\ pc \in [Consoles -> Phases]
    /\ sess \in [Consoles -> Sessions \cup {None}]
    /\ dirty \in [Consoles -> BOOLEAN]
    /\ file \in [Consoles -> Image \cup {None}]
    /\ tries \in [Consoles -> 0..2]
    /\ PhaseOK

TypeInv == TypeOK /\ PhaseOK

LEMMA TypeInvParts == TypeInv <=> /\ rows \in Rows /\ store \in Store
                                  /\ game \in [Consoles -> Image] /\ ConsoleOK
BY DEF TypeInv, TypeOK, ConsoleOK, Rows, Store

LEMMA GoHomeOK ==
    ASSUME ConsoleOK, NEW c \in Consoles, GoHome(c)
    PROVE  ConsoleOK'
BY DEF ConsoleOK, PhaseOK, GoHome, Phase, Phases, CommitTries

LEMMA RetryOK ==
    ASSUME ConsoleOK, NEW c \in Consoles, Retry(c)
    PROVE  ConsoleOK'
<1>1. CASE tries[c] + 1 = CommitTries(c)
  BY <1>1, GoHomeOK DEF Retry
<1>2. CASE tries[c] + 1 # CommitTries(c)
  BY <1>2 DEF Retry, ConsoleOK, PhaseOK, Phases, CommitTries
<1> QED
  BY <1>1, <1>2

LEMMA AfterEditOK ==
    ASSUME ConsoleOK, NEW c \in Consoles, NEW heard \in BOOLEAN,
           pc[c] = "edit", AfterEdit(c, heard)
    PROVE  ConsoleOK'
<1>1. CASE c \in Switches
  BY <1>1 DEF AfterEdit, Phase, ConsoleOK, PhaseOK, Phases, CommitTries
<1>2. CASE c \notin Switches
  <2>1. dirty' \in [Consoles -> BOOLEAN]
    BY <1>2 DEF AfterEdit, ConsoleOK
  <2> QED
    BY <1>2, <2>1 DEF AfterEdit, ConsoleOK, PhaseOK, CommitTries
<1> QED
  BY <1>1, <1>2

\* A console that keeps its session and its file may move to another phase.
LEMMA PhaseStepOK ==
    ASSUME ConsoleOK, NEW c \in Consoles, NEW p \in Phases \ {"idle", "write"},
           pc[c] # "idle", Phase(c, p), UNCHANGED <<sess, dirty, file, tries>>
    PROVE  ConsoleOK'
BY DEF ConsoleOK, PhaseOK, Phase, Phases, CommitTries

LEMMA RemoveType ==
    ASSUME store \in Store, NEW s
    PROVE  Remove(s) \in Store
BY DEF Store, Remove

\* What an edit reads: the session is the console's own, and it is open.
LEMMA EditSession ==
    ASSUME TypeInv, NEW c \in Consoles, Get(sess[c], UserOf[c])
    PROVE  /\ sess[c] \in ActiveIds /\ sess[c] \in Sessions
           /\ store[sess[c]] \in SaveSession /\ store[sess[c]].save \in Image
BY DEF TypeInv, TypeOK, Get, ActiveIds, SaveSession

LEMMA EditTypes ==
    ASSUME TypeInv, NEW c \in Consoles, NEW i \in SaveSlots, NEW b \in BankSlots,
           Get(sess[c], UserOf[c])
    PROVE  /\ DepositAccepted(rows, store[sess[c]].save, UserOf[c], i, b)
                => /\ store[sess[c]].save[i] \in Mons
                   /\ Deposited(rows, store[sess[c]].save, sess[c], i, b) \in Rows
           /\ WithdrawAccepted(rows, store[sess[c]].save, UserOf[c], sess[c], i, b)
                => /\ Withdrawn(rows, sess[c], b) \in Rows
                   /\ rows[b].mon \in Mons
           /\ \A x \in Mons \cup {Blank} : PutInSave(sess[c], i, x) \in Store
<1>1. /\ sess[c] \in ActiveIds /\ sess[c] \in Sessions /\ store[sess[c]].save \in Image
      /\ rows \in Rows /\ store \in Store
  BY EditSession, TypeInvParts
<1>2. ASSUME DepositAccepted(rows, store[sess[c]].save, UserOf[c], i, b)
      PROVE  /\ store[sess[c]].save[i] \in Mons
             /\ Deposited(rows, store[sess[c]].save, sess[c], i, b) \in Rows
  <2>1. store[sess[c]].save[i] \in Mons
    BY <1>1, <1>2 DEF DepositAccepted, Image
  <2> QED
    BY <1>1, <2>1, DepositedType DEF Deposited
<1>3. ASSUME WithdrawAccepted(rows, store[sess[c]].save, UserOf[c], sess[c], i, b)
      PROVE  /\ Withdrawn(rows, sess[c], b) \in Rows
             /\ rows[b].mon \in Mons
  BY <1>1, <1>3, WithdrawnType DEF WithdrawAccepted, Rows, Row
<1> QED
  BY <1>1, <1>2, <1>3, PutInSaveType

LEMMA InitType == Init => TypeInv
<1> SUFFICES ASSUME Init PROVE TypeInv
  OBVIOUS
<1>1. rows \in Rows
  <2>1. \A m \in Mons : Settled(PendingRow(m, None)) \in Row
    BY DEF Settled, PendingRow, Row
  <2> QED
    BY <2>1 DEF Init, Rows
<1>2. store \in Store
  BY DEF Init, Store
<1>3. ConsoleOK
  BY DEF Init, ConsoleOK, PhaseOK, Phases, CommitTries
<1> QED
  BY <1>1, <1>2, <1>3, TypeInvParts DEF Init

LEMMA TypeStep == TypeInv /\ [Next]_vars => TypeInv'
<1> SUFFICES ASSUME TypeInv, [Next]_vars
             PROVE  /\ rows' \in Rows /\ store' \in Store
                    /\ game' \in [Consoles -> Image] /\ ConsoleOK'
  BY TypeInvParts DEF TypeInv, TypeOK, ConsoleOK, Rows, Store
<1> USE TypeInvParts
<1>1. ASSUME NEW c \in Consoles, NEW s \in Sessions, NEW heard \in BOOLEAN,
             OpenSession(c, s, heard)
      PROVE  /\ rows' \in Rows /\ store' \in Store
             /\ game' \in [Consoles -> Image] /\ ConsoleOK'
  <2>1. rows' \in Rows
    BY <1>1, ReconcileType DEF OpenSession
  <2>2. store' \in Store
    <3>1. [user |-> UserOf[c], save |-> game[c]] \in SaveSession
      BY UserOfAssumption DEF SaveSession
    <3> QED
      BY <1>1, <3>1 DEF OpenSession, Create, Store
  <2>3. ConsoleOK'
    <3>1. CASE heard
      BY <1>1, <3>1, NoneAssumption
      DEF OpenSession, Phase, ConsoleOK, PhaseOK, Phases, CommitTries
    <3>2. CASE ~heard
      BY <1>1, <3>2 DEF OpenSession, console, ConsoleOK, PhaseOK, CommitTries
    <3> QED
      BY <3>1, <3>2
  <2> QED
    BY <1>1, <2>1, <2>2, <2>3 DEF OpenSession
<1>2. ASSUME NEW c \in Consoles, ListBank(c)
      PROVE  /\ rows' \in Rows /\ store' \in Store
             /\ game' \in [Consoles -> Image] /\ ConsoleOK'
  BY <1>2, ReconcileType DEF ListBank, console, ConsoleOK, PhaseOK, CommitTries
<1>3. ASSUME NEW c \in Consoles, NEW i \in SaveSlots, NEW b \in BankSlots,
             NEW heard \in BOOLEAN,
             \/ Deposit(c, i, b, heard)
             \/ DepositFails(c, i, b) /\ ~heard
      PROVE  /\ rows' \in Rows /\ store' \in Store
             /\ game' \in [Consoles -> Image] /\ ConsoleOK'
  <2>1. ConsoleOK'
    BY <1>3, AfterEditOK DEF Deposit, DepositFails
  <2> QED
    BY <1>3, <2>1, EditTypes DEF Deposit, DepositFails
<1>4. ASSUME NEW c \in Consoles, NEW i \in SaveSlots, NEW b \in BankSlots,
             NEW heard \in BOOLEAN,
             \/ Withdraw(c, i, b, heard)
             \/ WithdrawFails(c, i, b) /\ ~heard
      PROVE  /\ rows' \in Rows /\ store' \in Store
             /\ game' \in [Consoles -> Image] /\ ConsoleOK'
  <2>1. ConsoleOK'
    BY <1>4, AfterEditOK, GoHomeOK DEF Withdraw, WithdrawFails
  <2> QED
    BY <1>4, <2>1, EditTypes DEF Withdraw, WithdrawFails
<1>5. ASSUME NEW c \in Consoles, ChooseWrite(c) \/ LeaveBoxes(c) \/ DownloadFails(c)
      PROVE  /\ rows' \in Rows /\ store' \in Store
             /\ game' \in [Consoles -> Image] /\ ConsoleOK'
  <2>1. ConsoleOK'
    BY <1>5, PhaseStepOK DEF ChooseWrite, LeaveBoxes, DownloadFails, Phases
  <2> QED
    BY <1>5, <2>1 DEF ChooseWrite, LeaveBoxes, DownloadFails
<1>6. ASSUME NEW c \in Consoles, SwitchGivesUp(c) \/ AbandonFails(c) \/ Crash(c)
      PROVE  /\ rows' \in Rows /\ store' \in Store
             /\ game' \in [Consoles -> Image] /\ ConsoleOK'
  BY <1>6, GoHomeOK DEF SwitchGivesUp, AbandonFails, Crash
<1>7. ASSUME NEW c \in Consoles, Download(c)
      PROVE  /\ rows' \in Rows /\ store' \in Store
             /\ game' \in [Consoles -> Image] /\ ConsoleOK'
  <2>1. store[sess[c]].save \in Image
    BY <1>7, EditSession DEF Download
  <2>2. ConsoleOK'
    BY <1>7, <2>1, NoFileAssumption
    DEF Download, Phase, ConsoleOK, PhaseOK, Phases, CommitTries
  <2> QED
    BY <1>7, <2>2 DEF Download
<1>8. ASSUME NEW c \in Consoles, WriteSave(c) \/ WriteFails(c) \/ TornWrite(c)
      PROVE  /\ rows' \in Rows /\ store' \in Store
             /\ game' \in [Consoles -> Image] /\ ConsoleOK'
  <2>1. pc[c] = "write" /\ file[c] \in Image /\ game[c] \in Image
    BY <1>8 DEF WriteSave, WriteFails, TornWrite, ConsoleOK, PhaseOK
  <2>2. ConsoleOK'
    BY <1>8, <2>1, PhaseStepOK DEF WriteSave, WriteFails, TornWrite, Phases
  <2>3. \A new \in SUBSET SaveSlots :
          [i \in SaveSlots |-> IF i \in new THEN file[c][i] ELSE game[c][i]] \in Image
    BY <2>1 DEF Image
  <2>4. game' \in [Consoles -> Image]
    BY <1>8, <2>1, <2>3 DEF WriteSave, WriteFails, TornWrite
  <2> QED
    BY <1>8, <2>2, <2>4 DEF WriteSave, WriteFails, TornWrite
<1>9. ASSUME NEW c \in Consoles, NEW heard \in BOOLEAN,
             Finalize(c, heard) \/ FinalizeFails(c)
      PROVE  /\ rows' \in Rows /\ store' \in Store
             /\ game' \in [Consoles -> Image] /\ ConsoleOK'
  <2>1. ConsoleOK'
    BY <1>9, GoHomeOK, RetryOK DEF Finalize, FinalizeFails
  <2>2. UserOf[c] \in Users /\ sess[c] \in Sessions
    BY <1>9, UserOfAssumption DEF Finalize, FinalizeFails, ConsoleOK, PhaseOK
  <2> QED
    BY <1>9, <2>1, <2>2, CommitType, RemoveType DEF Finalize, FinalizeFails
<1>10. ASSUME NEW c \in Consoles, Abandon(c)
       PROVE  /\ rows' \in Rows /\ store' \in Store
              /\ game' \in [Consoles -> Image] /\ ConsoleOK'
  <2>1. UserOf[c] \in Users /\ sess[c] \in Sessions
    BY <1>10, UserOfAssumption DEF Abandon, ConsoleOK, PhaseOK
  <2> QED
    BY <1>10, <2>1, GoHomeOK, AbandonType, RemoveType DEF Abandon
<1>11. ASSUME Restart \/ \E s \in Sessions : Expire(s)
       PROVE  /\ rows' \in Rows /\ store' \in Store
              /\ game' \in [Consoles -> Image] /\ ConsoleOK'
  <2>1. store' \in Store
    BY <1>11, RemoveType DEF Restart, Expire, Store
  <2> QED
    BY <1>11, <2>1 DEF Restart, Expire, console, ConsoleOK, PhaseOK, CommitTries
<1>12. CASE UNCHANGED vars
  BY <1>12 DEF vars, ConsoleOK, PhaseOK, CommitTries
<1> QED
  BY <1>1, <1>2, <1>3, <1>4, <1>5, <1>6, <1>7, <1>8, <1>9, <1>10, <1>11, <1>12
  DEF Next, ConsoleNext, Edit, RunOn

\* The variables keep their types, and the console's session, file and commit
\* counter fit its phase: transfer_flow never writes a file it did not download
\* and never uses a session it does not have.
THEOREM TypeCorrect == Spec => []TypeInv
<1>1. Init => TypeInv
  BY InitType
<1>2. TypeInv /\ [Next]_vars => TypeInv'
  BY TypeStep
<1> QED
  BY <1>1, <1>2, PTL DEF Spec

\* The variables keep their types, whatever fault interrupts a transfer: in
\* particular a commit is never posted more often than session_commit allows.
THEOREM TypesKept == Spec => []TypeOK
<1>1. TypeInv => TypeOK
  BY DEF TypeInv
<1> QED
  BY <1>1, TypeCorrect, PTL

--------------------------------------------------------------------------------
(* Who holds rows. *)

PendingIsHeld == \A b \in BankSlots : IsPending(rows[b]) => rows[b].held # None

SessionsUnique ==
    \A c, d \in Consoles : sess[c] = sess[d] /\ sess[c] # None => c = d

HoldInv == PendingIsHeld /\ SessionsUnique /\ HoldsAreOwn

\* The end of a session leaves a row alone, settles it or removes it.
OnlySettles(t, tt) ==
    \A b \in BankSlots : tt[b] \in {t[b], None} \/ (t[b] # None /\ tt[b] = Settled(t[b]))

LEMMA EndsOnlySettle ==
    ASSUME NEW t \in Rows, NEW u, NEW s, NEW live
    PROVE  /\ OnlySettles(t, CommitSession(t, u, s))
           /\ OnlySettles(t, AbandonSession(t, u, s))
           /\ OnlySettles(t, ReconcileOrphans(t, live))
<1>1. OnlySettles(t, CommitSession(t, u, s))
  BY DEF OnlySettles, CommitSession, HeldForUser
<1>2. OnlySettles(t, AbandonSession(t, u, s))
  BY DEF OnlySettles, AbandonSession, HeldForUser
<1>3. OnlySettles(t, ReconcileOrphans(t, live))
  BY DEF OnlySettles, ReconcileOrphans, Orphans
<1> QED
  BY <1>1, <1>2, <1>3

\* Ending sessions and forgetting them gives nobody a new hold.
LEMMA HoldShrinks ==
    ASSUME TypeInv, HoldInv, OnlySettles(rows, rows'),
           \A d \in Consoles : sess'[d] \in {sess[d], None}
    PROVE  HoldInv'
<1>1. \A b \in BankSlots : rows[b] # None => rows[b] \in Row
  BY DEF TypeInv, TypeOK
<1>2. ASSUME NEW b \in BankSlots, rows'[b] # None, rows'[b] # rows[b]
      PROVE  rows'[b].committed /\ rows'[b].held = None
  BY <1>1, <1>2, SettledIsRow DEF OnlySettles
<1>3. PendingIsHeld'
  BY <1>2 DEF PendingIsHeld, HoldInv, IsPending
<1>4. SessionsUnique'
  BY DEF SessionsUnique, HoldInv
<1>5. HoldsAreOwn'
  BY <1>2 DEF HoldsAreOwn, HoldInv
<1> QED
  BY <1>3, <1>4, <1>5 DEF HoldInv

\* GoHome makes a console forget its session, and no other.
LEMMA GoHomeSess ==
    ASSUME TypeInv, NEW c \in Consoles, GoHome(c)
    PROVE  /\ sess'[c] = None /\ pc'[c] = "idle"
           /\ \A d \in Consoles \ {c} : sess'[d] = sess[d] /\ pc'[d] = pc[d] /\ file'[d] = file[d]
BY DEF GoHome, Phase, TypeInv, TypeOK

LEMMA HoldStep == TypeInv /\ HoldInv /\ [Next]_vars => HoldInv'
<1> SUFFICES ASSUME TypeInv, HoldInv, [Next]_vars PROVE HoldInv'
  OBVIOUS
<1>t. rows \in Rows /\ sess \in [Consoles -> Sessions \cup {None}]
  BY TypeInvParts DEF ConsoleOK
<1>n. OnlySettles(rows, rows)
  BY DEF OnlySettles
<1>1. ASSUME NEW c \in Consoles, NEW s \in Sessions, NEW heard \in BOOLEAN,
             OpenSession(c, s, heard)
      PROVE  HoldInv'
  <2>1. OnlySettles(rows, rows')
    BY <1>1, <1>t, EndsOnlySettle DEF OpenSession
  <2>2. CASE ~heard
    BY <1>1, <2>1, <2>2, HoldShrinks DEF OpenSession, console
  <2>3. CASE heard
    <3>1. sess' = [sess EXCEPT ![c] = s] /\ \A d \in Consoles : sess[d] # s
      BY <1>1, <2>3 DEF OpenSession, IsNewId
    <3>2. \A b \in BankSlots : rows[b] # None => rows[b] \in Row /\ rows[b].held # s
      BY <1>1, <1>t DEF OpenSession, IsNewId, Rows
    <3>3. ASSUME NEW b \in BankSlots, rows'[b] # None, rows'[b] # rows[b]
          PROVE  rows'[b].committed /\ rows'[b].held = None
      BY <2>1, <3>2, <3>3, SettledIsRow DEF OnlySettles
    <3>4. PendingIsHeld'
      BY <3>3 DEF PendingIsHeld, HoldInv, IsPending
    <3>5. SessionsUnique'
      BY <3>1, <1>t DEF SessionsUnique, HoldInv
    <3>6. HoldsAreOwn'
      BY <3>1, <3>2, <3>3, <1>t DEF HoldsAreOwn, HoldInv
    <3> QED
      BY <3>4, <3>5, <3>6 DEF HoldInv
  <2> QED
    BY <2>2, <2>3
<1>2. ASSUME NEW c \in Consoles, ListBank(c)
      PROVE  HoldInv'
  BY <1>2, <1>t, EndsOnlySettle, HoldShrinks DEF ListBank, console
<1>3. ASSUME NEW c \in Consoles, NEW i \in SaveSlots, NEW b \in BankSlots,
             NEW heard \in BOOLEAN, Deposit(c, i, b, heard)
      PROVE  HoldInv'
  <2> DEFINE s == sess[c]
             m == store[s].save[i]
  <2>1. /\ s \in Sessions /\ m \in Mons /\ BankOwner[b] = UserOf[c]
        /\ rows' = [rows EXCEPT ![b] = PendingRow(m, s)] /\ sess' = sess
    BY <1>3, EditSession, EditTypes
    DEF Deposit, DepositAccepted, Deposited, AfterEdit
  <2>2. /\ rows'[b] = PendingRow(m, s)
        /\ \A x \in BankSlots \ {b} : rows'[x] = rows[x]
    BY <2>1, <1>t DEF Rows
  <2>3. PendingRow(m, s) # None /\ PendingRow(m, s).held = s /\ s # None
    BY <2>1, PendingIsRow, NoRowAssumption, NoneAssumption
  <2>4. PendingIsHeld'
    BY <2>2, <2>3 DEF PendingIsHeld, HoldInv, IsPending
  <2>5. SessionsUnique'
    BY <2>1 DEF SessionsUnique, HoldInv
  <2>6. HoldsAreOwn'
    <3> SUFFICES ASSUME NEW x \in BankSlots, NEW d \in Consoles,
                        rows'[x] # None, rows'[x].held # None, rows'[x].held = sess[d]
                 PROVE  BankOwner[x] = UserOf[d]
      BY <2>1 DEF HoldsAreOwn
    <3>1. CASE x = b
      BY <2>1, <2>2, <2>3, <3>1 DEF SessionsUnique, HoldInv
    <3>2. CASE x # b
      BY <2>2, <3>2 DEF HoldsAreOwn, HoldInv
    <3> QED
      BY <3>1, <3>2
  <2> QED
    BY <2>4, <2>5, <2>6 DEF HoldInv
<1>4. ASSUME NEW c \in Consoles, NEW i \in SaveSlots, NEW b \in BankSlots,
             NEW heard \in BOOLEAN, Withdraw(c, i, b, heard)
      PROVE  HoldInv'
  <2> DEFINE s == sess[c]
  <2>1. /\ s \in Sessions /\ BankOwner[b] = UserOf[c] /\ rows[b] \in Row
        /\ rows' = Withdrawn(rows, s, b)
        /\ \A d \in Consoles : sess'[d] \in {sess[d], None}
    BY <1>4, <1>t, EditSession, GoHomeSess
    DEF Withdraw, WithdrawAccepted, AfterEdit, Rows
  <2>2. /\ \A x \in BankSlots \ {b} : rows'[x] = rows[x]
        /\ rows'[b] # None => rows'[b].committed /\ rows'[b].held = s
    <3>1. /\ [rows[b] EXCEPT !.held = s].committed = rows[b].committed
          /\ [rows[b] EXCEPT !.held = s].held = s
      BY <2>1 DEF Row
    <3> QED
      BY <2>1, <3>1, <1>t DEF Withdrawn, Rows
  <2>4. PendingIsHeld'
    BY <2>2 DEF PendingIsHeld, HoldInv, IsPending
  <2>5. SessionsUnique'
    BY <2>1 DEF SessionsUnique, HoldInv
  <2>6. HoldsAreOwn'
    <3> SUFFICES ASSUME NEW x \in BankSlots, NEW d \in Consoles, rows'[x] # None,
                        rows'[x].held # None, rows'[x].held = sess[d]
                 PROVE  BankOwner[x] = UserOf[d]
      BY <2>1 DEF HoldsAreOwn
    <3>1. CASE x = b
      BY <2>1, <2>2, <3>1 DEF SessionsUnique, HoldInv
    <3>2. CASE x # b
      BY <2>2, <3>2 DEF HoldsAreOwn, HoldInv
    <3> QED
      BY <3>1, <3>2
  <2> QED
    BY <2>4, <2>5, <2>6 DEF HoldInv
<1>5. ASSUME NEW c \in Consoles, NEW i \in SaveSlots, NEW b \in BankSlots,
             DepositFails(c, i, b) \/ WithdrawFails(c, i, b)
      PROVE  HoldInv'
  BY <1>5, <1>n, GoHomeSess, HoldShrinks DEF DepositFails, WithdrawFails, AfterEdit
<1>6. ASSUME NEW c \in Consoles,
             \/ ChooseWrite(c) \/ LeaveBoxes(c) \/ SwitchGivesUp(c) \/ Crash(c)
             \/ Download(c) \/ DownloadFails(c) \/ WriteSave(c) \/ WriteFails(c)
             \/ TornWrite(c) \/ FinalizeFails(c) \/ AbandonFails(c)
      PROVE  HoldInv'
  <2>1. rows' = rows /\ \A d \in Consoles : sess'[d] \in {sess[d], None}
    BY <1>6, GoHomeSess
    DEF ChooseWrite, LeaveBoxes, SwitchGivesUp, Crash, Download, DownloadFails,
        WriteSave, WriteFails, TornWrite, FinalizeFails, AbandonFails, Retry
  <2> QED
    BY <2>1, <1>n, HoldShrinks
<1>7. ASSUME NEW c \in Consoles, NEW heard \in BOOLEAN, Finalize(c, heard) \/ Abandon(c)
      PROVE  HoldInv'
  <2>1. OnlySettles(rows, rows')
    BY <1>7, <1>t, EndsOnlySettle DEF Finalize, Abandon
  <2>2. \A d \in Consoles : sess'[d] \in {sess[d], None}
    BY <1>7, GoHomeSess DEF Finalize, Abandon, Retry
  <2> QED
    BY <2>1, <2>2, HoldShrinks
<1>8. ASSUME Restart \/ (\E s \in Sessions : Expire(s)) \/ UNCHANGED vars
      PROVE  HoldInv'
  BY <1>8, <1>n, HoldShrinks DEF Restart, Expire, console, vars
<1> QED
  BY <1>1, <1>2, <1>3, <1>4, <1>5, <1>6, <1>7, <1>8 DEF Next, ConsoleNext, Edit, RunOn

LEMMA InitHold == Init => HoldInv
<1> SUFFICES ASSUME Init PROVE HoldInv
  OBVIOUS
<1>1. \A b \in BankSlots : rows[b] # None => rows[b].committed /\ rows[b].held = None
  <2>1. \A m \in Mons : PendingRow(m, None) \in Row
    BY DEF PendingRow, Row
  <2> QED
    BY <2>1, SettledIsRow DEF Init
<1> QED
  BY <1>1 DEF Init, HoldInv, PendingIsHeld, SessionsUnique, HoldsAreOwn, IsPending

\* A hold is always on a row of the account its console is signed in to: the
\* BankBox.UserId filters of BankService keep the users apart.
THEOREM OwnHolds == Spec => []HoldsAreOwn
<1>1. Init => TypeInv /\ HoldInv
  BY InitType, InitHold
<1>2. TypeInv /\ HoldInv /\ [Next]_vars => (TypeInv /\ HoldInv)'
  BY TypeStep, HoldStep
<1>3. HoldInv => HoldsAreOwn
  BY DEF HoldInv
<1> QED
  BY <1>1, <1>2, <1>3, PTL DEF Spec

--------------------------------------------------------------------------------
(* Transfer implements RowLifecycle, whatever faults occur: every step is one  *)
(* step of the bank's promise, or none.                                        *)

Bar == [b \in BankSlots |-> Stage(rows[b])]

\* The stage of a row determines the row, up to its Pokemon.
LEMMA StageOf ==
    ASSUME NEW r \in Row \cup {None}
    PROVE  /\ Stage(r).by \in Sessions \cup {None}
           /\ r = None => Stage(r) = Lifecycle!Empty
           /\ r # None => /\ Stage(r).by = r.held
                          /\ r.committed /\ r.held = None => Stage(r) = Lifecycle!Banked
                          /\ r.committed /\ r.held # None => Stage(r) = Lifecycle!Held(r.held)
                          /\ ~r.committed => Stage(r) = Lifecycle!Pending(r.held)
BY NoRowAssumption
DEF Stage, Row, Lifecycle!Empty, Lifecycle!Banked, Lifecycle!Held, Lifecycle!Pending

\* Stages that differ in kind differ.
LEMMA StagesDiffer ==
    ASSUME NEW s \in Sessions, NEW h
    PROVE  /\ Lifecycle!Empty # Lifecycle!Pending(s) /\ Lifecycle!Empty # Lifecycle!Held(s)
           /\ Lifecycle!Banked # Lifecycle!Pending(s) /\ Lifecycle!Banked # Lifecycle!Held(s)
           /\ Lifecycle!Held(h) # Lifecycle!Pending(s)
           /\ Lifecycle!Pending(h) # Lifecycle!Held(s)
           /\ Lifecycle!Pending(h) = Lifecycle!Pending(s) <=> h = s
           /\ Lifecycle!Held(h) = Lifecycle!Held(s) <=> h = s
BY DEF Lifecycle!Empty, Lifecycle!Banked, Lifecycle!Held, Lifecycle!Pending

LEMMA SettledIsBanked ==
    ASSUME NEW r \in Row
    PROVE  Stage(Settled(r)) = Lifecycle!Banked
BY SettledIsRow, StageOf, NoRowAssumption

LEMMA LifecycleInit == Init => Lifecycle!Init
<1> SUFFICES ASSUME Init, NEW b \in BankSlots
             PROVE  Stage(rows[b]) \in {Lifecycle!Empty, Lifecycle!Banked}
  BY DEF Lifecycle!Init
<1>1. CASE rows[b] = None
  BY <1>1, StageOf
<1>2. CASE rows[b] # None
  <2>1. PICK m \in Mons : rows[b] = Settled(PendingRow(m, None))
    BY <1>2 DEF Init
  <2> QED
    BY <2>1, PendingIsRow, SettledIsBanked
<1> QED
  BY <1>1, <1>2

\* A reconciliation releases the sessions that are gone.
LEMMA ReconcileReleases ==
    ASSUME TypeInv, rows' = ReconcileOrphans(rows, ActiveIds)
    PROVE  Lifecycle!Release(Sessions \ ActiveIds)
<1> DEFINE S == Sessions \ ActiveIds
<1> SUFFICES ASSUME NEW b \in BankSlots
             PROVE  Stage(rows'[b]) = IF Stage(rows[b]).by \in S THEN Lifecycle!Banked
                                                                ELSE Stage(rows[b])
  BY DEF Lifecycle!Release
<1>1. rows[b] \in Row \cup {None}
  BY DEF TypeInv, TypeOK
<1>2. Stage(rows[b]).by \in S <=> b \in Orphans(rows, ActiveIds)
  BY <1>1, StageOf, NoneAssumption DEF Orphans, Lifecycle!Empty, Row
<1>3. rows'[b] = IF b \in Orphans(rows, ActiveIds) THEN Settled(rows[b]) ELSE rows[b]
  BY DEF ReconcileOrphans
<1> QED
  BY <1>1, <1>2, <1>3, SettledIsBanked DEF Orphans

\* A commit finishes, and an abandon gives back, all that the session holds.
LEMMA EndsTogether ==
    ASSUME TypeInv, HoldInv, NEW c \in Consoles, sess[c] # None
    PROVE  /\ rows' = CommitSession(rows, UserOf[c], sess[c]) => Lifecycle!Finish(sess[c])
           /\ rows' = AbandonSession(rows, UserOf[c], sess[c]) => Lifecycle!GiveBack(sess[c])
<1> DEFINE s == sess[c]
<1>1. s \in Sessions
  BY DEF TypeInv, TypeOK
<1>2. ASSUME NEW b \in BankSlots
      PROVE  /\ rows[b] \in Row \cup {None}
             /\ b \in HeldForUser(rows, UserOf[c], s) <=> rows[b] # None /\ rows[b].held = s
             /\ Stage(rows[b]) = Lifecycle!Pending(s)
                  <=> rows[b] # None /\ rows[b].held = s /\ ~rows[b].committed
             /\ Stage(rows[b]) = Lifecycle!Held(s)
                  <=> rows[b] # None /\ rows[b].held = s /\ rows[b].committed
  <2>1. rows[b] \in Row \cup {None}
    BY DEF TypeInv, TypeOK
  <2>2. b \in HeldForUser(rows, UserOf[c], s) <=> rows[b] # None /\ rows[b].held = s
    BY DEF HeldForUser, HoldInv, HoldsAreOwn
  <2>3. CASE rows[b] = None
    BY <1>1, <2>1, <2>2, <2>3, StageOf, StagesDiffer
  <2>4. CASE rows[b] # None
    BY <1>1, <2>1, <2>2, <2>4, StageOf, StagesDiffer DEF Row
  <2> QED
    BY <2>1, <2>2, <2>3, <2>4
<1>3. ASSUME rows' = CommitSession(rows, UserOf[c], s)
      PROVE  Lifecycle!Finish(s)
  <2> SUFFICES ASSUME NEW b \in BankSlots
               PROVE  Stage(rows'[b]) =
                        IF Stage(rows[b]) = Lifecycle!Pending(s) THEN Lifecycle!Banked
                        ELSE IF Stage(rows[b]) = Lifecycle!Held(s) THEN Lifecycle!Empty
                        ELSE Stage(rows[b])
    BY DEF Lifecycle!Finish
  <2>1. rows'[b] = IF b \notin HeldForUser(rows, UserOf[c], s) THEN rows[b]
                   ELSE IF rows[b].committed THEN None ELSE Settled(rows[b])
    BY <1>3 DEF CommitSession
  <2> QED
    BY <1>1, <1>2, <2>1, StageOf, StagesDiffer, SettledIsBanked
<1>4. ASSUME rows' = AbandonSession(rows, UserOf[c], s)
      PROVE  Lifecycle!GiveBack(s)
  <2> SUFFICES ASSUME NEW b \in BankSlots
               PROVE  Stage(rows'[b]) =
                        IF Stage(rows[b]) = Lifecycle!Pending(s) THEN Lifecycle!Empty
                        ELSE IF Stage(rows[b]) = Lifecycle!Held(s) THEN Lifecycle!Banked
                        ELSE Stage(rows[b])
    BY DEF Lifecycle!GiveBack
  <2>1. rows'[b] = IF b \notin HeldForUser(rows, UserOf[c], s) THEN rows[b]
                   ELSE IF rows[b].committed THEN Settled(rows[b]) ELSE None
    BY <1>4 DEF AbandonSession
  <2> QED
    BY <1>1, <1>2, <2>1, StageOf, StagesDiffer, SettledIsBanked
<1> QED
  BY <1>3, <1>4

LEMMA LifecycleStep ==
    ASSUME TypeInv, HoldInv, [Next]_vars
    PROVE  [Lifecycle!Next]_Bar
<1>t. rows \in Rows /\ \A b \in BankSlots : rows[b] \in Row \cup {None}
  BY TypeInvParts DEF Rows
<1>n. UNCHANGED rows => UNCHANGED Bar
  BY DEF Bar
<1>1. ASSUME NEW c \in Consoles,
             \/ \E s \in Sessions, heard \in BOOLEAN : OpenSession(c, s, heard)
             \/ ListBank(c)
      PROVE  Lifecycle!Next
  <2>1. Lifecycle!Release(Sessions \ ActiveIds)
    BY <1>1, ReconcileReleases DEF OpenSession, ListBank
  <2> QED
    BY <2>1 DEF Lifecycle!Next
<1>2. ASSUME NEW c \in Consoles, NEW i \in SaveSlots, NEW b \in BankSlots,
             NEW heard \in BOOLEAN, Deposit(c, i, b, heard)
      PROVE  Lifecycle!Next
  <2> DEFINE m == store[sess[c]].save[i]
  <2>1. /\ sess[c] \in Sessions /\ m \in Mons /\ rows[b] = None
        /\ rows' = [rows EXCEPT ![b] = PendingRow(m, sess[c])]
    BY <1>2, EditSession, EditTypes DEF Deposit, DepositAccepted, Deposited
  <2>2. /\ Stage(rows[b]) = Lifecycle!Empty
        /\ Stage(PendingRow(m, sess[c])) = Lifecycle!Pending(sess[c])
    BY <2>1, StageOf, PendingIsRow, NoRowAssumption
  <2>3. Lifecycle!Reserve(b, sess[c])
    BY <2>1, <2>2, <1>t DEF Lifecycle!Reserve, Rows
  <2> QED
    BY <2>1, <2>3 DEF Lifecycle!Next
<1>3. ASSUME NEW c \in Consoles, NEW i \in SaveSlots, NEW b \in BankSlots,
             NEW heard \in BOOLEAN, Withdraw(c, i, b, heard)
      PROVE  Lifecycle!Next
  <2> DEFINE s == sess[c]
  <2>1. /\ s \in Sessions /\ rows[b] \in Row /\ rows[b] # None
        /\ rows' = Withdrawn(rows, s, b)
        /\ rows[b].held \in {None, s} /\ ~(rows[b].committed /\ rows[b].held # None)
    BY <1>3, <1>t, EditSession DEF Withdraw, WithdrawAccepted
  <2>2. CASE rows[b].committed
    <3>1. Stage(rows[b]) = Lifecycle!Banked
      BY <2>1, <2>2, StageOf
    <3>2. /\ [rows[b] EXCEPT !.held = s] \in Row
          /\ [rows[b] EXCEPT !.held = s].held = s
          /\ [rows[b] EXCEPT !.held = s].committed
      BY <2>1, <2>2 DEF Row
    <3>3. Stage([rows[b] EXCEPT !.held = s]) = Lifecycle!Held(s)
      BY <2>1, <3>2, StageOf, NoRowAssumption, NoneAssumption
    <3>4. Lifecycle!Take(b, s)
      BY <2>1, <2>2, <3>1, <3>3, <1>t DEF Lifecycle!Take, Withdrawn, Rows
    <3> QED
      BY <2>1, <3>4 DEF Lifecycle!Next
  <2>3. CASE ~rows[b].committed
    <3>1. Stage(rows[b]) = Lifecycle!Pending(s)
      BY <2>1, <2>3, StageOf DEF HoldInv, PendingIsHeld, IsPending
    <3>2. Lifecycle!Undo(b, s)
      BY <2>1, <2>3, <3>1, <1>t, StageOf DEF Lifecycle!Undo, Withdrawn, Rows
    <3> QED
      BY <2>1, <3>2 DEF Lifecycle!Next
  <2> QED
    BY <2>2, <2>3
<1>4. ASSUME NEW c \in Consoles,
             (\E heard \in BOOLEAN : Finalize(c, heard)) \/ Abandon(c)
      PROVE  Lifecycle!Next
  <2>1. sess[c] # None /\ sess[c] \in Sessions
    BY <1>4 DEF Finalize, Abandon, TypeInv, TypeOK, PhaseOK
  <2>2. Lifecycle!Finish(sess[c]) \/ Lifecycle!GiveBack(sess[c])
    BY <1>4, <2>1, EndsTogether DEF Finalize, Abandon
  <2> QED
    BY <2>1, <2>2 DEF Lifecycle!Next
<1>5. ASSUME NEW c \in Consoles,
             \/ \E i \in SaveSlots, b \in BankSlots : DepositFails(c, i, b) \/ WithdrawFails(c, i, b)
             \/ ChooseWrite(c) \/ LeaveBoxes(c) \/ SwitchGivesUp(c) \/ Crash(c)
             \/ Download(c) \/ DownloadFails(c) \/ WriteSave(c) \/ WriteFails(c)
             \/ TornWrite(c) \/ FinalizeFails(c) \/ AbandonFails(c)
      PROVE  UNCHANGED rows
  BY <1>5 DEF DepositFails, WithdrawFails, ChooseWrite, LeaveBoxes, SwitchGivesUp, Crash,
              Download, DownloadFails, WriteSave, WriteFails, TornWrite, FinalizeFails,
              AbandonFails
<1>6. ASSUME Restart \/ (\E s \in Sessions : Expire(s)) \/ UNCHANGED vars
      PROVE  UNCHANGED rows
  BY <1>6 DEF Restart, Expire, vars
<1>7. Lifecycle!Next \/ UNCHANGED rows
  <2>1. CASE Next
    BY <2>1, <1>1, <1>2, <1>3, <1>4, <1>5, <1>6 DEF Next, ConsoleNext, Edit, RunOn
  <2> QED
    BY <2>1, <1>6
<1> QED
  BY <1>7, <1>n

\* The bank keeps its promise whatever goes wrong around it, including a database
\* that refuses to save and a save that is half written: a Pokemon is reserved by
\* one session at a time, only that session or the clean-up after it ends the
\* reservation, and all reservations of a session end together and the same way.
THEOREM Implements == Spec => KeepsLifecycle
<1>1. Init => TypeInv /\ HoldInv /\ Lifecycle!Init
  BY InitType, InitHold, LifecycleInit
<1>2. TypeInv /\ HoldInv /\ [Next]_vars => (TypeInv /\ HoldInv)'
  BY TypeStep, HoldStep
<1>3. TypeInv /\ HoldInv /\ [Next]_vars => [Lifecycle!Next]_Bar
  BY LifecycleStep
<1> QED
  BY <1>1, <1>2, <1>3, PTL DEF Spec, KeepsLifecycle, Lifecycle!Spec, Bar

================================================================================
