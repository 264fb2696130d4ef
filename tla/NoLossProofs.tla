------------------------------ MODULE NoLossProofs ------------------------------
(***************************************************************************)
(* No step of a transfer destroys the last copy of a Pokemon, or makes a   *)
(* second one that counts, however many consoles there are and whatever is *)
(* lost, crashes, restarts or expires, provided that the database accepts  *)
(* what the handlers save and that a save is written as a whole or not at  *)
(* all.  The first part is about the last copy, the second about the books *)
(* of a session and what they say of second copies.                        *)
(*                                                                         *)
(* NoLoss is not inductive: a game may hold the only copy while its        *)
(* console is about to overwrite it.  Every console in a transfer has two  *)
(* futures, it writes and commits or it abandons, and each console chooses *)
(* by itself; so a Pokemon is safe exactly when some row is in nobody's    *)
(* hands or some one console keeps it in both of its futures (Anchored).   *)
(***************************************************************************)
EXTENDS TransferProofs

--------------------------------------------------------------------------------
(* The inductive invariant. *)

\* A row of m that no console's transfer can end.
FreeRow(m) ==
    \E b \in BankSlots :
      /\ rows[b] # None /\ rows[b].mon = m
      /\ rows[b].held = None \/ \A c \in Consoles : sess[c] # rows[b].held

\* Console c keeps m in each future it may still choose: if it writes nothing,
\* and, as far as it has come, if it writes its copy and commits.
Keeps(c, m) ==
    /\ pc[c] = "idle" => Has(game[c], m)
    /\ pc[c] \in {"edit", "download", "write", "abandon"}
         => Has(game[c], m) \/ Withdrawing(sess[c], m)
    /\ pc[c] \in {"edit", "download"} /\ sess[c] \in ActiveIds
         => Has(store[sess[c]].save, m) \/ Depositing(sess[c], m)
    /\ pc[c] = "write" => Has(file[c], m) \/ Depositing(sess[c], m)
    /\ pc[c] = "commit" => Has(game[c], m) \/ Depositing(sess[c], m)

Anchored == \A m \in Mons : FreeRow(m) \/ \E c \in Consoles : Keeps(c, m)

IInv == TypeInv /\ HoldInv /\ Anchored

LEMMA AnchoredNoLoss == IInv => NoLoss
<1> SUFFICES ASSUME IInv, NEW m \in Mons
             PROVE  InBank(m) \/ \E c \in Consoles : Has(game[c], m)
  BY DEF NoLoss
<1>1. CASE FreeRow(m)
  BY <1>1 DEF FreeRow, InBank
<1>2. ASSUME NEW c \in Consoles, Keeps(c, m)
      PROVE  InBank(m) \/ Has(game[c], m)
  <2>1. pc[c] \in Phases
    BY DEF IInv, TypeInv, TypeOK
  <2> QED
    BY <1>2, <2>1 DEF Keeps, Phases, Withdrawing, Depositing, IsPending, InBank
<1> QED
  BY <1>1, <1>2 DEF IInv, Anchored

LEMMA InitAnchored == Init => Anchored
<1> SUFFICES ASSUME Init, NEW m \in Mons
             PROVE  FreeRow(m) \/ \E c \in Consoles : Keeps(c, m)
  BY DEF Anchored
<1>1. PICK p \in Places(m) : TRUE
  BY DEF Init
<1>2. CASE p \in Consoles \X SaveSlots /\ game[p[1]][p[2]] = m
  BY <1>2 DEF Init, Keeps, Has
<1>3. ASSUME NEW b \in BankSlots, rows[b] # None, rows[b].mon = m
      PROVE  FreeRow(m)
  <2>1. PICK n \in Mons : rows[b] = Settled(PendingRow(n, None))
    BY <1>3 DEF Init
  <2>2. rows[b].held = None
    BY <2>1, PendingIsRow, SettledIsRow
  <2> QED
    BY <1>3, <2>2 DEF FreeRow
<1> QED
  BY <1>1, <1>2, <1>3 DEF Places

\* A step that does not touch a console's phase, copy, game or rows leaves what
\* the console keeps.
LEMMA KeepsFrame ==
    ASSUME NEW m \in Mons, NEW d \in Consoles, Keeps(d, m),
           pc'[d] = pc[d], sess'[d] = sess[d], file'[d] = file[d], game'[d] = game[d],
           pc[d] # "idle" => \A b \in BankSlots :
             rows[b] # None /\ rows[b].held = sess[d] => rows'[b] = rows[b],
           sess[d] \in ActiveIds' =>
             sess[d] \in ActiveIds /\ store'[sess[d]].save = store[sess[d]].save
    PROVE  Keeps(d, m)'
<1>1. ASSUME pc[d] # "idle"
      PROVE  /\ Withdrawing(sess[d], m) => Withdrawing(sess[d], m)'
             /\ Depositing(sess[d], m) => Depositing(sess[d], m)'
  BY <1>1 DEF Withdrawing, Depositing, IsPending
<1> QED
  BY <1>1 DEF Keeps, Has

\* When a console goes home and the table stays, what it kept is in its game or
\* in a row that nobody can end any more.
LEMMA HomeKeeps ==
    ASSUME TypeInv, HoldInv, NEW m \in Mons, NEW c \in Consoles,
           pc[c] # "idle", Keeps(c, m), GoHome(c), UNCHANGED <<rows, game>>
    PROVE  FreeRow(m)' \/ Keeps(c, m)'
<1>1. sess'[c] = None /\ pc'[c] = "idle" /\ \A d \in Consoles \ {c} : sess'[d] = sess[d]
  BY GoHomeSess
<1>2. sess[c] # None /\ pc[c] \in Phases
  BY DEF TypeInv, TypeOK, PhaseOK
<1>3. \A d \in Consoles : sess'[d] # sess[c]
  BY <1>1, <1>2 DEF HoldInv, SessionsUnique
<1>4. CASE Has(game[c], m)
  BY <1>1, <1>4 DEF Keeps
<1>5. CASE Withdrawing(sess[c], m) \/ Depositing(sess[c], m)
  BY <1>3, <1>5 DEF Withdrawing, Depositing, IsPending, FreeRow
<1> QED
  BY <1>2, <1>4, <1>5 DEF Keeps, Phases

\* A free row that is not changed stays free while consoles only forget sessions.
LEMMA FreeRowStays ==
    ASSUME NEW m \in Mons, FreeRow(m), UNCHANGED rows,
           \A d \in Consoles : sess'[d] \in {sess[d], None}
    PROVE  FreeRow(m)'
<1>1. PICK b \in BankSlots :
        /\ rows[b] # None /\ rows[b].mon = m
        /\ rows[b].held = None \/ \A c \in Consoles : sess[c] # rows[b].held
  BY DEF FreeRow
<1>2. rows[b].held = None \/ \A c \in Consoles : sess'[c] # rows[b].held
  BY <1>1
<1> QED
  BY <1>1, <1>2 DEF FreeRow

--------------------------------------------------------------------------------
(* The steps, for one Pokemon m. *)

DestructiveFaults == {"saveChanges", "tornWrite"}

Safe(m) == FreeRow(m) \/ \E c \in Consoles : Keeps(c, m)

\* Steps that leave the table and the games alone.
LEMMA QuietStepSafe ==
    ASSUME TypeInv, HoldInv, NEW m \in Mons, Safe(m), NEW c \in Consoles,
           UNCHANGED <<rows, game>>,
           \A d \in Consoles \ {c} : sess'[d] = sess[d] /\ pc'[d] = pc[d] /\ file'[d] = file[d],
           sess'[c] \in {sess[c], None},
           \A s \in Sessions : store'[s] \in {store[s], None},
           Keeps(c, m) => FreeRow(m)' \/ Keeps(c, m)'
    PROVE  Safe(m)'
<1>1. CASE FreeRow(m)
  BY <1>1, FreeRowStays DEF Safe
<1>2. ASSUME NEW d \in Consoles \ {c}, Keeps(d, m)
      PROVE  Keeps(d, m)'
  <2>1. sess[d] \in ActiveIds' =>
          sess[d] \in ActiveIds /\ store'[sess[d]].save = store[sess[d]].save
    BY DEF ActiveIds
  <2> QED
    BY <1>2, <2>1, KeepsFrame
<1> QED
  BY <1>1, <1>2 DEF Safe

\* A reconciliation settles the rows of sessions that are gone.  What a console
\* of such a session kept in a row is then in a row that is free.
LEMMA ReconcileSafe ==
    ASSUME TypeInv, HoldInv, NEW m \in Mons, Safe(m),
           rows' = ReconcileOrphans(rows, ActiveIds), UNCHANGED <<game, file>>,
           \A s \in ActiveIds : store'[s] = store[s],
           \A d \in Consoles :
             \/ /\ pc'[d] = pc[d] /\ sess'[d] = sess[d]
                /\ sess[d] \in ActiveIds' => sess[d] \in ActiveIds
             \/ /\ pc[d] = "idle" /\ pc'[d] = "edit"
                /\ sess'[d] \in Sessions /\ store'[sess'[d]].save = game[d]
                /\ \A b \in BankSlots : rows[b] # None => rows[b].held # sess'[d]
    PROVE  Safe(m)'
<1>t. /\ rows \in Rows /\ \A b \in BankSlots : rows[b] # None => rows[b] \in Row
      /\ \A d \in Consoles : pc[d] \in Phases
  BY TypeInvParts DEF Rows, ConsoleOK
<1>1. \A b \in BankSlots :
        /\ b \notin Orphans(rows, ActiveIds) => rows'[b] = rows[b]
        /\ b \in Orphans(rows, ActiveIds) => rows'[b] = Settled(rows[b])
  BY DEF ReconcileOrphans
<1>2. ASSUME NEW b \in Orphans(rows, ActiveIds), rows[b].mon = m
      PROVE  FreeRow(m)'
  <2>1. rows'[b] \in Row /\ rows'[b].mon = m /\ rows'[b].held = None
    BY <1>1, <1>2, <1>t, SettledIsRow DEF Orphans
  <2> QED
    BY <1>2, <2>1, NoRowAssumption DEF FreeRow, Orphans
<1>3. CASE FreeRow(m)
  <2>1. PICK b \in BankSlots :
          /\ rows[b] # None /\ rows[b].mon = m
          /\ rows[b].held = None \/ \A c \in Consoles : sess[c] # rows[b].held
    BY <1>3 DEF FreeRow
  <2>2. CASE b \in Orphans(rows, ActiveIds)
    BY <2>1, <2>2, <1>2 DEF Safe
  <2>3. CASE b \notin Orphans(rows, ActiveIds)
    <3>1. rows'[b] = rows[b]
      BY <1>1, <2>3
    <3>2. rows[b].held = None \/ \A c \in Consoles : sess'[c] # rows[b].held
      BY <2>1
    <3> QED
      BY <2>1, <3>1, <3>2 DEF FreeRow, Safe
  <2> QED
    BY <2>2, <2>3
<1>4. ASSUME NEW d \in Consoles, Keeps(d, m)
      PROVE  Safe(m)'
  <2>1. CASE pc[d] = "idle"
    <3>1. Has(game[d], m)
      BY <1>4, <2>1 DEF Keeps
    <3> QED
      BY <2>1, <3>1 DEF Keeps, Safe, Has
  <2>2. CASE pc[d] # "idle" /\ sess[d] \in ActiveIds
    <3>1. \A b \in BankSlots : rows[b] # None /\ rows[b].held = sess[d] => rows'[b] = rows[b]
      BY <2>2, <1>1 DEF Orphans
    <3>2. pc'[d] = pc[d] /\ sess'[d] = sess[d] /\ store'[sess[d]] = store[sess[d]]
      BY <2>2
    <3>3. Keeps(d, m)'
      BY <1>4, <2>2, <3>1, <3>2, KeepsFrame
    <3> QED
      BY <3>3 DEF Safe
  <2>3. CASE pc[d] # "idle" /\ sess[d] \notin ActiveIds
    <3>1. pc'[d] = pc[d] /\ sess'[d] = sess[d] /\ sess[d] # None
          /\ sess[d] \notin ActiveIds'
      BY <2>3 DEF TypeInv, PhaseOK
    <3>2. CASE Withdrawing(sess[d], m) \/ Depositing(sess[d], m)
      <4>1. PICK b \in BankSlots : rows[b] # None /\ rows[b].held = sess[d] /\ rows[b].mon = m
        BY <3>2 DEF Withdrawing, Depositing, IsPending
      <4>2. b \in Orphans(rows, ActiveIds)
        BY <2>3, <3>1, <4>1 DEF Orphans
      <4> QED
        BY <4>1, <4>2, <1>2 DEF Safe
    <3>3. CASE ~(Withdrawing(sess[d], m) \/ Depositing(sess[d], m))
      BY <1>4, <2>3, <3>1, <3>3 DEF Keeps, Has, Safe
    <3> QED
      BY <3>2, <3>3
  <2> QED
    BY <2>1, <2>2, <2>3
<1> QED
  BY <1>3, <1>4 DEF Safe

\* A deposit moves m from the copy into a row of the same session.
LEMMA DepositSafe ==
    ASSUME TypeInv, HoldInv, NEW m \in Mons, Safe(m), NEW c \in Consoles,
           NEW i \in SaveSlots, NEW b \in BankSlots, NEW heard \in BOOLEAN,
           Deposit(c, i, b, heard)
    PROVE  Safe(m)'
<1> DEFINE s == sess[c]
           n == store[s].save[i]
<1>1. /\ s \in Sessions /\ s \in ActiveIds /\ n \in Mons /\ rows[b] = None
      /\ store \in Store /\ store[s].save \in Image
      /\ rows' = [rows EXCEPT ![b] = PendingRow(n, s)] /\ store' = PutInSave(s, i, Blank)
  BY EditSession, EditTypes, TypeInvParts DEF Deposit, DepositAccepted, Deposited
<1>2. /\ rows'[b] = PendingRow(n, s) /\ rows'[b] # None
      /\ rows'[b].mon = n /\ rows'[b].held = s /\ ~rows'[b].committed
      /\ \A x \in BankSlots \ {b} : rows'[x] = rows[x]
  BY <1>1, TypeInvParts, PendingIsRow, NoRowAssumption DEF Rows
<1>3. /\ store'[s].save = [store[s].save EXCEPT ![i] = Blank] /\ store'[s] # None
      /\ \A t \in Sessions \ {s} : store'[t] = store[t]
  BY <1>1, PutInSaveType
<1>4. /\ sess' = sess /\ file' = file /\ game' = game
      /\ \A d \in Consoles \ {c} : pc'[d] = pc[d]
      /\ pc[c] = "edit" /\ pc'[c] \in {"edit", "download"}
  <2>1. pc \in [Consoles -> Phases]
    BY TypeInvParts DEF ConsoleOK
  <2> QED
    BY <2>1 DEF Deposit, AfterEdit, Phase
<1>5. CASE FreeRow(m)
  <2>1. PICK x \in BankSlots :
          /\ rows[x] # None /\ rows[x].mon = m
          /\ rows[x].held = None \/ \A d \in Consoles : sess[d] # rows[x].held
    BY <1>5 DEF FreeRow
  <2>2. rows'[x] = rows[x]
    BY <2>1, <1>1, <1>2
  <2> QED
    BY <2>1, <2>2, <1>4 DEF FreeRow, Safe
<1>6. ASSUME NEW d \in Consoles \ {c}, Keeps(d, m)
      PROVE  Safe(m)'
  <2>1. pc[d] # "idle" => \A x \in BankSlots :
          rows[x] # None /\ rows[x].held = sess[d] => rows'[x] = rows[x]
    BY <1>1, <1>2
  <2>2. sess[d] \in ActiveIds' =>
          sess[d] \in ActiveIds /\ store'[sess[d]].save = store[sess[d]].save
    <3>1. s # None /\ sess[d] # s
      BY <1>1, NoneAssumption DEF HoldInv, SessionsUnique
    <3> QED
      BY <3>1, <1>3 DEF ActiveIds
  <2> QED
    BY <1>4, <1>6, <2>1, <2>2, KeepsFrame DEF Safe
<1>7. ASSUME Keeps(c, m)
      PROVE  Keeps(c, m)'
  <2>1. Withdrawing(s, m) => Withdrawing(s, m)'
    BY <1>1, <1>2, <1>4 DEF Withdrawing
  <2>2. Depositing(s, m) => Depositing(s, m)'
    BY <1>1, <1>2, <1>4 DEF Depositing, IsPending
  <2>3. n = m => Depositing(s, m)'
    BY <1>2, <1>4 DEF Depositing, IsPending
  <2>4. n # m /\ Has(store[s].save, m) => Has(store'[s].save, m)
    BY <1>1, <1>3 DEF Has, Image
  <2>5. Has(store[s].save, m) \/ Depositing(s, m)
    BY <1>1, <1>4, <1>7 DEF Keeps
  <2>6. Has(game'[c], m) \/ Withdrawing(s, m)'
    BY <1>4, <1>7, <2>1 DEF Keeps
  <2> QED
    BY <1>4, <2>4, <2>5, <2>6, <2>2, <2>3 DEF Keeps
<1> QED
  BY <1>5, <1>6, <1>7 DEF Safe

\* A withdrawal puts m into the copy and holds its row, or undoes a deposit.
LEMMA WithdrawSafe ==
    ASSUME TypeInv, HoldInv, NEW m \in Mons, Safe(m), NEW c \in Consoles,
           NEW i \in SaveSlots, NEW b \in BankSlots, NEW heard \in BOOLEAN,
           Withdraw(c, i, b, heard)
    PROVE  Safe(m)'
<1> DEFINE s == sess[c]
           n == rows[b].mon
           Home == c \in Switches /\ ~heard
<1>1. /\ s \in Sessions /\ s \in ActiveIds /\ s # None /\ rows[b] \in Row
      /\ store \in Store /\ store[s].save \in Image /\ store[s].save[i] = Blank
      /\ rows[b] # None /\ n \in Mons
      /\ rows' = Withdrawn(rows, s, b) /\ store' = PutInSave(s, i, n)
  BY EditSession, EditTypes, TypeInvParts, NoneAssumption
  DEF Withdraw, WithdrawAccepted, Rows
<1>2. IF rows[b].committed THEN rows[b].held = None ELSE rows[b].held = s
  BY <1>1 DEF Withdraw, WithdrawAccepted, HoldInv, PendingIsHeld, IsPending
<1>3. /\ \A x \in BankSlots \ {b} : rows'[x] = rows[x]
      /\ rows[b].committed => /\ rows'[b] # None /\ rows'[b].mon = n
                              /\ rows'[b].committed /\ rows'[b].held = s
  <2>1. [rows[b] EXCEPT !.held = s] \in Row
        /\ [rows[b] EXCEPT !.held = s].mon = n
        /\ [rows[b] EXCEPT !.held = s].committed = rows[b].committed
        /\ [rows[b] EXCEPT !.held = s].held = s
    BY <1>1 DEF Row
  <2> QED
    BY <1>1, <2>1, TypeInvParts, NoRowAssumption DEF Withdrawn, Rows
<1>4. /\ store'[s].save = [store[s].save EXCEPT ![i] = n] /\ store'[s] # None
      /\ \A t \in Sessions \ {s} : store'[t] = store[t]
  BY <1>1, PutInSaveType
<1>5. /\ game' = game /\ pc[c] = "edit"
      /\ \A d \in Consoles \ {c} : pc'[d] = pc[d] /\ sess'[d] = sess[d] /\ file'[d] = file[d]
      /\ Home => pc'[c] = "idle" /\ sess'[c] = None
      /\ ~Home => pc'[c] \in {"edit", "download"} /\ sess'[c] = s
  <2>1. pc \in [Consoles -> Phases] /\ file \in [Consoles -> Image \cup {None}]
    BY TypeInvParts DEF ConsoleOK
  <2>2. CASE Home
    BY <2>2, GoHomeSess DEF Withdraw
  <2>3. CASE ~Home
    BY <2>1, <2>3 DEF Withdraw, AfterEdit, Phase
  <2> QED
    BY <2>2, <2>3
<1>6. \A d \in Consoles \ {c} : sess[d] # s
  BY <1>1 DEF HoldInv, SessionsUnique
<1>7. \A d \in Consoles : Home => sess'[d] # s
  BY <1>1, <1>5, <1>6
<1>8. Has(store'[s].save, n)
  BY <1>1, <1>4 DEF Has, Image
<1>9. rows[b].committed => Withdrawing(s, n)' \/ Home
  BY <1>3, <1>5 DEF Withdrawing
<1>10. Withdrawing(s, m) \/ (rows[b].committed /\ n = m)
         => IF Home THEN FreeRow(m)' ELSE Withdrawing(s, m)'
  <2>1. SUFFICES ASSUME NEW x \in BankSlots,
                        /\ rows'[x] # None /\ rows'[x].committed
                        /\ rows'[x].held = s /\ rows'[x].mon = m
                 PROVE  IF Home THEN FreeRow(m)' ELSE Withdrawing(s, m)'
    BY <1>1, <1>2, <1>3 DEF Withdrawing
  <2> QED
    BY <2>1, <1>5, <1>7 DEF Withdrawing, FreeRow
<1>11. CASE FreeRow(m)
  <2>1. PICK x \in BankSlots :
          /\ rows[x] # None /\ rows[x].mon = m
          /\ rows[x].held = None \/ \A d \in Consoles : sess[d] # rows[x].held
    BY <1>11 DEF FreeRow
  <2>2. CASE x = b
    <3>1. rows[b].committed /\ n = m
      BY <1>1, <1>2, <2>1, <2>2
    <3>2. ~Home => Keeps(c, m)'
      BY <1>5, <1>8, <1>10, <3>1 DEF Keeps
    <3> QED
      BY <1>10, <3>1, <3>2 DEF Safe
  <2>3. CASE x # b
    <3>1. rows'[x] = rows[x]
      BY <1>3, <2>3
    <3>2. rows[x].held = None \/ \A d \in Consoles : sess'[d] # rows[x].held
      <4>1. \A d \in Consoles : sess'[d] \in {sess[d], None}
        BY <1>5
      <4> QED
        BY <2>1, <4>1
    <3> QED
      BY <2>1, <3>1, <3>2 DEF FreeRow, Safe
  <2> QED
    BY <2>2, <2>3
<1>12. ASSUME NEW d \in Consoles \ {c}, Keeps(d, m)
       PROVE  Safe(m)'
  <2>1. pc[d] # "idle" => \A x \in BankSlots :
          rows[x] # None /\ rows[x].held = sess[d] => rows'[x] = rows[x]
    BY <1>2, <1>3, <1>6 DEF TypeInv, PhaseOK
  <2>2. sess[d] \in ActiveIds' =>
          sess[d] \in ActiveIds /\ store'[sess[d]].save = store[sess[d]].save
    BY <1>4, <1>6 DEF ActiveIds
  <2>3. Keeps(d, m)'
    BY <1>5, <1>12, <2>1, <2>2, KeepsFrame
  <2> QED
    BY <2>3 DEF Safe
<1>13. ASSUME Keeps(c, m)
       PROVE  Safe(m)'
  <2>1. Has(game[c], m) \/ Withdrawing(s, m)
    BY <1>5, <1>13 DEF Keeps
  <2>2. CASE Home
    BY <1>5, <1>10, <2>1, <2>2 DEF Keeps, Safe
  <2>3. CASE ~Home
    <3>1. Has(store[s].save, m) => Has(store'[s].save, m)
      BY <1>1, <1>4, BlankAssumption DEF Has, Image
    <3>2. Depositing(s, m) => Has(store'[s].save, m) \/ Depositing(s, m)'
      BY <1>3, <1>5, <1>8, <2>3 DEF Depositing, IsPending
    <3>3. Has(store[s].save, m) \/ Depositing(s, m)
      BY <1>1, <1>5, <1>13 DEF Keeps
    <3>4. Keeps(c, m)'
      BY <1>5, <1>10, <2>1, <2>3, <3>1, <3>2, <3>3 DEF Keeps
    <3> QED
      BY <3>4 DEF Safe
  <2> QED
    BY <2>2, <2>3
<1> QED
  BY <1>11, <1>12, <1>13 DEF Safe

\* Writing the game: what the console keeps if it writes is now in the game or in
\* its deposits.
LEMMA WriteSafe ==
    ASSUME TypeInv, HoldInv, NEW m \in Mons, Safe(m), NEW c \in Consoles, WriteSave(c)
    PROVE  Safe(m)'
<1>1. /\ UNCHANGED <<rows, store, sess, file>> /\ pc[c] = "write" /\ pc'[c] = "commit"
      /\ game'[c] = file[c]
      /\ \A d \in Consoles \ {c} : pc'[d] = pc[d] /\ game'[d] = game[d]
  BY DEF WriteSave, Phase, TypeInv, TypeOK
<1>2. CASE FreeRow(m)
  BY <1>1, <1>2, FreeRowStays DEF Safe
<1>3. ASSUME NEW d \in Consoles \ {c}, Keeps(d, m)
      PROVE  Safe(m)'
  BY <1>1, <1>3, KeepsFrame DEF ActiveIds, Safe
<1>4. ASSUME Keeps(c, m)
      PROVE  Safe(m)'
  BY <1>1, <1>4 DEF Keeps, Has, Depositing, IsPending, Safe
<1> QED
  BY <1>2, <1>3, <1>4 DEF Safe

\* The end of console c's session, by a commit or an abandon: rows of others are
\* not touched, and Removed are the rows of c's session that may vanish.
LEMMA EndSafe ==
    ASSUME TypeInv, HoldInv, NEW m \in Mons, Safe(m), NEW c \in Consoles,
           pc[c] # "idle", UNCHANGED game, store' = Remove(sess[c]),
           \A d \in Consoles \ {c} : sess'[d] = sess[d] /\ pc'[d] = pc[d] /\ file'[d] = file[d],
           sess'[c] \in {sess[c], None},
           \A b \in BankSlots : rows[b] # None /\ rows[b].held # sess[c] => rows'[b] = rows[b],
           Keeps(c, m) => FreeRow(m)' \/ Keeps(c, m)'
    PROVE  Safe(m)'
<1>1. sess[c] # None /\ \A d \in Consoles \ {c} : sess[d] # sess[c]
  BY DEF TypeInv, PhaseOK, HoldInv, SessionsUnique
<1>2. CASE FreeRow(m)
  <2>1. PICK x \in BankSlots :
          /\ rows[x] # None /\ rows[x].mon = m
          /\ rows[x].held = None \/ \A d \in Consoles : sess[d] # rows[x].held
    BY <1>2 DEF FreeRow
  <2>2. rows'[x] = rows[x]
    BY <2>1, <1>1
  <2>3. rows[x].held = None \/ \A d \in Consoles : sess'[d] # rows[x].held
    BY <2>1
  <2> QED
    BY <2>1, <2>2, <2>3 DEF FreeRow, Safe
<1>3. ASSUME NEW d \in Consoles \ {c}, Keeps(d, m)
      PROVE  Safe(m)'
  <2>1. sess[d] \in ActiveIds' =>
          sess[d] \in ActiveIds /\ store'[sess[d]].save = store[sess[d]].save
    BY <1>1 DEF ActiveIds, Remove, TypeInv, TypeOK
  <2>2. \A b \in BankSlots : rows[b] # None /\ rows[b].held = sess[d] => rows'[b] = rows[b]
    BY <1>1
  <2> QED
    BY <1>3, <2>1, <2>2, KeepsFrame DEF Safe
<1> QED
  BY <1>2, <1>3 DEF Safe

LEMMA FinalizeSafe ==
    ASSUME TypeInv, HoldInv, NEW m \in Mons, Safe(m), NEW c \in Consoles,
           NEW heard \in BOOLEAN, Finalize(c, heard)
    PROVE  Safe(m)'
<1>1. /\ rows' = CommitSession(rows, UserOf[c], sess[c]) /\ store' = Remove(sess[c])
      /\ game' = game /\ pc[c] = "commit"
      /\ GoHome(c) \/ Retry(c)
  BY DEF Finalize
<1>2. /\ sess'[c] \in {sess[c], None}
      /\ \A d \in Consoles \ {c} : sess'[d] = sess[d] /\ pc'[d] = pc[d] /\ file'[d] = file[d]
      /\ GoHome(c) \/ UNCHANGED <<pc, sess>>
  BY <1>1, GoHomeSess DEF Retry
<1>3. \A b \in BankSlots :
        /\ rows[b] # None /\ rows[b].held # sess[c] => rows'[b] = rows[b]
        /\ IsPending(rows[b]) => rows'[b] \in {rows[b], Settled(rows[b])}
  BY <1>1 DEF CommitSession, HeldForUser, IsPending
<1>4. ASSUME Depositing(sess[c], m)
      PROVE  FreeRow(m)' \/ (UNCHANGED <<pc, sess>> /\ Depositing(sess[c], m)')
  <2>1. PICK b \in BankSlots : IsPending(rows[b]) /\ rows[b].held = sess[c] /\ rows[b].mon = m
    BY <1>4 DEF Depositing
  <2>2. rows[b] \in Row /\ rows[b] # None /\ rows[b].held # None
    BY <2>1 DEF IsPending, TypeInv, TypeOK, HoldInv, PendingIsHeld
  <2>3. CASE rows'[b] = Settled(rows[b])
    BY <2>1, <2>2, <2>3, SettledIsRow, NoRowAssumption DEF FreeRow
  <2>4. CASE rows'[b] = rows[b] /\ UNCHANGED <<pc, sess>>
    BY <2>1, <2>4 DEF Depositing, IsPending
  <2>5. CASE rows'[b] = rows[b] /\ GoHome(c)
    <3>1. \A d \in Consoles : sess'[d] # rows[b].held
      BY <2>1, <2>2, <2>5, GoHomeSess DEF HoldInv, SessionsUnique
    <3> QED
      BY <2>1, <2>2, <2>5, <3>1 DEF FreeRow
  <2> QED
    BY <1>2, <1>3, <2>1, <2>3, <2>4, <2>5
<1>5. Keeps(c, m) => FreeRow(m)' \/ Keeps(c, m)'
  <2> SUFFICES ASSUME Keeps(c, m), ~FreeRow(m)'
               PROVE  Keeps(c, m)'
    OBVIOUS
  <2>1. CASE UNCHANGED <<pc, sess>>
    BY <1>1, <1>4, <2>1 DEF Keeps, Has
  <2>2. CASE GoHome(c) /\ ~UNCHANGED <<pc, sess>>
    BY <1>1, <1>4, <2>2, GoHomeSess DEF Keeps, Has
  <2> QED
    BY <1>2, <2>1, <2>2
<1> QED
  BY <1>1, <1>2, <1>3, <1>5, EndSafe

LEMMA AbandonSafe ==
    ASSUME TypeInv, HoldInv, NEW m \in Mons, Safe(m), NEW c \in Consoles, Abandon(c)
    PROVE  Safe(m)'
<1>1. /\ rows' = AbandonSession(rows, UserOf[c], sess[c]) /\ store' = Remove(sess[c])
      /\ game' = game /\ pc[c] = "abandon" /\ GoHome(c)
  BY DEF Abandon
<1>2. /\ sess'[c] = None /\ pc'[c] = "idle"
      /\ \A d \in Consoles \ {c} : sess'[d] = sess[d] /\ pc'[d] = pc[d] /\ file'[d] = file[d]
  BY <1>1, GoHomeSess
<1>3. \A b \in BankSlots :
        /\ rows[b] # None /\ rows[b].held # sess[c] => rows'[b] = rows[b]
        /\ rows[b] # None /\ rows[b].committed => rows'[b] \in {rows[b], Settled(rows[b])}
  BY <1>1 DEF AbandonSession, HeldForUser
<1>4. ASSUME Withdrawing(sess[c], m)
      PROVE  FreeRow(m)'
  <2>1. PICK b \in BankSlots : /\ rows[b] # None /\ rows[b].committed
                               /\ rows[b].held = sess[c] /\ rows[b].mon = m
    BY <1>4 DEF Withdrawing
  <2>2. rows[b] \in Row /\ rows[b].held # None
    BY <1>1, <2>1 DEF TypeInv, TypeOK, PhaseOK
  <2>3. CASE rows'[b] = Settled(rows[b])
    BY <2>1, <2>2, <2>3, SettledIsRow, NoRowAssumption DEF FreeRow
  <2>4. CASE rows'[b] = rows[b]
    <3>1. \A d \in Consoles : sess'[d] # rows[b].held
      BY <1>2, <2>1, <2>2 DEF HoldInv, SessionsUnique
    <3> QED
      BY <2>1, <2>4, <3>1 DEF FreeRow
  <2> QED
    BY <1>3, <2>1, <2>3, <2>4
<1>5. Keeps(c, m) => FreeRow(m)' \/ Keeps(c, m)'
  BY <1>1, <1>2, <1>4 DEF Keeps, Has
<1> QED
  BY <1>1, <1>2, <1>3, <1>5, EndSafe

--------------------------------------------------------------------------------
(* The invariant is inductive. *)

\* No step of a transfer harms a Pokemon that is safe.
LEMMA SafeStep ==
    ASSUME TypeInv, HoldInv, NEW m \in Mons, Safe(m), Next,
           Faults \cap DestructiveFaults = {}
    PROVE  Safe(m)'
<1>0. Safe(m) /\ "saveChanges" \notin Faults /\ "tornWrite" \notin Faults
  BY DEF DestructiveFaults
<1>t. pc \in [Consoles -> Phases] /\ store \in Store
      /\ sess \in [Consoles -> Sessions \cup {None}]
      /\ file \in [Consoles -> Image \cup {None}]
  BY TypeInvParts DEF ConsoleOK
<1>1. ASSUME NEW c \in Consoles, NEW s \in Sessions, NEW heard \in BOOLEAN,
             OpenSession(c, s, heard)
      PROVE  Safe(m)'
  <2>1. /\ rows' = ReconcileOrphans(rows, ActiveIds) /\ game' = game /\ file' = file
        /\ store' = Create(s, UserOf[c], game[c]) /\ IsNewId(s) /\ pc[c] = "idle"
        /\ IF heard THEN pc' = [pc EXCEPT ![c] = "edit"] /\ sess' = [sess EXCEPT ![c] = s]
                    ELSE pc' = pc /\ sess' = sess
    BY <1>1 DEF OpenSession, console, Phase
  <2>2. /\ store'[s].save = game[c]
        /\ \A t \in Sessions \ {s} : store'[t] = store[t]
    BY <2>1, <1>t DEF Create, Store
  <2>3. /\ s \notin ActiveIds
        /\ \A t \in ActiveIds : store'[t] = store[t]
        /\ \A t \in ActiveIds' : t = s \/ t \in ActiveIds
    BY <2>1, <2>2 DEF IsNewId, ActiveIds
  <2>4. ASSUME NEW d \in Consoles
        PROVE  \/ /\ pc'[d] = pc[d] /\ sess'[d] = sess[d]
                  /\ sess[d] \in ActiveIds' => sess[d] \in ActiveIds
               \/ /\ pc[d] = "idle" /\ pc'[d] = "edit"
                  /\ sess'[d] \in Sessions /\ store'[sess'[d]].save = game[d]
                  /\ \A b \in BankSlots : rows[b] # None => rows[b].held # sess'[d]
    <3>1. CASE heard /\ d = c
      BY <2>1, <2>2, <3>1, <1>t DEF IsNewId
    <3>2. CASE ~(heard /\ d = c)
      <4>1. pc'[d] = pc[d] /\ sess'[d] = sess[d]
        BY <2>1, <3>2, <1>t
      <4>2. sess[d] # s
        BY <2>1 DEF IsNewId
      <4> QED
        BY <4>1, <4>2, <2>3
    <3> QED
      BY <3>1, <3>2
  <2> QED
    BY <1>0, <2>1, <2>3, <2>4, ReconcileSafe
<1>2. ASSUME NEW c \in Consoles, ListBank(c)
      PROVE  Safe(m)'
  BY <1>0, <1>2, ReconcileSafe DEF ListBank, console, ActiveIds
<1>3. ASSUME NEW c \in Consoles, NEW i \in SaveSlots, NEW b \in BankSlots,
             NEW heard \in BOOLEAN, Deposit(c, i, b, heard) \/ Withdraw(c, i, b, heard)
      PROVE  Safe(m)'
  BY <1>0, <1>3, DepositSafe, WithdrawSafe
<1>4. ASSUME NEW c \in Consoles,
             ChooseWrite(c) \/ LeaveBoxes(c) \/ Download(c) \/ DownloadFails(c) \/ WriteFails(c)
      PROVE  Safe(m)'
  <2>1. /\ UNCHANGED <<rows, game, store, sess>>
        /\ \A d \in Consoles \ {c} : pc'[d] = pc[d] /\ file'[d] = file[d]
    BY <1>4, <1>t DEF ChooseWrite, LeaveBoxes, Download, DownloadFails, WriteFails, Phase
  <2>2. ASSUME Keeps(c, m)
        PROVE  Keeps(c, m)'
    <3> USE DEF Keeps, Has, Withdrawing, Depositing, IsPending, ActiveIds, Phase
    <3>1. CASE Download(c)
      <4>1. sess[c] \in ActiveIds /\ file'[c] = store[sess[c]].save
            /\ pc[c] = "download" /\ pc'[c] = "write"
        BY <3>1, <1>t DEF Download, Get
      <4> QED
        BY <2>1, <2>2, <4>1
    <3>2. CASE ChooseWrite(c) \/ LeaveBoxes(c) \/ DownloadFails(c) \/ WriteFails(c)
      <4>1. /\ pc[c] \in {"edit", "download", "write"} /\ file' = file
            /\ pc'[c] \in {"download", "abandon"} /\ (pc'[c] = "download" => pc[c] = "edit")
        BY <3>2, <1>t DEF ChooseWrite, LeaveBoxes, DownloadFails, WriteFails
      <4> QED
        BY <2>1, <2>2, <4>1
    <3> QED
      BY <1>4, <3>1, <3>2
  <2> QED
    BY <1>0, <2>1, <2>2, QuietStepSafe
<1>5. ASSUME NEW c \in Consoles,
             SwitchGivesUp(c) \/ Crash(c) \/ FinalizeFails(c) \/ AbandonFails(c)
      PROVE  Safe(m)'
  <2>1. /\ UNCHANGED <<rows, game, store>> /\ pc[c] # "idle"
        /\ GoHome(c) \/ UNCHANGED <<pc, sess, file>>
    BY <1>5 DEF SwitchGivesUp, Crash, FinalizeFails, AbandonFails, Retry
  <2>2. CASE GoHome(c)
    BY <1>0, <2>1, <2>2, GoHomeSess, HomeKeeps, QuietStepSafe
  <2>3. CASE UNCHANGED <<pc, sess, file>>
    <3>1. Keeps(c, m) => Keeps(c, m)'
      BY <2>1, <2>3 DEF Keeps, Has, Withdrawing, Depositing, IsPending, ActiveIds
    <3> QED
      BY <1>0, <2>1, <2>3, <3>1, QuietStepSafe
  <2> QED
    BY <2>1, <2>2, <2>3
<1>6. ASSUME NEW c \in Consoles, WriteSave(c)
      PROVE  Safe(m)'
  BY <1>0, <1>6, WriteSafe
<1>7. ASSUME NEW c \in Consoles, NEW heard \in BOOLEAN, Finalize(c, heard) \/ Abandon(c)
      PROVE  Safe(m)'
  BY <1>0, <1>7, FinalizeSafe, AbandonSafe
<1>8. ASSUME Restart \/ \E s \in Sessions : Expire(s)
      PROVE  Safe(m)'
  <2>1. /\ UNCHANGED <<rows, game, pc, sess, file>>
        /\ \A s \in Sessions : store'[s] \in {store[s], None}
    BY <1>8, <1>t DEF Restart, Expire, Remove, console, Store
  <2>2. ASSUME NEW d \in Consoles, Keeps(d, m)
        PROVE  Keeps(d, m)'
    BY <2>1, <2>2, KeepsFrame DEF ActiveIds
  <2>3. FreeRow(m) => FreeRow(m)'
    BY <2>1, FreeRowStays
  <2> QED
    BY <1>0, <2>2, <2>3 DEF Safe
<1>9. ASSUME NEW c \in Consoles, NEW i \in SaveSlots, NEW b \in BankSlots,
             DepositFails(c, i, b) \/ WithdrawFails(c, i, b) \/ TornWrite(c)
      PROVE  FALSE
  BY <1>0, <1>9 DEF DepositFails, WithdrawFails, TornWrite
<1> QED
  <2>1. ASSUME NEW c \in Consoles, TornWrite(c)
        PROVE  FALSE
    BY <1>0, <2>1 DEF TornWrite
  <2> QED
    BY <1>1, <1>2, <1>3, <1>4, <1>5, <1>6, <1>7, <1>8, <1>9, <2>1
    DEF Next, ConsoleNext, Edit, RunOn

LEMMA AnchoredStep ==
    ASSUME TypeInv, HoldInv, Anchored, Next, Faults \cap DestructiveFaults = {}
    PROVE  Anchored'
BY SafeStep DEF Anchored, Safe

\* Lost messages, crashed consoles, restarts of the server and expired sessions
\* never destroy the last copy of a Pokemon, for any number of consoles, users,
\* sessions and slots: the guards, the order commit-after-write and the two
\* columns of a row suffice.  The two faults that are excluded do destroy it: see
\* BankService.cs:89 for saveChanges, and the instance TornWrite.cfg.
THEOREM NothingLost ==
    ASSUME Faults \cap DestructiveFaults = {}
    PROVE  Spec => []NoLoss
<1>1. Init => IInv
  BY InitType, InitHold, InitAnchored DEF IInv
<1>2. IInv /\ [Next]_vars => IInv'
  <2> SUFFICES ASSUME IInv, [Next]_vars PROVE IInv'
    OBVIOUS
  <2>1. CASE Next
    BY <2>1, TypeStep, HoldStep, AnchoredStep DEF IInv
  <2>2. CASE UNCHANGED vars
    <3>1. Anchored'
      BY <2>2 DEF vars, IInv, Anchored, FreeRow, Keeps, Has, Withdrawing, Depositing,
                  IsPending, ActiveIds
    <3> QED
      BY <2>2, <3>1, TypeStep, HoldStep DEF IInv
  <2> QED
    BY <2>1, <2>2
<1>3. IInv => NoLoss
  BY AnchoredNoLoss
<1> QED
  BY <1>1, <1>2, <1>3, PTL DEF Spec

--------------------------------------------------------------------------------
(* Second part.  Nothing a transfer does takes a Pokemon away on one side      *)
(* without adding it on the other: the books of a session balance, its two     *)
(* ends keep a copy, and a Pokemon is never in two places that count.          *)
(*                                                                             *)
(* The books of one session.  What a console edits and what it holds in the    *)
(* bank always balance its game, and each of the two ends of the session keeps *)
(* a copy of what it removes from the bank.                                    *)

\* For console c and Pokemon m.  The third and the last two conjuncts do not need
\* the session to be open any more: it may expire under the console.
Even(c, m) ==
    LET Owned == Has(game[c], m) \/ Withdrawing(sess[c], m) IN
    /\ pc[c] \in {"edit", "download"} /\ sess[c] \in ActiveIds
         => (Owned <=> Has(store[sess[c]].save, m) \/ Depositing(sess[c], m))
    /\ pc[c] = "write" /\ sess[c] \in ActiveIds
         => (Owned <=> Has(file[c], m) \/ Depositing(sess[c], m))
    /\ pc[c] \in {"edit", "download", "write", "abandon"}
         => (Depositing(sess[c], m) => Owned)
    /\ pc[c] = "write"
         => (Withdrawing(sess[c], m) => Has(file[c], m) \/ Depositing(sess[c], m))
    /\ pc[c] = "commit"
         => (Withdrawing(sess[c], m) => Has(game[c], m) \/ Depositing(sess[c], m))

EvenInv == \A c \in Consoles, m \in Mons : Even(c, m)

LEMMA EvenKeepsCopies == EvenInv => SessionBalance /\ AbandonKeepsCopy /\ FinalizeKeepsCopy
<1> SUFFICES ASSUME EvenInv PROVE SessionBalance /\ AbandonKeepsCopy /\ FinalizeKeepsCopy
  OBVIOUS
<1>1. SessionBalance
  BY DEF EvenInv, Even, SessionBalance
<1>2. AbandonKeepsCopy
  BY DEF EvenInv, Even, AbandonKeepsCopy
<1>3. FinalizeKeepsCopy
  BY DEF EvenInv, Even, FinalizeKeepsCopy
<1> QED
  BY <1>1, <1>2, <1>3

\* A step that does not touch a console's phase, copy, game or rows.
LEMMA EvenFrame ==
    ASSUME NEW m \in Mons, NEW d \in Consoles, Even(d, m),
           pc'[d] = pc[d], sess'[d] = sess[d], file'[d] = file[d], game'[d] = game[d],
           \A b \in BankSlots :
             \/ rows'[b] = rows[b]
             \/ /\ rows[b] = None \/ rows[b].held # sess[d]
                /\ rows'[b] = None \/ rows'[b].held # sess[d],
           sess[d] \in ActiveIds' =>
             sess[d] \in ActiveIds /\ store'[sess[d]].save = store[sess[d]].save
    PROVE  Even(d, m)'
<1>1. Withdrawing(sess[d], m)' <=> Withdrawing(sess[d], m)
  BY DEF Withdrawing
<1>2. Depositing(sess[d], m)' <=> Depositing(sess[d], m)
  BY DEF Depositing, IsPending
<1>3. Has(game[d], m)' <=> Has(game[d], m)
  BY DEF Has
<1>4. Has(file[d], m)' <=> Has(file[d], m)
  BY DEF Has
<1>5. sess[d] \in ActiveIds' =>
        (Has(store'[sess[d]].save, m) <=> Has(store[sess[d]].save, m))
  BY DEF Has
<1> QED
  BY <1>1, <1>2, <1>3, <1>4, <1>5 DEF Even, Withdrawing, Depositing

\* A console whose session is gone and that holds nothing has nothing to balance.
LEMMA EvenEmpty ==
    ASSUME NEW m \in Mons, NEW d \in Consoles,
           \A b \in BankSlots : rows'[b] = None \/ rows'[b].held # sess'[d],
           sess'[d] \notin ActiveIds'
    PROVE  Even(d, m)'
<1>1. ~Withdrawing(sess[d], m)' /\ ~Depositing(sess[d], m)'
  BY DEF Withdrawing, Depositing, IsPending
<1> QED
  BY <1>1 DEF Even

\* A reconciliation leaves the rows of open sessions alone, and leaves none to a
\* console whose session is gone.
LEMMA ReconcileEven ==
    ASSUME TypeInv, NEW m \in Mons, NEW d \in Consoles, Even(d, m),
           rows' = ReconcileOrphans(rows, ActiveIds),
           pc'[d] = pc[d], sess'[d] = sess[d], file'[d] = file[d], game'[d] = game[d],
           sess[d] \in ActiveIds' =>
             sess[d] \in ActiveIds /\ store'[sess[d]].save = store[sess[d]].save
    PROVE  Even(d, m)'
<1>1. \A b \in BankSlots :
        /\ b \notin Orphans(rows, ActiveIds) => rows'[b] = rows[b]
        /\ b \in Orphans(rows, ActiveIds) => rows'[b].held = None
  <2>1. \A b \in BankSlots : rows[b] # None => rows[b] \in Row
    BY DEF TypeInv, TypeOK
  <2> QED
    BY <2>1, SettledIsRow DEF ReconcileOrphans, Orphans
<1>2. CASE pc[d] = "idle"
  BY <1>2 DEF Even
<1>3. CASE pc[d] # "idle" /\ sess[d] \in ActiveIds
  <2>1. sess[d] # None
    BY <1>3 DEF TypeInv, PhaseOK
  <2>2. \A b \in Orphans(rows, ActiveIds) : rows[b].held # sess[d] /\ rows'[b].held # sess[d]
    BY <1>1, <1>3, <2>1 DEF Orphans
  <2> QED
    BY <1>1, <2>2, EvenFrame
<1>4. CASE pc[d] # "idle" /\ sess[d] \notin ActiveIds
  <2>1. sess[d] # None
    BY <1>4 DEF TypeInv, PhaseOK
  <2>2. \A b \in BankSlots : rows'[b] = None \/ rows'[b].held # sess'[d]
    BY <1>1, <1>4, <2>1 DEF Orphans
  <2> QED
    BY <1>4, <2>2, EvenEmpty
<1> QED
  BY <1>2, <1>3, <1>4

\* A deposit moves a Pokemon from one side of the books to the same side; the
\* other consoles' sessions are not touched.
LEMMA DepositEven ==
    ASSUME TypeInv, HoldInv, EvenInv, NEW m \in Mons, NEW d \in Consoles,
           NEW c \in Consoles, NEW i \in SaveSlots, NEW b \in BankSlots,
           NEW heard \in BOOLEAN, Deposit(c, i, b, heard)
    PROVE  Even(d, m)'
<1> DEFINE s == sess[c]
           n == store[s].save[i]
<1>1. /\ s \in Sessions /\ s \in ActiveIds /\ n \in Mons /\ rows[b] = None
      /\ store \in Store /\ store[s].save \in Image
      /\ rows' = [rows EXCEPT ![b] = PendingRow(n, s)] /\ store' = PutInSave(s, i, Blank)
  BY EditSession, EditTypes, TypeInvParts DEF Deposit, DepositAccepted, Deposited
<1>2. /\ rows'[b] = PendingRow(n, s) /\ rows'[b] # None
      /\ rows'[b].mon = n /\ rows'[b].held = s /\ ~rows'[b].committed
      /\ \A x \in BankSlots \ {b} : rows'[x] = rows[x]
  BY <1>1, TypeInvParts, PendingIsRow, NoRowAssumption DEF Rows
<1>3. /\ store'[s].save = [store[s].save EXCEPT ![i] = Blank] /\ store'[s] # None
      /\ \A t \in Sessions \ {s} : store'[t] = store[t]
  BY <1>1, PutInSaveType
<1>4. /\ sess' = sess /\ file' = file /\ game' = game
      /\ \A x \in Consoles \ {c} : pc'[x] = pc[x]
      /\ pc[c] = "edit" /\ pc'[c] \in {"edit", "download"}
  <2>1. pc \in [Consoles -> Phases]
    BY TypeInvParts DEF ConsoleOK
  <2> QED
    BY <2>1 DEF Deposit, AfterEdit, Phase
<1>5. CASE d # c
  <2>1. s # None /\ sess[d] # s
    BY <1>1, <1>5, NoneAssumption DEF HoldInv, SessionsUnique
  <2>2. sess[d] \in ActiveIds' =>
          sess[d] \in ActiveIds /\ store'[sess[d]].save = store[sess[d]].save
    BY <2>1, <1>3 DEF ActiveIds
  <2>3. \A x \in BankSlots :
          \/ rows'[x] = rows[x]
          \/ /\ rows[x] = None \/ rows[x].held # sess[d]
             /\ rows'[x] = None \/ rows'[x].held # sess[d]
    BY <1>1, <1>2, <2>1
  <2> QED
    BY <1>4, <1>5, <2>2, <2>3, EvenFrame DEF EvenInv
<1>6. CASE d = c
  <2>1. Withdrawing(s, m)' <=> Withdrawing(s, m)
    BY <1>1, <1>2, <1>4 DEF Withdrawing
  <2>2. Depositing(s, m)' <=> Depositing(s, m) \/ n = m
    <3>1. Depositing(s, m) => Depositing(s, m)'
      BY <1>1, <1>2, <1>4 DEF Depositing, IsPending
    <3>2. n = m => Depositing(s, m)'
      BY <1>2, <1>4 DEF Depositing, IsPending
    <3>3. Depositing(s, m)' => Depositing(s, m) \/ n = m
      BY <1>2, <1>4 DEF Depositing, IsPending
    <3> QED
      BY <3>1, <3>2, <3>3
  <2>3. n # m => (Has(store'[s].save, m) <=> Has(store[s].save, m))
    BY <1>1, <1>3, BlankAssumption DEF Has, Image
  <2>4. n = m => Has(store[s].save, m)
    BY DEF Has
  <2>5. Has(store[s].save, m) \/ Depositing(s, m)
          <=> Has(store'[s].save, m) \/ Depositing(s, m)'
    BY <2>2, <2>3, <2>4
  <2>6. Has(game[c], m) \/ Withdrawing(s, m) <=> Has(store[s].save, m) \/ Depositing(s, m)
    BY <1>1, <1>4 DEF EvenInv, Even
  <2>7. Has(game'[c], m) \/ Withdrawing(s, m)'
          <=> Has(store'[s].save, m) \/ Depositing(s, m)'
    BY <1>4, <2>1, <2>5, <2>6
  <2> QED
    BY <1>4, <1>6, <2>7 DEF Even
<1> QED
  BY <1>5, <1>6

\* A withdrawal puts the Pokemon into the copy and holds its row, or undoes a
\* deposit of the same session.
LEMMA WithdrawEven ==
    ASSUME TypeInv, HoldInv, EvenInv, NEW m \in Mons, NEW d \in Consoles,
           NEW c \in Consoles, NEW i \in SaveSlots, NEW b \in BankSlots,
           NEW heard \in BOOLEAN, Withdraw(c, i, b, heard)
    PROVE  Even(d, m)'
<1> DEFINE s == sess[c]
           n == rows[b].mon
           Home == c \in Switches /\ ~heard
<1>1. /\ s \in Sessions /\ s \in ActiveIds /\ s # None /\ rows[b] \in Row
      /\ store \in Store /\ store[s].save \in Image /\ store[s].save[i] = Blank
      /\ rows[b] # None /\ n \in Mons
      /\ rows' = Withdrawn(rows, s, b) /\ store' = PutInSave(s, i, n)
  BY EditSession, EditTypes, TypeInvParts, NoneAssumption
  DEF Withdraw, WithdrawAccepted, Rows
<1>2. IF rows[b].committed THEN rows[b].held = None ELSE rows[b].held = s
  BY <1>1 DEF Withdraw, WithdrawAccepted, HoldInv, PendingIsHeld, IsPending
<1>3. /\ \A x \in BankSlots \ {b} : rows'[x] = rows[x]
      /\ rows[b].committed => /\ rows'[b] # None /\ rows'[b].mon = n
                              /\ rows'[b].committed /\ rows'[b].held = s
      /\ ~rows[b].committed => rows'[b] = None
  <2>1. [rows[b] EXCEPT !.held = s] \in Row
        /\ [rows[b] EXCEPT !.held = s].mon = n
        /\ [rows[b] EXCEPT !.held = s].committed = rows[b].committed
        /\ [rows[b] EXCEPT !.held = s].held = s
    BY <1>1 DEF Row
  <2> QED
    BY <1>1, <2>1, TypeInvParts, NoRowAssumption DEF Withdrawn, Rows
<1>4. /\ store'[s].save = [store[s].save EXCEPT ![i] = n] /\ store'[s] # None
      /\ \A t \in Sessions \ {s} : store'[t] = store[t]
  BY <1>1, PutInSaveType
<1>5. /\ game' = game /\ pc[c] = "edit"
      /\ \A x \in Consoles \ {c} : pc'[x] = pc[x] /\ sess'[x] = sess[x] /\ file'[x] = file[x]
      /\ Home => pc'[c] = "idle"
      /\ ~Home => pc'[c] \in {"edit", "download"} /\ sess'[c] = s
  <2>1. pc \in [Consoles -> Phases] /\ file \in [Consoles -> Image \cup {None}]
    BY TypeInvParts DEF ConsoleOK
  <2>2. CASE Home
    BY <2>2, GoHomeSess DEF Withdraw
  <2>3. CASE ~Home
    BY <2>1, <2>3 DEF Withdraw, AfterEdit, Phase
  <2> QED
    BY <2>2, <2>3
<1>6. CASE d # c
  <2>1. sess[d] # s
    BY <1>1, <1>6 DEF HoldInv, SessionsUnique
  <2>2. sess[d] \in ActiveIds' =>
          sess[d] \in ActiveIds /\ store'[sess[d]].save = store[sess[d]].save
    BY <2>1, <1>4 DEF ActiveIds
  <2>3. CASE pc[d] = "idle"
    BY <1>5, <1>6, <2>3 DEF Even
  <2>4. CASE pc[d] # "idle"
    <3>1. sess[d] # None
      BY <2>4 DEF TypeInv, PhaseOK
    <3>2. \A x \in BankSlots :
            \/ rows'[x] = rows[x]
            \/ /\ rows[x] = None \/ rows[x].held # sess[d]
               /\ rows'[x] = None \/ rows'[x].held # sess[d]
      BY <1>2, <1>3, <2>1, <3>1
    <3> QED
      BY <1>5, <1>6, <2>2, <3>2, EvenFrame DEF EvenInv
  <2> QED
    BY <2>3, <2>4
<1>7. CASE d = c /\ Home
  BY <1>5, <1>7 DEF Even
<1>8. CASE d = c /\ ~Home
  <2>1. Withdrawing(s, m)' <=> Withdrawing(s, m) \/ (rows[b].committed /\ n = m)
    <3>1. Withdrawing(s, m) => Withdrawing(s, m)'
      BY <1>1, <1>2, <1>3, <1>5, <1>8 DEF Withdrawing
    <3>2. rows[b].committed /\ n = m => Withdrawing(s, m)'
      BY <1>3, <1>5, <1>8 DEF Withdrawing
    <3>3. Withdrawing(s, m)' => Withdrawing(s, m) \/ (rows[b].committed /\ n = m)
      BY <1>3, <1>5, <1>8 DEF Withdrawing
    <3> QED
      BY <3>1, <3>2, <3>3
  <2>2. Depositing(s, m)' => Depositing(s, m)
    BY <1>3, <1>5, <1>8 DEF Depositing, IsPending
  <2>3. Depositing(s, m) => Depositing(s, m)' \/ (~rows[b].committed /\ n = m)
    BY <1>3, <1>5, <1>8 DEF Depositing, IsPending
  <2>4. ~rows[b].committed /\ n = m => Depositing(s, m)
    BY <1>1, <1>2 DEF Depositing, IsPending
  <2>5. Has(store'[s].save, m) <=> Has(store[s].save, m) \/ n = m
    BY <1>1, <1>4, BlankAssumption DEF Has, Image
  <2>6. Has(game[c], m) \/ Withdrawing(s, m) <=> Has(store[s].save, m) \/ Depositing(s, m)
    BY <1>1, <1>5 DEF EvenInv, Even
  <2>7. Has(game'[c], m) \/ Withdrawing(s, m)'
          <=> Has(store'[s].save, m) \/ Depositing(s, m)'
    BY <1>5, <2>6, <2>5, <2>3, <2>4, <2>1, <2>2
  <2> QED
    BY <1>5, <1>8, <2>7 DEF Even
<1> QED
  BY <1>6, <1>7, <1>8

\* The end of console c's session: nobody else is touched, and c holds nothing
\* any more.
LEMMA EndEven ==
    ASSUME TypeInv, HoldInv, EvenInv, NEW m \in Mons, NEW d \in Consoles,
           NEW c \in Consoles, NEW heard \in BOOLEAN, Finalize(c, heard) \/ Abandon(c)
    PROVE  Even(d, m)'
<1>1. /\ store' = Remove(sess[c]) /\ game' = game /\ pc[c] # "idle"
      /\ \/ rows' = CommitSession(rows, UserOf[c], sess[c])
         \/ rows' = AbandonSession(rows, UserOf[c], sess[c])
      /\ GoHome(c) \/ Retry(c)
  BY DEF Finalize, Abandon
<1>2. /\ \A x \in Consoles \ {c} : sess'[x] = sess[x] /\ pc'[x] = pc[x] /\ file'[x] = file[x]
      /\ pc'[c] = "idle" \/ sess'[c] = sess[c]
  BY <1>1, GoHomeSess DEF Retry
<1>3. /\ sess[c] \in Sessions /\ sess[c] # None
      /\ \A x \in Consoles \ {c} : sess[x] # sess[c]
      /\ \A b \in BankSlots : rows[b] # None => rows[b] \in Row
  BY <1>1 DEF TypeInv, TypeOK, PhaseOK, HoldInv, SessionsUnique
<1>4. \A b \in BankSlots :
        /\ rows'[b] = None \/ rows'[b].held # sess[c]
        /\ rows'[b] # rows[b] => /\ rows[b] # None /\ rows[b].held = sess[c]
                                 /\ rows'[b] = None \/ rows'[b].held = None
  <2> SUFFICES ASSUME NEW b \in BankSlots
               PROVE  /\ rows'[b] = None \/ rows'[b].held # sess[c]
                      /\ rows'[b] # rows[b] =>
                           /\ rows[b] # None /\ rows[b].held = sess[c]
                           /\ rows'[b] = None \/ rows'[b].held = None
    OBVIOUS
  <2>1. rows[b] # None /\ rows[b].held = sess[c] => BankOwner[b] = UserOf[c]
    BY <1>3 DEF HoldInv, HoldsAreOwn
  <2>2. CASE b \in HeldForUser(rows, UserOf[c], sess[c])
    <3>1. rows[b] # None /\ rows[b].held = sess[c] /\ Settled(rows[b]).held = None
      BY <2>2, <1>3, SettledIsRow DEF HeldForUser
    <3>2. rows'[b] \in {None, Settled(rows[b])}
      BY <1>1, <2>2 DEF CommitSession, AbandonSession
    <3> QED
      BY <1>3, <3>1, <3>2
  <2>3. CASE b \notin HeldForUser(rows, UserOf[c], sess[c])
    <3>1. rows'[b] = rows[b] /\ (rows[b] = None \/ rows[b].held # sess[c])
      BY <1>1, <2>1, <2>3 DEF CommitSession, AbandonSession, HeldForUser
    <3> QED
      BY <3>1
  <2> QED
    BY <2>2, <2>3
<1>5. CASE d # c
  <2>1. sess[d] # sess[c]
    BY <1>3, <1>5
  <2>2. sess[d] \in ActiveIds' =>
          sess[d] \in ActiveIds /\ store'[sess[d]].save = store[sess[d]].save
    BY <1>1, <2>1 DEF ActiveIds, Remove, TypeInv, TypeOK
  <2>3. CASE pc[d] = "idle"
    BY <1>2, <1>5, <2>3 DEF Even
  <2>4. CASE pc[d] # "idle"
    <3>1. sess[d] # None
      BY <2>4 DEF TypeInv, PhaseOK
    <3>2. \A b \in BankSlots :
            \/ rows'[b] = rows[b]
            \/ /\ rows[b] = None \/ rows[b].held # sess[d]
               /\ rows'[b] = None \/ rows'[b].held # sess[d]
      BY <1>4, <2>1, <3>1
    <3> QED
      BY <1>1, <1>2, <1>5, <2>2, <3>2, EvenFrame DEF EvenInv
  <2> QED
    BY <2>3, <2>4
<1>6. CASE d = c /\ pc'[c] = "idle"
  BY <1>6 DEF Even
<1>7. CASE d = c /\ sess'[c] = sess[c]
  <2>1. sess'[d] \notin ActiveIds'
    BY <1>1, <1>3, <1>7 DEF ActiveIds, Remove, TypeInv, TypeOK
  <2> QED
    BY <1>4, <1>7, <2>1, EvenEmpty
<1> QED
  BY <1>2, <1>5, <1>6, <1>7

LEMMA EvenStep ==
    ASSUME TypeInv, HoldInv, EvenInv, Next, Faults \cap DestructiveFaults = {}
    PROVE  EvenInv'
<1> SUFFICES ASSUME NEW d \in Consoles, NEW m \in Mons PROVE Even(d, m)'
  BY DEF EvenInv
<1>0. Even(d, m) /\ "saveChanges" \notin Faults /\ "tornWrite" \notin Faults
  BY DEF DestructiveFaults, EvenInv
<1>t. pc \in [Consoles -> Phases] /\ store \in Store
      /\ sess \in [Consoles -> Sessions \cup {None}]
      /\ file \in [Consoles -> Image \cup {None}]
      /\ game \in [Consoles -> Image]
  BY TypeInvParts DEF ConsoleOK
<1>1. ASSUME NEW c \in Consoles, NEW s \in Sessions, NEW heard \in BOOLEAN,
             OpenSession(c, s, heard)
      PROVE  Even(d, m)'
  <2>1. /\ rows' = ReconcileOrphans(rows, ActiveIds) /\ game' = game /\ file' = file
        /\ store' = Create(s, UserOf[c], game[c]) /\ IsNewId(s)
        /\ IF heard THEN pc' = [pc EXCEPT ![c] = "edit"] /\ sess' = [sess EXCEPT ![c] = s]
                    ELSE pc' = pc /\ sess' = sess
    BY <1>1 DEF OpenSession, console, Phase
  <2>2. /\ store'[s].save = game[c]
        /\ \A t \in Sessions \ {s} : store'[t] = store[t]
    BY <2>1, <1>t DEF Create, Store
  <2>3. CASE heard /\ d = c
    <3>1. pc'[d] = "edit" /\ sess'[d] = s
      BY <2>1, <2>3, <1>t
    <3>2. \A b \in BankSlots : rows'[b] = None \/ rows'[b].held # s
      <4>1. \A b \in BankSlots : rows[b] # None => rows[b] \in Row /\ rows[b].held # s
        BY <2>1 DEF IsNewId, TypeInv, TypeOK
      <4> QED
        BY <2>1, <4>1, SettledIsRow, NoneAssumption DEF ReconcileOrphans, Orphans
    <3>3. ~Withdrawing(sess[d], m)' /\ ~Depositing(sess[d], m)'
      BY <3>1, <3>2 DEF Withdrawing, Depositing, IsPending
    <3> QED
      BY <2>1, <2>2, <2>3, <3>1, <3>3 DEF Even, Has
  <2>4. CASE ~(heard /\ d = c)
    <3>1. pc'[d] = pc[d] /\ sess'[d] = sess[d] /\ sess[d] # s
      BY <2>1, <2>4, <1>t DEF IsNewId
    <3>2. sess[d] \in ActiveIds' =>
            sess[d] \in ActiveIds /\ store'[sess[d]].save = store[sess[d]].save
      BY <2>2, <3>1 DEF ActiveIds
    <3> QED
      BY <1>0, <2>1, <3>1, <3>2, ReconcileEven
  <2> QED
    BY <2>3, <2>4
<1>2. ASSUME NEW c \in Consoles, ListBank(c)
      PROVE  Even(d, m)'
  BY <1>0, <1>2, ReconcileEven DEF ListBank, console, ActiveIds
<1>3. ASSUME NEW c \in Consoles, NEW i \in SaveSlots, NEW b \in BankSlots,
             NEW heard \in BOOLEAN, Deposit(c, i, b, heard) \/ Withdraw(c, i, b, heard)
      PROVE  Even(d, m)'
  BY <1>3, DepositEven, WithdrawEven
<1>4. ASSUME NEW c \in Consoles,
             \/ ChooseWrite(c) \/ LeaveBoxes(c) \/ Download(c) \/ DownloadFails(c)
             \/ WriteSave(c) \/ WriteFails(c)
             \/ SwitchGivesUp(c) \/ Crash(c) \/ FinalizeFails(c) \/ AbandonFails(c)
      PROVE  Even(d, m)'
  <2>1. /\ rows' = rows /\ store' = store
        /\ \A x \in Consoles \ {c} :
             pc'[x] = pc[x] /\ sess'[x] = sess[x] /\ file'[x] = file[x] /\ game'[x] = game[x]
    BY <1>4, <1>t, GoHomeSess
    DEF ChooseWrite, LeaveBoxes, Download, DownloadFails, WriteSave, WriteFails,
        SwitchGivesUp, Crash, FinalizeFails, AbandonFails, Retry, Phase
  <2>2. CASE d # c
    BY <1>0, <2>1, <2>2, EvenFrame DEF ActiveIds
  <2>3. CASE d = c /\ GoHome(c)
    BY <2>3, GoHomeSess DEF Even
  <2>4. CASE d = c /\ ~GoHome(c)
    <3> USE DEF Even, Has, Withdrawing, Depositing, IsPending, ActiveIds, Phase
    <3>1. CASE Download(c)
      <4>1. /\ sess'[c] = sess[c] /\ game'[c] = game[c]
            /\ sess[c] \in ActiveIds /\ file'[c] = store[sess[c]].save
            /\ pc[c] = "download" /\ pc'[c] = "write"
        BY <3>1, <1>t DEF Download, Get
      <4> QED
        BY <1>0, <2>1, <2>4, <4>1
    <3>2. CASE WriteSave(c)
      <4>1. /\ sess'[c] = sess[c] /\ game'[c] = file[c]
            /\ pc[c] = "write" /\ pc'[c] = "commit"
        BY <3>2, <1>t DEF WriteSave
      <4> QED
        BY <1>0, <2>1, <2>4, <4>1
    <3>3. CASE ChooseWrite(c) \/ LeaveBoxes(c) \/ DownloadFails(c) \/ WriteFails(c)
      <4>1. /\ sess'[c] = sess[c] /\ game'[c] = game[c] /\ file'[c] = file[c]
            /\ pc[c] \in {"edit", "download", "write"}
            /\ pc'[c] \in {"download", "abandon"} /\ (pc'[c] = "download" => pc[c] = "edit")
        BY <3>3, <1>t DEF ChooseWrite, LeaveBoxes, DownloadFails, WriteFails
      <4> QED
        BY <1>0, <2>1, <2>4, <4>1
    <3>4. CASE FinalizeFails(c)
      <4>1. UNCHANGED <<rows, store, game, pc, sess, file>>
        BY <2>4, <3>4 DEF FinalizeFails, Retry
      <4> QED
        BY <1>0, <4>1
    <3>5. CASE SwitchGivesUp(c) \/ Crash(c) \/ AbandonFails(c)
      BY <2>4, <3>5 DEF SwitchGivesUp, Crash, AbandonFails
    <3> QED
      BY <1>4, <3>1, <3>2, <3>3, <3>4, <3>5
  <2> QED
    BY <2>2, <2>3, <2>4
<1>5. ASSUME NEW c \in Consoles, NEW heard \in BOOLEAN, Finalize(c, heard) \/ Abandon(c)
      PROVE  Even(d, m)'
  BY <1>5, EndEven
<1>6. ASSUME Restart \/ \E s \in Sessions : Expire(s)
      PROVE  Even(d, m)'
  <2>1. /\ UNCHANGED <<rows, game, pc, sess, file>>
        /\ \A s \in Sessions : store'[s] \in {store[s], None}
    BY <1>6, <1>t DEF Restart, Expire, Remove, console, Store
  <2> QED
    BY <1>0, <2>1, EvenFrame DEF ActiveIds
<1>7. ASSUME NEW c \in Consoles, NEW i \in SaveSlots, NEW b \in BankSlots,
             DepositFails(c, i, b) \/ WithdrawFails(c, i, b)
      PROVE  FALSE
  BY <1>0, <1>7 DEF DepositFails, WithdrawFails
<1>8. ASSUME NEW c \in Consoles, TornWrite(c)
      PROVE  FALSE
  BY <1>0, <1>8 DEF TornWrite
<1> QED
  BY <1>1, <1>2, <1>3, <1>4, <1>5, <1>6, <1>7, <1>8
  DEF Next, ConsoleNext, Edit, RunOn

LEMMA BooksAlways ==
    ASSUME Faults \cap DestructiveFaults = {}
    PROVE  Spec => [](TypeInv /\ HoldInv /\ EvenInv)
<1> DEFINE Inv == TypeInv /\ HoldInv /\ EvenInv
<1>1. Init => Inv
  BY InitType, InitHold DEF Init, EvenInv, Even
<1>2. Inv /\ [Next]_vars => Inv'
  <2> SUFFICES ASSUME Inv, [Next]_vars PROVE Inv'
    OBVIOUS
  <2>1. CASE Next
    BY <2>1, TypeStep, HoldStep, EvenStep
  <2>2. CASE UNCHANGED vars
    <3>1. EvenInv'
      BY <2>2, EvenFrame DEF vars, EvenInv, ActiveIds
    <3> QED
      BY <2>2, <3>1, TypeStep, HoldStep
  <2> QED
    BY <2>1, <2>2
<1> QED
  BY <1>1, <1>2, PTL DEF Spec

\* SetBoxSlotAtIndex and the change of the row go together in every handler, so the
\* copy of an open session balances the game it was opened from, whatever is lost,
\* crashes, restarts or expires on the way.
THEOREM BooksBalance ==
    ASSUME Faults \cap DestructiveFaults = {}
    PROVE  Spec => []SessionBalance
<1>1. TypeInv /\ HoldInv /\ EvenInv => SessionBalance
  BY EvenKeepsCopies
<1> QED
  BY <1>1, BooksAlways, PTL

\* session_abandon never removes the last copy of a deposit, also when its session
\* expired or was forgotten before the DELETE came.
THEOREM AbandonIsSafe ==
    ASSUME Faults \cap DestructiveFaults = {}
    PROVE  Spec => []AbandonKeepsCopy
<1>1. TypeInv /\ HoldInv /\ EvenInv => AbandonKeepsCopy
  BY EvenKeepsCopies
<1> QED
  BY <1>1, BooksAlways, PTL

\* session_commit never removes the last copy of a withdrawal, however often it is
\* posted and whether or not its session is still there.
THEOREM FinalizeIsSafe ==
    ASSUME Faults \cap DestructiveFaults = {}
    PROVE  Spec => []FinalizeKeepsCopy
<1>1. TypeInv /\ HoldInv /\ EvenInv => FinalizeKeepsCopy
  BY EvenKeepsCopies
<1> QED
  BY <1>1, BooksAlways, PTL

--------------------------------------------------------------------------------
(* While sessions only end by a commit or a DELETE, every hold is that of an   *)
(* open session and a reconciliation finds nothing.                            *)

SessionFaults == {"restart", "expiry"}

NoOrphans ==
    \A b \in BankSlots : rows[b] # None /\ rows[b].held # None => rows[b].held \in ActiveIds

SessionsOpen ==
    \A c \in Consoles : pc[c] \in {"edit", "download", "write", "abandon"} => sess[c] \in ActiveIds

OpenInv == NoOrphans /\ SessionsOpen

LEMMA NothingToReconcile ==
    ASSUME TypeInv, NoOrphans
    PROVE  ReconcileOrphans(rows, ActiveIds) = rows
<1>1. \A b \in BankSlots : b \notin Orphans(rows, ActiveIds)
  BY DEF NoOrphans, Orphans
<1> QED
  BY <1>1, TypeInvParts DEF ReconcileOrphans, Rows

\* What the end of console c's session does to the table.
LEMMA EndOfSession ==
    ASSUME TypeInv, HoldInv, NEW c \in Consoles, pc[c] # "idle",
           \/ rows' = CommitSession(rows, UserOf[c], sess[c])
           \/ rows' = AbandonSession(rows, UserOf[c], sess[c]),
           NEW b \in BankSlots
    PROVE  /\ rows[b] = None \/ rows[b].held # sess[c] => rows'[b] = rows[b]
           /\ rows[b] # None /\ rows[b].held = sess[c] =>
                /\ rows[b] \in Row /\ sess[c] # None
                /\ rows' = CommitSession(rows, UserOf[c], sess[c]) =>
                     rows'[b] = IF rows[b].committed THEN None ELSE Settled(rows[b])
                /\ rows' = AbandonSession(rows, UserOf[c], sess[c]) =>
                     rows'[b] = IF rows[b].committed THEN Settled(rows[b]) ELSE None
<1>1. sess[c] # None /\ (rows[b] # None => rows[b] \in Row)
  BY DEF TypeInv, TypeOK, PhaseOK
<1>2. rows[b] # None /\ rows[b].held = sess[c] => BankOwner[b] = UserOf[c]
  BY <1>1 DEF HoldInv, HoldsAreOwn
<1>3. b \in HeldForUser(rows, UserOf[c], sess[c]) <=> rows[b] # None /\ rows[b].held = sess[c]
  BY <1>2 DEF HeldForUser
<1>4. rows' = CommitSession(rows, UserOf[c], sess[c]) =>
        rows'[b] = IF b \notin HeldForUser(rows, UserOf[c], sess[c]) THEN rows[b]
                   ELSE IF rows[b].committed THEN None ELSE Settled(rows[b])
  BY DEF CommitSession
<1>5. rows' = AbandonSession(rows, UserOf[c], sess[c]) =>
        rows'[b] = IF b \notin HeldForUser(rows, UserOf[c], sess[c]) THEN rows[b]
                   ELSE IF rows[b].committed THEN Settled(rows[b]) ELSE None
  BY DEF AbandonSession
<1> QED
  BY <1>1, <1>3, <1>4, <1>5

LEMMA OpenStep ==
    ASSUME TypeInv, HoldInv, OpenInv, Next, Faults \cap SessionFaults = {}
    PROVE  OpenInv'
<1>0. "restart" \notin Faults /\ "expiry" \notin Faults
  BY DEF SessionFaults
<1>t. pc \in [Consoles -> Phases] /\ store \in Store /\ rows \in Rows
      /\ sess \in [Consoles -> Sessions \cup {None}]
  BY TypeInvParts DEF ConsoleOK
<1>1. ASSUME NEW c \in Consoles, NEW s \in Sessions, NEW heard \in BOOLEAN,
             OpenSession(c, s, heard)
      PROVE  OpenInv'
  <2>1. /\ rows' = rows /\ store' = Create(s, UserOf[c], game[c])
        /\ IF heard THEN pc' = [pc EXCEPT ![c] = "edit"] /\ sess' = [sess EXCEPT ![c] = s]
                    ELSE pc' = pc /\ sess' = sess
    BY <1>1, NothingToReconcile DEF OpenSession, console, Phase, OpenInv
  <2>2. [user |-> UserOf[c], save |-> game[c]] \in SaveSession
    BY UserOfAssumption, TypeInvParts DEF SaveSession
  <2>3. s \in ActiveIds' /\ \A r \in ActiveIds : r \in ActiveIds'
    BY <2>1, <2>2, <1>t, NoSessionAssumption DEF Create, Store, ActiveIds
  <2>4. NoOrphans'
    BY <2>1, <2>3 DEF OpenInv, NoOrphans
  <2>5. SessionsOpen'
    BY <2>1, <2>3, <1>t DEF OpenInv, SessionsOpen
  <2> QED
    BY <2>4, <2>5 DEF OpenInv
<1>2. ASSUME NEW c \in Consoles, ListBank(c)
      PROVE  OpenInv'
  <2>1. UNCHANGED <<rows, store, pc, sess>>
    BY <1>2, NothingToReconcile DEF ListBank, console, OpenInv
  <2> QED
    BY <2>1 DEF OpenInv, NoOrphans, SessionsOpen, ActiveIds
<1>3. ASSUME NEW c \in Consoles, NEW i \in SaveSlots, NEW b \in BankSlots,
             \/ \E heard \in BOOLEAN : Deposit(c, i, b, heard) \/ Withdraw(c, i, b, heard)
             \/ DepositFails(c, i, b) \/ WithdrawFails(c, i, b)
      PROVE  OpenInv'
  <2>1. /\ pc[c] = "edit" /\ sess[c] \in ActiveIds /\ sess[c] \in Sessions
        /\ \E x \in Mons \cup {Blank} : store' = PutInSave(sess[c], i, x)
    BY <1>3, EditSession, EditTypes, <1>t
    DEF Deposit, Withdraw, DepositFails, WithdrawFails, DepositAccepted, WithdrawAccepted
  <2>2. ActiveIds' = ActiveIds
    <3>1. PICK x \in Mons \cup {Blank} : store' = PutInSave(sess[c], i, x)
      BY <2>1
    <3>2. PICK s \in ActiveIds : s = sess[c]
      BY <2>1
    <3>3. /\ PutInSave(s, i, x)[s] # None
          /\ \A r \in Sessions \ {s} : PutInSave(s, i, x)[r] = store[r]
      BY <1>t, PutInSaveType
    <3> QED
      BY <2>1, <3>1, <3>2, <3>3 DEF ActiveIds
  <2>3. NoOrphans'
    <3>1. \A x \in BankSlots : rows'[x] # None => rows'[x] = rows[x] \/ rows'[x].held = sess[c]
      <4>1. CASE \E heard \in BOOLEAN : Deposit(c, i, b, heard)
        <5>1. rows' = [rows EXCEPT ![b] = PendingRow(store[sess[c]].save[i], sess[c])]
          BY <4>1 DEF Deposit, Deposited
        <5> QED
          BY <5>1, <1>t DEF Rows, PendingRow
      <4>2. CASE \E heard \in BOOLEAN : Withdraw(c, i, b, heard)
        <5>1. rows' = Withdrawn(rows, sess[c], b) /\ rows[b] \in Row
          BY <4>2, <1>t DEF Withdraw, WithdrawAccepted, Rows
        <5>2. [rows[b] EXCEPT !.held = sess[c]].held = sess[c]
          BY <5>1 DEF Row
        <5> QED
          BY <5>1, <5>2, <1>t DEF Rows, Withdrawn
      <4>3. CASE DepositFails(c, i, b) \/ WithdrawFails(c, i, b)
        BY <4>3 DEF DepositFails, WithdrawFails
      <4> QED
        BY <1>3, <4>1, <4>2, <4>3
    <3> QED
      BY <2>1, <2>2, <3>1 DEF OpenInv, NoOrphans
  <2>4. \A d \in Consoles : pc'[d] = "idle" \/ sess'[d] = sess[d]
    BY <1>3, GoHomeSess DEF Deposit, Withdraw, DepositFails, WithdrawFails, AfterEdit
  <2>5. \A d \in Consoles : pc'[d] \in {pc[d], "idle"} \/ pc[d] = "edit"
    <3>1. \A d \in Consoles \ {c} : pc'[d] = pc[d]
      BY <1>3, <1>t, GoHomeSess
      DEF Deposit, Withdraw, DepositFails, WithdrawFails, AfterEdit, Phase
    <3> QED
      BY <2>1, <3>1
  <2> QED
    BY <2>4, <2>5, <2>2, <2>3 DEF OpenInv, SessionsOpen
<1>4. ASSUME NEW c \in Consoles,
             \/ ChooseWrite(c) \/ LeaveBoxes(c) \/ SwitchGivesUp(c) \/ Crash(c)
             \/ Download(c) \/ DownloadFails(c) \/ WriteSave(c) \/ WriteFails(c)
             \/ TornWrite(c) \/ FinalizeFails(c) \/ AbandonFails(c)
      PROVE  OpenInv'
  <2>1. /\ UNCHANGED <<rows, store>>
        /\ \A d \in Consoles : pc'[d] = "idle" \/ sess'[d] = sess[d]
    BY <1>4, GoHomeSess
    DEF ChooseWrite, LeaveBoxes, SwitchGivesUp, Crash, Download, DownloadFails,
        WriteSave, WriteFails, TornWrite, FinalizeFails, AbandonFails, Retry
  <2>2. \A d \in Consoles :
          pc'[d] \in {pc[d], "idle", "commit"} \/ pc[d] \in {"edit", "download", "write"}
    BY <1>4, <1>t, GoHomeSess
    DEF ChooseWrite, LeaveBoxes, SwitchGivesUp, Crash, Download, DownloadFails,
        WriteSave, WriteFails, TornWrite, FinalizeFails, AbandonFails, Retry, Phase
  <2> QED
    BY <2>1, <2>2 DEF OpenInv, NoOrphans, SessionsOpen, ActiveIds
<1>5. ASSUME NEW c \in Consoles, NEW heard \in BOOLEAN, Finalize(c, heard) \/ Abandon(c)
      PROVE  OpenInv'
  <2>1. /\ store' = Remove(sess[c]) /\ pc[c] \in {"commit", "abandon"}
        /\ \/ rows' = CommitSession(rows, UserOf[c], sess[c])
           \/ rows' = AbandonSession(rows, UserOf[c], sess[c])
        /\ \A d \in Consoles \ {c} : sess'[d] = sess[d] /\ pc'[d] = pc[d]
        /\ pc'[c] \in {"idle", "commit"}
    BY <1>5, GoHomeSess DEF Finalize, Abandon, Retry
  <2>2. /\ sess[c] # None /\ \A d \in Consoles \ {c} : sess[d] # sess[c]
    BY <2>1 DEF TypeInv, PhaseOK, HoldInv, SessionsUnique
  <2>3. \A s \in ActiveIds : s # sess[c] => s \in ActiveIds'
    BY <2>1, <1>t DEF ActiveIds, Remove, Store
  <2>4. NoOrphans'
    <3> SUFFICES ASSUME NEW b \in BankSlots, rows'[b] # None, rows'[b].held # None
                 PROVE  rows'[b].held \in ActiveIds'
      BY DEF NoOrphans
    <3>1. CASE rows[b] = None \/ rows[b].held # sess[c]
      BY <2>1, <2>3, <3>1, EndOfSession DEF OpenInv, NoOrphans
    <3>2. CASE rows[b] # None /\ rows[b].held = sess[c]
      BY <2>1, <3>2, EndOfSession, SettledIsRow
    <3> QED
      BY <3>1, <3>2
  <2>5. SessionsOpen'
    BY <2>1, <2>2, <2>3 DEF OpenInv, SessionsOpen
  <2> QED
    BY <2>4, <2>5 DEF OpenInv
<1>6. ASSUME Restart \/ \E s \in Sessions : Expire(s)
      PROVE  FALSE
  BY <1>0, <1>6 DEF Restart, Expire
<1> QED
  BY <1>1, <1>2, <1>3, <1>4, <1>5, <1>6 DEF Next, ConsoleNext, Edit, RunOn

LEMMA InitOpen == Init => OpenInv
<1>1. ASSUME Init, NEW b \in BankSlots, rows[b] # None
      PROVE  rows[b].held = None
  BY <1>1, PendingIsRow, SettledIsRow DEF Init
<1> QED
  BY <1>1 DEF Init, OpenInv, NoOrphans, SessionsOpen

\* A row that a console holds as a deposit becomes a banked Pokemon only by that
\* console's commit, which follows the write of its save: Entities.cs:66 is right
\* as long as a session does not end behind the console's back.
THEOREM CommitAfterWrite ==
    ASSUME Faults \cap SessionFaults = {}
    PROVE  Spec => CommittedOnlyWhenWritten
<1> DEFINE Inv == TypeInv /\ HoldInv /\ OpenInv
           Kept == \A b \in BankSlots, c \in Consoles :
                     IsPending(rows[b]) /\ rows[b].held = sess[c] /\ pc[c] # "commit"
                       => ~IsBanked(rows'[b])
<1>1. Init => Inv
  BY InitType, InitHold, InitOpen
<1>2. Inv /\ [Next]_vars => Inv'
  <2> SUFFICES ASSUME Inv, [Next]_vars PROVE Inv'
    OBVIOUS
  <2>1. CASE Next
    BY <2>1, TypeStep, HoldStep, OpenStep
  <2>2. CASE UNCHANGED vars
    <3>1. OpenInv'
      BY <2>2 DEF vars, OpenInv, NoOrphans, SessionsOpen, ActiveIds
    <3> QED
      BY <2>2, <3>1, TypeStep, HoldStep
  <2> QED
    BY <2>1, <2>2
<1>3. Inv /\ [Next]_vars => [Kept]_vars
  <2> SUFFICES ASSUME Inv, Next, NEW b \in BankSlots, NEW c \in Consoles,
                      IsPending(rows[b]), rows[b].held = sess[c], pc[c] # "commit"
               PROVE  ~IsBanked(rows'[b])
    OBVIOUS
  <2>1. rows[b] \in Row /\ rows[b] # None /\ ~rows[b].committed /\ sess[c] # None
    BY DEF IsPending, TypeInv, TypeOK, HoldInv, PendingIsHeld
  <2>2. rows'[b] = rows[b] => ~IsBanked(rows'[b])
    BY <2>1 DEF IsBanked
  <2>3. rows'[b] = None => ~IsBanked(rows'[b])
    BY DEF IsBanked
  <2>4. ASSUME NEW d \in Consoles,
               \/ \E s \in Sessions, heard \in BOOLEAN : OpenSession(d, s, heard)
               \/ ListBank(d)
        PROVE  rows'[b] = rows[b]
    BY <2>4, NothingToReconcile DEF OpenSession, ListBank, OpenInv
  <2>5. ASSUME NEW d \in Consoles, NEW i \in SaveSlots, NEW x \in BankSlots,
               NEW heard \in BOOLEAN, Deposit(d, i, x, heard) \/ Withdraw(d, i, x, heard)
        PROVE  rows'[b] \in {rows[b], None}
    BY <2>1, <2>5, TypeInvParts
    DEF Deposit, DepositAccepted, Deposited, Withdraw, WithdrawAccepted, Withdrawn, Rows
  <2>6. ASSUME NEW d \in Consoles, NEW heard \in BOOLEAN, Finalize(d, heard)
        PROVE  rows'[b] = rows[b]
    <3>1. d # c /\ pc[d] # "idle" /\ rows' = CommitSession(rows, UserOf[d], sess[d])
      BY <2>6 DEF Finalize
    <3>2. rows[b].held # sess[d]
      BY <3>1, <2>1 DEF HoldInv, SessionsUnique
    <3> QED
      BY <3>1, <3>2, EndOfSession
  <2>7. ASSUME NEW d \in Consoles, Abandon(d)
        PROVE  rows'[b] \in {rows[b], None}
    <3>1. pc[d] # "idle" /\ rows' = AbandonSession(rows, UserOf[d], sess[d])
      BY <2>7 DEF Abandon
    <3> QED
      BY <2>1, <3>1, EndOfSession
  <2>8. ASSUME NEW d \in Consoles,
               \/ \E i \in SaveSlots, x \in BankSlots : DepositFails(d, i, x) \/ WithdrawFails(d, i, x)
               \/ ChooseWrite(d) \/ LeaveBoxes(d) \/ SwitchGivesUp(d) \/ Crash(d)
               \/ Download(d) \/ DownloadFails(d) \/ WriteSave(d) \/ WriteFails(d)
               \/ TornWrite(d) \/ FinalizeFails(d) \/ AbandonFails(d)
        PROVE  rows' = rows
    BY <2>8
    DEF DepositFails, WithdrawFails, ChooseWrite, LeaveBoxes, SwitchGivesUp, Crash, Download,
        DownloadFails, WriteSave, WriteFails, TornWrite, FinalizeFails, AbandonFails
  <2>9. ASSUME Restart \/ \E s \in Sessions : Expire(s)
        PROVE  rows' = rows
    BY <2>9 DEF Restart, Expire
  <2> QED
    BY <2>4, <2>5, <2>6, <2>7, <2>8, <2>9, <2>2, <2>3 DEF Next, ConsoleNext, Edit, RunOn
<1>4. Spec => [][Kept]_vars
  BY <1>1, <1>2, <1>3, PTL DEF Spec
<1> QED
  BY <1>4 DEF CommittedOnlyWhenWritten

--------------------------------------------------------------------------------
(* No Pokemon is ever in two places that count.                                *)

\* Row b holds m and is nobody's, or will be part of the bank if its console goes
\* on from here: before the save is written what counts is that a withdrawal is
\* given back, after it that a deposit becomes final.  The rows of a session whose
\* console is gone do not count: without expiry nobody ever sees them again.
Counts(b, m) ==
    /\ rows[b] # None /\ rows[b].mon = m
    /\ \/ rows[b].held = None
       \/ \E c \in Consoles : /\ sess[c] = rows[b].held
                              /\ rows[b].committed <=> pc[c] # "commit"

InGame(c, i, m) == game[c][i] = m

OnePlace(m) ==
    /\ \A c, d \in Consoles, i, j \in SaveSlots :
         InGame(c, i, m) /\ InGame(d, j, m) => c = d /\ i = j
    /\ \A a, b \in BankSlots : Counts(a, m) /\ Counts(b, m) => a = b
    /\ \A c \in Consoles, i \in SaveSlots, b \in BankSlots :
         ~(InGame(c, i, m) /\ Counts(b, m))

\* The copy a console edits, and the rows it deposited from it.
Copy(c) == IF pc[c] = "write" THEN file[c] ELSE store[sess[c]].save

Deposits(b, c, m) == IsPending(rows[b]) /\ rows[b].held = sess[c] /\ rows[b].mon = m

OneCopy(c, m) ==
    pc[c] \in {"edit", "download", "write"} =>
      /\ \A i, j \in SaveSlots : Copy(c)[i] = m /\ Copy(c)[j] = m => i = j
      /\ \A a, b \in BankSlots : Deposits(a, c, m) /\ Deposits(b, c, m) => a = b
      /\ \A i \in SaveSlots, b \in BankSlots : ~(Copy(c)[i] = m /\ Deposits(b, c, m))

OnceInv == \A m \in Mons : OnePlace(m) /\ \A c \in Consoles : OneCopy(c, m)

\* What a session's copy and its deposits hold is in its game or withdrawn by it.
LEMMA CopyIsOwned ==
    ASSUME EvenInv, SessionsOpen, NEW c \in Consoles, NEW m \in Mons,
           pc[c] \in {"edit", "download", "write"},
           \/ \E i \in SaveSlots : Copy(c)[i] = m
           \/ \E b \in BankSlots : Deposits(b, c, m)
    PROVE  \/ \E i \in SaveSlots : InGame(c, i, m)
           \/ \E b \in BankSlots :
                rows[b] # None /\ rows[b].committed /\ rows[b].held = sess[c] /\ rows[b].mon = m
<1>1. sess[c] \in ActiveIds /\ Even(c, m)
  BY DEF SessionsOpen, EvenInv
<1>2. Has(Copy(c), m) \/ Depositing(sess[c], m)
  BY DEF Has, Depositing, Deposits
<1>3. Has(game[c], m) \/ Withdrawing(sess[c], m)
  BY <1>1, <1>2 DEF Even, Copy
<1> QED
  BY <1>3 DEF Has, Withdrawing, InGame

\* So it is nowhere else: not in another game, not in a row that counts, other
\* than those the session withdrew.
LEMMA CopyIsNowhereElse ==
    ASSUME EvenInv, SessionsOpen, NEW c \in Consoles, NEW m \in Mons, OnePlace(m),
           pc[c] \in {"edit", "download", "write"},
           \/ \E i \in SaveSlots : Copy(c)[i] = m
           \/ \E b \in BankSlots : Deposits(b, c, m)
    PROVE  /\ \A d \in Consoles \ {c}, i \in SaveSlots : ~InGame(d, i, m)
           /\ \A b \in BankSlots : Counts(b, m) => rows[b].committed /\ rows[b].held = sess[c]
<1>1. CASE \E i \in SaveSlots : InGame(c, i, m)
  BY <1>1 DEF OnePlace
<1>2. ASSUME NEW b \in BankSlots, rows[b] # None, rows[b].committed,
             rows[b].held = sess[c], rows[b].mon = m
      PROVE  /\ \A d \in Consoles \ {c}, i \in SaveSlots : ~InGame(d, i, m)
             /\ \A a \in BankSlots : Counts(a, m) => rows[a].committed /\ rows[a].held = sess[c]
  <2>1. Counts(b, m)
    BY <1>2 DEF Counts
  <2> QED
    BY <1>2, <2>1 DEF OnePlace
<1> QED
  BY <1>1, <1>2, CopyIsOwned

LEMMA PlacesShrink ==
    ASSUME NEW m \in Mons, OnePlace(m), game' = game,
           \A b \in BankSlots : Counts(b, m)' => Counts(b, m)
    PROVE  OnePlace(m)'
BY DEF OnePlace, InGame

\* A row that stays counts no more than before when consoles only forget their
\* sessions, or keep them on the same side of the write.
LEMMA CountsKept ==
    ASSUME NEW m \in Mons, NEW b \in BankSlots, rows'[b] = rows[b], Counts(b, m)',
           \A d \in Consoles :
             \/ sess'[d] = None
             \/ sess'[d] = sess[d] /\ (pc'[d] = "commit" <=> pc[d] = "commit")
    PROVE  Counts(b, m)
BY DEF Counts

LEMMA OneCopyFrame ==
    ASSUME NEW m \in Mons, NEW d \in Consoles, OneCopy(d, m),
           pc'[d] \in {"edit", "download", "write"} =>
             /\ pc[d] \in {"edit", "download", "write"} /\ Copy(d)' = Copy(d)
             /\ \A b \in BankSlots : Deposits(b, d, m)' => Deposits(b, d, m)
    PROVE  OneCopy(d, m)'
BY DEF OneCopy

\* A console that a step does not touch, and whose rows it neither adds nor changes.
LEMMA OthersCopy ==
    ASSUME NEW m \in Mons, NEW d \in Consoles, OneCopy(d, m),
           pc'[d] = pc[d], sess'[d] = sess[d], file'[d] = file[d],
           pc[d] \in {"edit", "download", "write"} =>
             /\ store'[sess[d]] = store[sess[d]]
             /\ \A b \in BankSlots : rows'[b] = rows[b] \/ ~Deposits(b, d, m)'
    PROVE  OneCopy(d, m)'
<1>1. pc[d] \in {"edit", "download", "write"} => Copy(d)' = Copy(d)
  BY DEF Copy
<1>2. pc[d] \in {"edit", "download", "write"} =>
        \A b \in BankSlots : Deposits(b, d, m)' => Deposits(b, d, m)
  BY DEF Deposits, IsPending
<1> QED
  BY <1>1, <1>2, OneCopyFrame

LEMMA DepositOnce ==
    ASSUME TypeInv, HoldInv, NEW m \in Mons, OnePlace(m), \A d \in Consoles : OneCopy(d, m),
           NEW c \in Consoles, NEW i \in SaveSlots, NEW b \in BankSlots,
           NEW heard \in BOOLEAN, Deposit(c, i, b, heard)
    PROVE  OnePlace(m)' /\ \A d \in Consoles : OneCopy(d, m)'
<1> DEFINE s == sess[c]
           n == store[s].save[i]
<1>1. /\ s \in Sessions /\ s \in ActiveIds /\ n \in Mons /\ rows[b] = None /\ s # None
      /\ store \in Store /\ store[s].save \in Image
      /\ rows' = [rows EXCEPT ![b] = PendingRow(n, s)] /\ store' = PutInSave(s, i, Blank)
  BY EditSession, EditTypes, TypeInvParts, NoneAssumption DEF Deposit, DepositAccepted, Deposited
<1>2. /\ rows'[b] = PendingRow(n, s) /\ rows'[b] # None
      /\ rows'[b].mon = n /\ rows'[b].held = s /\ ~rows'[b].committed
      /\ \A x \in BankSlots \ {b} : rows'[x] = rows[x]
  BY <1>1, TypeInvParts, PendingIsRow, NoRowAssumption DEF Rows
<1>3. /\ store'[s].save = [store[s].save EXCEPT ![i] = Blank] /\ store'[s] # None
      /\ \A t \in Sessions \ {s} : store'[t] = store[t]
  BY <1>1, PutInSaveType
<1>4. /\ sess' = sess /\ file' = file /\ game' = game
      /\ \A x \in Consoles \ {c} : pc'[x] = pc[x]
      /\ pc[c] = "edit" /\ pc'[c] \in {"edit", "download"}
  <2>1. pc \in [Consoles -> Phases]
    BY TypeInvParts DEF ConsoleOK
  <2> QED
    BY <2>1 DEF Deposit, AfterEdit, Phase
<1>5. \A d \in Consoles \ {c} : sess[d] # s
  BY <1>1 DEF HoldInv, SessionsUnique
<1>6. OnePlace(m)'
  <2>1. ~Counts(b, m)'
    BY <1>1, <1>2, <1>4, <1>5 DEF Counts
  <2>2. \A x \in BankSlots \ {b} : Counts(x, m)' => Counts(x, m)
    BY <1>2, <1>4, CountsKept
  <2> QED
    BY <1>4, <2>1, <2>2, PlacesShrink
<1>7. ASSUME NEW d \in Consoles \ {c}
      PROVE  OneCopy(d, m)'
  <2>1. pc[d] \in {"edit", "download", "write"} => sess[d] \in Sessions
    BY DEF TypeInv, TypeOK, PhaseOK
  <2>2. \A x \in BankSlots : rows'[x] = rows[x] \/ ~Deposits(x, d, m)'
    BY <1>2, <1>4, <1>5 DEF Deposits
  <2> QED
    BY <1>3, <1>4, <1>5, <2>1, <2>2, OthersCopy
<1>8. OneCopy(c, m)'
  <2>1. Copy(c) = store[s].save /\ Copy(c)' = store'[s].save
    BY <1>4 DEF Copy
  <2>2. \A j \in SaveSlots : Copy(c)'[j] = m => Copy(c)[j] = m /\ j # i
    BY <1>1, <1>3, <2>1, BlankAssumption DEF Image
  <2>3. \A x \in BankSlots : Deposits(x, c, m)' => Deposits(x, c, m) \/ (x = b /\ n = m)
    BY <1>2, <1>4 DEF Deposits, IsPending
  <2>4. n = m => Copy(c)[i] = m
    BY <2>1
  <2>5. /\ \A j, k \in SaveSlots : Copy(c)[j] = m /\ Copy(c)[k] = m => j = k
        /\ \A x, y \in BankSlots : Deposits(x, c, m) /\ Deposits(y, c, m) => x = y
        /\ \A j \in SaveSlots, x \in BankSlots : ~(Copy(c)[j] = m /\ Deposits(x, c, m))
    BY <1>4 DEF OneCopy
  <2> QED
    BY <2>4, <2>5, <2>2, <2>3 DEF OneCopy
<1> QED
  BY <1>6, <1>7, <1>8

LEMMA WithdrawOnce ==
    ASSUME TypeInv, HoldInv, EvenInv, SessionsOpen,
           NEW m \in Mons, OnePlace(m), \A d \in Consoles : OneCopy(d, m),
           NEW c \in Consoles, NEW i \in SaveSlots, NEW b \in BankSlots,
           NEW heard \in BOOLEAN, Withdraw(c, i, b, heard)
    PROVE  OnePlace(m)' /\ \A d \in Consoles : OneCopy(d, m)'
<1> DEFINE s == sess[c]
           n == rows[b].mon
           Home == c \in Switches /\ ~heard
<1>1. /\ s \in Sessions /\ s \in ActiveIds /\ s # None /\ rows[b] \in Row
      /\ store \in Store /\ store[s].save \in Image /\ store[s].save[i] = Blank
      /\ rows[b] # None /\ n \in Mons
      /\ rows' = Withdrawn(rows, s, b) /\ store' = PutInSave(s, i, n)
  BY EditSession, EditTypes, TypeInvParts, NoneAssumption
  DEF Withdraw, WithdrawAccepted, Rows
<1>2. IF rows[b].committed THEN rows[b].held = None ELSE rows[b].held = s
  BY <1>1 DEF Withdraw, WithdrawAccepted, HoldInv, PendingIsHeld, IsPending
<1>3. /\ \A x \in BankSlots \ {b} : rows'[x] = rows[x]
      /\ rows'[b] # None => rows'[b].mon = n /\ rows'[b].committed /\ rows[b].committed
  <2>1. [rows[b] EXCEPT !.held = s].mon = n
        /\ [rows[b] EXCEPT !.held = s].committed = rows[b].committed
    BY <1>1 DEF Row
  <2> QED
    BY <1>1, <2>1, TypeInvParts DEF Withdrawn, Rows
<1>4. /\ store'[s].save = [store[s].save EXCEPT ![i] = n] /\ store'[s] # None
      /\ \A t \in Sessions \ {s} : store'[t] = store[t]
  BY <1>1, PutInSaveType
<1>5. /\ game' = game /\ pc[c] = "edit"
      /\ \A x \in Consoles \ {c} : pc'[x] = pc[x] /\ sess'[x] = sess[x] /\ file'[x] = file[x]
      /\ Home => pc'[c] = "idle" /\ sess'[c] = None
      /\ ~Home => pc'[c] \in {"edit", "download"} /\ sess'[c] = s
  <2>1. pc \in [Consoles -> Phases] /\ file \in [Consoles -> Image \cup {None}]
    BY TypeInvParts DEF ConsoleOK
  <2>2. CASE Home
    BY <2>2, GoHomeSess DEF Withdraw
  <2>3. CASE ~Home
    BY <2>1, <2>3 DEF Withdraw, AfterEdit, Phase
  <2> QED
    BY <2>2, <2>3
<1>6. \A d \in Consoles \ {c} : sess[d] # s
  BY <1>1 DEF HoldInv, SessionsUnique
<1>7. OnePlace(m)'
  <2>1. Counts(b, m)' => Counts(b, m)
    BY <1>1, <1>2, <1>3 DEF Counts
  <2>2. \A x \in BankSlots \ {b} : Counts(x, m)' => Counts(x, m)
    BY <1>3, <1>5, CountsKept
  <2> QED
    BY <1>5, <2>1, <2>2, PlacesShrink
<1>8. ASSUME NEW d \in Consoles \ {c}
      PROVE  OneCopy(d, m)'
  <2>1. pc[d] \in {"edit", "download", "write"} => sess[d] \in Sessions
    BY DEF TypeInv, TypeOK, PhaseOK
  <2>2. \A x \in BankSlots : rows'[x] = rows[x] \/ ~Deposits(x, d, m)'
    BY <1>3 DEF Deposits, IsPending
  <2> QED
    BY <1>4, <1>5, <1>6, <2>1, <2>2, OthersCopy
<1>9. OneCopy(c, m)'
  <2>1. CASE Home
    BY <1>5, <2>1 DEF OneCopy
  <2>2. CASE ~Home
    <3>1. Copy(c) = store[s].save /\ Copy(c)' = store'[s].save
      BY <1>5, <2>2 DEF Copy
    <3>2. \A j \in SaveSlots : Copy(c)'[j] = m => Copy(c)[j] = m \/ (j = i /\ n = m)
      BY <1>1, <1>4, <3>1 DEF Image
    <3>3. \A x \in BankSlots : Deposits(x, c, m)' => Deposits(x, c, m) /\ x # b
      BY <1>3, <1>5, <2>2 DEF Deposits, IsPending
    <3>4. /\ \A j, k \in SaveSlots : Copy(c)[j] = m /\ Copy(c)[k] = m => j = k
          /\ \A x, y \in BankSlots : Deposits(x, c, m) /\ Deposits(y, c, m) => x = y
          /\ \A j \in SaveSlots, x \in BankSlots : ~(Copy(c)[j] = m /\ Deposits(x, c, m))
      BY <1>5 DEF OneCopy
    <3>5. CASE n = m /\ rows[b].committed
      <4>1. Counts(b, m) /\ rows[b].held # s
        BY <1>1, <1>2, <3>5 DEF Counts
      <4>2. /\ \A j \in SaveSlots : Copy(c)[j] # m
            /\ \A x \in BankSlots : ~Deposits(x, c, m)
        BY <1>5, <4>1, CopyIsNowhereElse
      <4> QED
        BY <3>2, <3>3, <4>2 DEF OneCopy
    <3>6. CASE n = m /\ ~rows[b].committed
      <4>1. Deposits(b, c, m)
        BY <1>1, <1>2, <3>6 DEF Deposits, IsPending
      <4> QED
        BY <3>2, <3>3, <3>4, <4>1 DEF OneCopy
    <3>7. CASE n # m
      BY <3>2, <3>3, <3>4, <3>7 DEF OneCopy
    <3> QED
      BY <3>5, <3>6, <3>7
  <2> QED
    BY <2>1, <2>2
<1> QED
  BY <1>7, <1>8, <1>9

\* Writing the save: the copy takes the place of the game, the deposits that of the
\* withdrawals.
LEMMA WriteOnce ==
    ASSUME TypeInv, HoldInv, EvenInv, SessionsOpen,
           NEW m \in Mons, OnePlace(m), \A d \in Consoles : OneCopy(d, m),
           NEW c \in Consoles, WriteSave(c)
    PROVE  OnePlace(m)' /\ \A d \in Consoles : OneCopy(d, m)'
<1>1. /\ UNCHANGED <<rows, store, sess, file>> /\ pc[c] = "write" /\ pc'[c] = "commit"
      /\ game'[c] = file[c] /\ Copy(c) = file[c]
      /\ \A d \in Consoles \ {c} : pc'[d] = pc[d] /\ game'[d] = game[d]
  BY DEF WriteSave, Phase, TypeInv, TypeOK, Copy
<1>2. /\ sess[c] # None /\ \A d \in Consoles \ {c} : sess[d] # sess[c]
      /\ \A b \in BankSlots : rows[b] # None => rows[b] \in Row
  BY <1>1 DEF TypeInv, TypeOK, PhaseOK, HoldInv, SessionsUnique
<1>3. \A i \in SaveSlots : InGame(c, i, m)' => Copy(c)[i] = m
  BY <1>1 DEF InGame
<1>4. \A d \in Consoles \ {c}, i \in SaveSlots : InGame(d, i, m)' => InGame(d, i, m)
  BY <1>1 DEF InGame
<1>5. ASSUME NEW b \in BankSlots, Counts(b, m)'
      PROVE  \/ Deposits(b, c, m)
             \/ Counts(b, m) /\ ~(rows[b].committed /\ rows[b].held = sess[c])
  <2>1. rows[b] # None /\ rows[b].mon = m /\ rows'[b] = rows[b]
    BY <1>1, <1>5 DEF Counts
  <2>2. CASE rows[b].held = None
    BY <1>2, <2>1, <2>2 DEF Counts
  <2>3. ASSUME NEW d \in Consoles, sess[d] = rows[b].held,
               rows[b].committed <=> pc'[d] # "commit"
        PROVE  \/ Deposits(b, c, m)
               \/ Counts(b, m) /\ ~(rows[b].committed /\ rows[b].held = sess[c])
    <3>1. CASE d = c
      BY <1>1, <2>1, <2>3, <3>1 DEF Deposits, IsPending
    <3>2. CASE d # c
      <4>1. rows[b].committed <=> pc[d] # "commit"
        BY <1>1, <2>3, <3>2
      <4>2. Counts(b, m)
        BY <2>1, <2>3, <4>1 DEF Counts
      <4> QED
        BY <1>2, <2>3, <3>2, <4>2
    <3> QED
      BY <3>1, <3>2
  <2> QED
    BY <1>1, <1>5, <2>1, <2>2, <2>3 DEF Counts
<1>6. /\ \A i, j \in SaveSlots : Copy(c)[i] = m /\ Copy(c)[j] = m => i = j
      /\ \A a, b \in BankSlots : Deposits(a, c, m) /\ Deposits(b, c, m) => a = b
      /\ \A i \in SaveSlots, b \in BankSlots : ~(Copy(c)[i] = m /\ Deposits(b, c, m))
  BY <1>1 DEF OneCopy
<1>7. OnePlace(m)'
  <2>1. CASE (\E i \in SaveSlots : Copy(c)[i] = m) \/ \E b \in BankSlots : Deposits(b, c, m)
    <3>1. /\ \A d \in Consoles \ {c}, i \in SaveSlots : ~InGame(d, i, m)
          /\ \A b \in BankSlots : Counts(b, m) => rows[b].committed /\ rows[b].held = sess[c]
      BY <1>1, <2>1, CopyIsNowhereElse
    <3>2. \A b \in BankSlots : Counts(b, m)' => Deposits(b, c, m)
      BY <1>5, <3>1
    <3>3. \A d \in Consoles, i \in SaveSlots : InGame(d, i, m)' => d = c /\ Copy(c)[i] = m
      BY <1>3, <1>4, <3>1
    <3> QED
      BY <1>6, <3>2, <3>3 DEF OnePlace
  <2>2. CASE ~((\E i \in SaveSlots : Copy(c)[i] = m) \/ \E b \in BankSlots : Deposits(b, c, m))
    <3>1. \A b \in BankSlots : Counts(b, m)' => Counts(b, m)
      BY <1>5, <2>2
    <3>2. \A d \in Consoles, i \in SaveSlots : InGame(d, i, m)' => InGame(d, i, m)
      BY <1>3, <1>4, <2>2
    <3> QED
      BY <3>1, <3>2 DEF OnePlace
  <2> QED
    BY <2>1, <2>2
<1>8. ASSUME NEW d \in Consoles
      PROVE  OneCopy(d, m)'
  <2>1. CASE d = c
    BY <1>1, <2>1 DEF OneCopy
  <2>2. CASE d # c
    BY <1>1, <2>2, OthersCopy
  <2> QED
    BY <2>1, <2>2
<1> QED
  BY <1>7, <1>8

\* The end of a session: a commit makes rows final that counted since the write, a
\* DELETE frees rows that counted because there was no write.
LEMMA EndOnce ==
    ASSUME TypeInv, HoldInv,
           NEW m \in Mons, OnePlace(m), \A d \in Consoles : OneCopy(d, m),
           NEW c \in Consoles, NEW heard \in BOOLEAN, Finalize(c, heard) \/ Abandon(c)
    PROVE  OnePlace(m)' /\ \A d \in Consoles : OneCopy(d, m)'
<1>1. /\ store' = Remove(sess[c]) /\ game' = game /\ pc[c] # "idle"
      /\ \/ pc[c] = "commit" /\ rows' = CommitSession(rows, UserOf[c], sess[c])
         \/ pc[c] = "abandon" /\ rows' = AbandonSession(rows, UserOf[c], sess[c])
      /\ \/ pc'[c] = "idle" /\ sess'[c] = None
         \/ pc'[c] = "commit" /\ pc[c] = "commit" /\ sess'[c] = sess[c]
      /\ \A d \in Consoles \ {c} : sess'[d] = sess[d] /\ pc'[d] = pc[d] /\ file'[d] = file[d]
  BY GoHomeSess DEF Finalize, Abandon, Retry
<1>2. /\ sess[c] # None /\ \A d \in Consoles \ {c} : sess[d] # sess[c]
  BY <1>1 DEF TypeInv, PhaseOK, HoldInv, SessionsUnique
<1>3. ASSUME NEW b \in BankSlots, Counts(b, m)'
      PROVE  Counts(b, m)
  <2>1. CASE rows[b] = None \/ rows[b].held # sess[c]
    <3>1. rows'[b] = rows[b]
      BY <1>1, <2>1, EndOfSession
    <3>2. ASSUME NEW d \in Consoles
          PROVE  \/ sess'[d] = None
                 \/ sess'[d] = sess[d] /\ (pc'[d] = "commit" <=> pc[d] = "commit")
      <4>1. CASE d = c
        BY <1>1, <4>1
      <4>2. CASE d # c
        BY <1>1, <4>2
      <4> QED
        BY <4>1, <4>2
    <3> QED
      BY <1>3, <3>1, <3>2, CountsKept
  <2>2. CASE rows[b] # None /\ rows[b].held = sess[c]
    <3>1. /\ rows[b] \in Row /\ rows'[b] # None
          /\ rows'[b] = Settled(rows[b]) /\ (rows[b].committed <=> pc[c] # "commit")
      BY <1>1, <1>3, <2>2, EndOfSession DEF Counts
    <3>2. rows[b].mon = m
      BY <1>3, <3>1, SettledIsRow DEF Counts
    <3> QED
      BY <2>2, <3>1, <3>2 DEF Counts
  <2> QED
    BY <2>1, <2>2
<1>4. OnePlace(m)'
  BY <1>1, <1>3, PlacesShrink
<1>5. ASSUME NEW d \in Consoles
      PROVE  OneCopy(d, m)'
  <2>1. CASE d = c
    BY <1>1, <2>1 DEF OneCopy
  <2>2. CASE d # c
    <3>1. pc[d] \in {"edit", "download", "write"} => sess[d] # None
      BY DEF TypeInv, PhaseOK
    <3>2. pc[d] \in {"edit", "download", "write"} =>
            \A b \in BankSlots : rows'[b] = rows[b] \/ ~Deposits(b, d, m)'
      <4>1. \A b \in BankSlots : rows[b] # None /\ rows[b].held = sess[c] =>
              rows'[b] = None \/ rows'[b].held = None
        BY <1>1, EndOfSession, SettledIsRow
      <4>2. \A b \in BankSlots : rows[b] = None \/ rows[b].held # sess[c] => rows'[b] = rows[b]
        BY <1>1, EndOfSession
      <4> QED
        BY <1>1, <2>2, <3>1, <4>1, <4>2 DEF Deposits, IsPending
    <3>3. pc[d] \in {"edit", "download", "write"} => store'[sess[d]] = store[sess[d]]
      BY <1>1, <1>2, <2>2, <3>1 DEF Remove, TypeInv, TypeOK
    <3> QED
      BY <1>1, <2>2, <3>2, <3>3, OthersCopy
  <2> QED
    BY <2>1, <2>2
<1> QED
  BY <1>4, <1>5

LEMMA OnceStep ==
    ASSUME TypeInv, HoldInv, EvenInv, OpenInv, OnceInv, Next,
           Faults \cap (DestructiveFaults \cup SessionFaults) = {}
    PROVE  OnceInv'
<1> SUFFICES ASSUME NEW m \in Mons PROVE OnePlace(m)' /\ \A d \in Consoles : OneCopy(d, m)'
  BY DEF OnceInv
<1>0. /\ OnePlace(m) /\ \A d \in Consoles : OneCopy(d, m)
      /\ SessionsOpen /\ NoOrphans
      /\ "saveChanges" \notin Faults /\ "tornWrite" \notin Faults
      /\ "restart" \notin Faults /\ "expiry" \notin Faults
  BY DEF OnceInv, OpenInv, DestructiveFaults, SessionFaults
<1>t. pc \in [Consoles -> Phases] /\ store \in Store
      /\ sess \in [Consoles -> Sessions \cup {None}]
      /\ file \in [Consoles -> Image \cup {None}]
  BY TypeInvParts DEF ConsoleOK
<1>1. ASSUME NEW c \in Consoles, NEW s \in Sessions, NEW heard \in BOOLEAN,
             OpenSession(c, s, heard)
      PROVE  OnePlace(m)' /\ \A d \in Consoles : OneCopy(d, m)'
  <2>1. /\ rows' = rows /\ game' = game /\ file' = file /\ pc[c] = "idle"
        /\ store' = Create(s, UserOf[c], game[c]) /\ IsNewId(s)
        /\ IF heard THEN pc' = [pc EXCEPT ![c] = "edit"] /\ sess' = [sess EXCEPT ![c] = s]
                    ELSE pc' = pc /\ sess' = sess
    BY <1>0, <1>1, NothingToReconcile DEF OpenSession, console, Phase
  <2>2. /\ store'[s].save = game[c]
        /\ \A t \in Sessions \ {s} : store'[t] = store[t]
    BY <2>1, <1>t DEF Create, Store
  <2>3. \A b \in BankSlots : rows[b] # None => rows[b].held # s
    BY <2>1 DEF IsNewId
  <2>4. OnePlace(m)'
    <3>1. \A d \in Consoles : sess'[d] = s \/ (sess'[d] = sess[d] /\ pc'[d] = pc[d])
      BY <2>1, <1>t
    <3>2. \A b \in BankSlots : Counts(b, m)' => Counts(b, m)
      BY <2>1, <2>3, <3>1 DEF Counts
    <3> QED
      BY <1>0, <2>1, <3>2, PlacesShrink
  <2>5. ASSUME NEW d \in Consoles
        PROVE  OneCopy(d, m)'
    <3>1. CASE heard /\ d = c
      <4>1. pc'[d] = "edit" /\ sess'[d] = s
        BY <2>1, <3>1, <1>t
      <4>2. Copy(d)' = game[c]
        BY <2>2, <4>1 DEF Copy
      <4>3. \A b \in BankSlots : ~Deposits(b, d, m)'
        BY <2>1, <2>3, <4>1 DEF Deposits, IsPending
      <4>4. \A i, j \in SaveSlots : game[c][i] = m /\ game[c][j] = m => i = j
        BY <1>0 DEF OnePlace, InGame
      <4> QED
        BY <4>2, <4>3, <4>4 DEF OneCopy
    <3>2. CASE ~(heard /\ d = c)
      <4>1. pc'[d] = pc[d] /\ sess'[d] = sess[d] /\ sess[d] # s
        BY <2>1, <3>2, <1>t DEF IsNewId
      <4>2. pc[d] \in {"edit", "download", "write"} => store'[sess[d]] = store[sess[d]]
        BY <2>2, <4>1, <1>0 DEF SessionsOpen, ActiveIds
      <4> QED
        BY <1>0, <2>1, <4>1, <4>2, OthersCopy
    <3> QED
      BY <3>1, <3>2
  <2> QED
    BY <2>4, <2>5
<1>2. ASSUME NEW c \in Consoles, ListBank(c)
      PROVE  OnePlace(m)' /\ \A d \in Consoles : OneCopy(d, m)'
  <2>1. UNCHANGED <<rows, store, game, pc, sess, file>>
    BY <1>0, <1>2, NothingToReconcile DEF ListBank, console
  <2> QED
    BY <1>0, <2>1 DEF OnePlace, InGame, Counts, OneCopy, Copy, Deposits, IsPending
<1>3. ASSUME NEW c \in Consoles, NEW i \in SaveSlots, NEW b \in BankSlots,
             NEW heard \in BOOLEAN, Deposit(c, i, b, heard) \/ Withdraw(c, i, b, heard)
      PROVE  OnePlace(m)' /\ \A d \in Consoles : OneCopy(d, m)'
  BY <1>0, <1>3, DepositOnce, WithdrawOnce
<1>4. ASSUME NEW c \in Consoles,
             \/ ChooseWrite(c) \/ LeaveBoxes(c) \/ SwitchGivesUp(c) \/ Crash(c)
             \/ Download(c) \/ DownloadFails(c) \/ WriteFails(c)
             \/ FinalizeFails(c) \/ AbandonFails(c)
      PROVE  OnePlace(m)' /\ \A d \in Consoles : OneCopy(d, m)'
  <2>1. /\ UNCHANGED <<rows, store, game>>
        /\ \A d \in Consoles \ {c} : pc'[d] = pc[d] /\ sess'[d] = sess[d] /\ file'[d] = file[d]
    BY <1>4, <1>t, GoHomeSess
    DEF ChooseWrite, LeaveBoxes, SwitchGivesUp, Crash, Download, DownloadFails, WriteFails,
        FinalizeFails, AbandonFails, Retry, Phase
  <2>2. \/ sess'[c] = None /\ pc'[c] = "idle"
        \/ sess'[c] = sess[c] /\ pc[c] = "commit" /\ pc'[c] = "commit"
        \/ sess'[c] = sess[c] /\ pc[c] # "commit" /\ pc'[c] = "abandon"
        \/ sess'[c] = sess[c] /\ pc[c] = "edit" /\ pc'[c] = "download"
        \/ /\ sess'[c] = sess[c] /\ pc[c] = "download" /\ pc'[c] = "write"
           /\ file'[c] = store[sess[c]].save
    BY <1>4, <1>t, GoHomeSess
    DEF ChooseWrite, LeaveBoxes, SwitchGivesUp, Crash, Download, DownloadFails, WriteFails,
        FinalizeFails, AbandonFails, Retry, Phase
  <2>3. OnePlace(m)'
    <3>1. ASSUME NEW d \in Consoles
          PROVE  \/ sess'[d] = None
                 \/ sess'[d] = sess[d] /\ (pc'[d] = "commit" <=> pc[d] = "commit")
      <4>1. CASE d = c
        BY <2>2, <4>1
      <4>2. CASE d # c
        BY <2>1, <4>2
      <4> QED
        BY <4>1, <4>2
    <3>2. \A b \in BankSlots : Counts(b, m)' => Counts(b, m)
      BY <2>1, <3>1, CountsKept
    <3> QED
      BY <1>0, <2>1, <3>2, PlacesShrink
  <2>4. OneCopy(c, m)'
    <3>1. pc'[c] \in {"edit", "download", "write"} =>
            /\ pc[c] \in {"edit", "download", "write"} /\ Copy(c)' = Copy(c)
            /\ \A b \in BankSlots : Deposits(b, c, m)' => Deposits(b, c, m)
      BY <2>1, <2>2 DEF Copy, Deposits, IsPending
    <3> QED
      BY <1>0, <3>1, OneCopyFrame
  <2>5. \A d \in Consoles \ {c} : OneCopy(d, m)'
    BY <1>0, <2>1, OthersCopy
  <2> QED
    BY <2>3, <2>4, <2>5
<1>5. ASSUME NEW c \in Consoles, WriteSave(c)
      PROVE  OnePlace(m)' /\ \A d \in Consoles : OneCopy(d, m)'
  BY <1>0, <1>5, WriteOnce
<1>6. ASSUME NEW c \in Consoles, NEW heard \in BOOLEAN, Finalize(c, heard) \/ Abandon(c)
      PROVE  OnePlace(m)' /\ \A d \in Consoles : OneCopy(d, m)'
  BY <1>0, <1>6, EndOnce
<1>7. ASSUME NEW c \in Consoles,
             \/ \E i \in SaveSlots, b \in BankSlots : DepositFails(c, i, b) \/ WithdrawFails(c, i, b)
             \/ TornWrite(c)
      PROVE  FALSE
  BY <1>0, <1>7 DEF DepositFails, WithdrawFails, TornWrite
<1>8. ASSUME Restart \/ \E s \in Sessions : Expire(s)
      PROVE  FALSE
  BY <1>0, <1>8 DEF Restart, Expire
<1> QED
  BY <1>1, <1>2, <1>3, <1>4, <1>5, <1>6, <1>7, <1>8 DEF Next, ConsoleNext, Edit, RunOn

\* A Pokemon starts in one place.  The name of the bank in Places must not be that
\* of a console, or the two kinds of place could not be told apart.
LEMMA InitOnce ==
    ASSUME "bank" \notin Consoles
    PROVE  Init => OnceInv
<1> SUFFICES ASSUME Init, NEW m \in Mons PROVE OnePlace(m) /\ \A c \in Consoles : OneCopy(c, m)
  BY DEF OnceInv
<1>1. PICK p \in Places(m) : Places(m) = {p}
  BY DEF Init
<1>2. \A c \in Consoles, i \in SaveSlots : InGame(c, i, m) => <<c, i>> \in Places(m)
  BY DEF Places, InGame
<1>3. \A b \in BankSlots : Counts(b, m) => <<"bank", b>> \in Places(m)
  BY DEF Places, Counts
<1>4. \A c \in Consoles, i \in SaveSlots, b \in BankSlots : <<c, i>> # <<"bank", b>>
  OBVIOUS
<1>5. OnePlace(m)
  BY <1>1, <1>2, <1>3, <1>4 DEF OnePlace
<1>6. \A c \in Consoles : OneCopy(c, m)
  BY DEF Init, OneCopy
<1> QED
  BY <1>5, <1>6

LEMMA OnceIsShown ==
    ASSUME TypeInv, EvenInv, OpenInv, OnceInv
    PROVE  NothingShownTwice
<1> SUFFICES ASSUME NEW c \in Consoles, pc[c] = "edit", NEW b \in BankSlots,
                    VisibleInBank(rows[b], sess[c]), Has(store[sess[c]].save, rows[b].mon)
             PROVE  FALSE
  BY DEF NothingShownTwice
<1> DEFINE m == rows[b].mon
<1>1. rows[b] \in Row /\ rows[b] # None /\ m \in Mons /\ sess[c] # None
  BY DEF VisibleInBank, IsBanked, IsPending, TypeInv, TypeOK, PhaseOK, Row
<1>2. OnePlace(m) /\ OneCopy(c, m) /\ SessionsOpen /\ \E i \in SaveSlots : Copy(c)[i] = m
  BY <1>1 DEF OnceInv, OpenInv, Has, Copy
<1>3. CASE IsBanked(rows[b])
  <2>1. Counts(b, m) /\ rows[b].held # sess[c]
    BY <1>1, <1>3 DEF IsBanked, Counts
  <2> QED
    BY <1>1, <1>2, <2>1, CopyIsNowhereElse
<1>4. CASE IsPending(rows[b]) /\ rows[b].held = sess[c]
  BY <1>2, <1>4 DEF OneCopy, Deposits
<1> QED
  BY <1>1, <1>3, <1>4 DEF VisibleInBank

LEMMA OnceAndNotLost ==
    ASSUME TypeInv, NoLoss, OnceInv
    PROVE  ExactlyOnce
<1> SUFFICES ASSUME \A b \in BankSlots : rows[b] # None => rows[b].held = None, NEW m \in Mons
             PROVE  \E p \in Places(m) : Places(m) = {p}
  BY DEF ExactlyOnce
<1>1. \A p \in Places(m) :
        \/ \E c \in Consoles, i \in SaveSlots : p = <<c, i>> /\ InGame(c, i, m)
        \/ \E b \in BankSlots : p = <<"bank", b>> /\ Counts(b, m)
  <2>1. \A p \in Consoles \X SaveSlots : p = <<p[1], p[2]>>
    OBVIOUS
  <2> QED
    BY <2>1 DEF Places, InGame, Counts
<1>2. \A p, q \in Places(m) : p = q
  BY <1>1 DEF OnceInv, OnePlace
<1>3. \E p \in Places(m) : TRUE
  <2>1. CASE InBank(m)
    BY <2>1 DEF InBank, Places
  <2>2. ASSUME NEW c \in Consoles, NEW i \in SaveSlots, game[c][i] = m
        PROVE  <<c, i>> \in Places(m)
    BY <2>2 DEF Places
  <2> QED
    BY <2>1, <2>2 DEF NoLoss, Has
<1> QED
  BY <1>2, <1>3

LEMMA OnceAlways ==
    ASSUME Faults \cap (DestructiveFaults \cup SessionFaults) = {}, "bank" \notin Consoles
    PROVE  Spec => [](IInv /\ EvenInv /\ OpenInv /\ OnceInv)
<1> DEFINE Inv == IInv /\ EvenInv /\ OpenInv /\ OnceInv
<1>0. Faults \cap DestructiveFaults = {} /\ Faults \cap SessionFaults = {}
  OBVIOUS
<1>1. Init => Inv
  <2>1. Init => IInv
    BY InitType, InitHold, InitAnchored DEF IInv
  <2>2. Init => EvenInv
    BY DEF Init, EvenInv, Even
  <2> QED
    BY <2>1, <2>2, InitOpen, InitOnce
<1>2. Inv /\ [Next]_vars => Inv'
  <2> SUFFICES ASSUME Inv, [Next]_vars PROVE Inv'
    OBVIOUS
  <2>1. CASE Next
    BY <1>0, <2>1, TypeStep, HoldStep, AnchoredStep, EvenStep, OpenStep, OnceStep DEF IInv
  <2>2. CASE UNCHANGED vars
    <3>1. Anchored' /\ EvenInv' /\ OpenInv'
      BY <2>2
      DEF vars, IInv, Anchored, FreeRow, Keeps, EvenInv, Even, OpenInv, NoOrphans, SessionsOpen,
          Has, Withdrawing, Depositing, IsPending, ActiveIds
    <3>2. OnceInv'
      BY <2>2 DEF vars, OnceInv, OnePlace, InGame, Counts, OneCopy, Copy, Deposits, IsPending
    <3> QED
      BY <2>2, <3>1, <3>2, TypeStep, HoldStep DEF IInv
  <2> QED
    BY <2>1, <2>2
<1> QED
  BY <1>1, <1>2, PTL DEF Spec

\* While sessions do not end behind their consoles, the boxes screen shows no
\* Pokemon twice, also when an older session of the same game still holds rows.
THEOREM ShownOnce ==
    ASSUME Faults \cap (DestructiveFaults \cup SessionFaults) = {}, "bank" \notin Consoles
    PROVE  Spec => []NothingShownTwice
<1>1. IInv /\ EvenInv /\ OpenInv /\ OnceInv => NothingShownTwice
  BY OnceIsShown DEF IInv
<1> QED
  BY <1>1, OnceAlways, PTL

\* Nor is one ever copied or lost: once everything is quiet each is in exactly one
\* place, whatever calls are lost, whichever console crashes, and however often a
\* commit is posted.
THEOREM EachExactlyOnce ==
    ASSUME Faults \cap (DestructiveFaults \cup SessionFaults) = {}, "bank" \notin Consoles
    PROVE  Spec => []ExactlyOnce
<1>1. IInv /\ EvenInv /\ OpenInv /\ OnceInv => ExactlyOnce
  BY AnchoredNoLoss, OnceAndNotLost DEF IInv
<1> QED
  BY <1>1, OnceAlways, PTL
================================================================================
