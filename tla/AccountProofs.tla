------------------------------ MODULE AccountProofs ------------------------------
(***************************************************************************)
(* Theorems about Accounts, for every number of handlers, consoles, rows   *)
(* and boxes.                                                              *)
(***************************************************************************)
EXTENDS AccountProps, FiniteSetTheorems, TLAPS

--------------------------------------------------------------------------------
(* Types, and ids: whatever remembers an account or a code remembers one that was  *)
(* given out, so that a new id is nobody's.                                        *)

IdsGiven ==
    /\ \A u \in Registered : u <= lastUser
    /\ \A c \in CodesMade : c <= lastCode /\ codes[c].user <= lastUser
    /\ \A h \in Running : /\ reqs[h].user # None => reqs[h].user <= lastUser
                          /\ reqs[h].code # None => reqs[h].code <= lastCode
    /\ \A k \in Consoles : pairedBy[k] # None => pairedBy[k] <= lastCode

\* What a handler has in its locals where it needs it.
Knows(r) ==
    /\ r.at \in {"boxes", "fill", "issue", "load", "lastAdmin", "codes", "devices",
                "save", "make"} => r.user \in Users
    /\ r.at \in {"find", "spend"} => r.code \in Codes
    /\ r.at = "spend" => r.dev \in Devices

AccountsInv ==
    /\ AccountsTypeOK
    /\ IdsGiven
    /\ \A h \in Running : Knows(reqs[h])
    /\ \A u \in Registered : IsFiniteSet(users[u].boxes)

LEMMA InitInv == AccountsInit => AccountsInv
BY BoundsAssumption, BoxCountsAssumption
   DEF AccountsInit, AccountsInv, AccountsTypeOK, IdsGiven, Registered, CodesMade, Running

\* Only the handler h has other locals than before, r or none.
LEMMA OneHandler ==
    ASSUME AccountsInv, NEW h \in Handlers, NEW r \in Request \cup {None},
           reqs' = [reqs EXCEPT ![h] = r], r # None => Knows(r),
           r # None => /\ r.user # None => r.user <= lastUser'
                       /\ r.code # None => r.code <= lastCode',
           lastUser <= lastUser', lastCode <= lastCode',
           lastUser' \in 0..MaxUsers, lastCode' \in 0..MaxCodes
    PROVE  /\ reqs' \in [Handlers -> Request \cup {None}]
           /\ \A k \in Running' : /\ Knows(reqs'[k])
                                  /\ reqs'[k].user # None => reqs'[k].user <= lastUser'
                                  /\ reqs'[k].code # None => reqs'[k].code <= lastCode'
<1>1. reqs' \in [Handlers -> Request \cup {None}]
  BY DEF AccountsInv, AccountsTypeOK
<1>2. ASSUME NEW k \in Running'
      PROVE  /\ Knows(reqs'[k])
             /\ reqs'[k].user # None => reqs'[k].user <= lastUser'
             /\ reqs'[k].code # None => reqs'[k].code <= lastCode'
  <2>1. CASE k = h
    BY <1>2, <2>1 DEF Running, AccountsInv, AccountsTypeOK
  <2>2. CASE k # h
    <3>1. k \in Running /\ reqs'[k] = reqs[k] /\ reqs[k] \in Request
      BY <1>2, <2>2 DEF Running, AccountsInv, AccountsTypeOK
    <3>2. reqs[k].user \in Users \cup {None} /\ reqs[k].code \in Codes \cup {None}
      BY <3>1 DEF Request
    <3> QED
      BY <3>1, <3>2, BoundsAssumption DEF AccountsInv, IdsGiven, AccountsTypeOK, Users, Codes
  <2> QED
    BY <2>1, <2>2
<1> QED
  BY <1>1, <1>2

LEMMA RequestFields ==
    ASSUME AccountsInv, NEW h \in Running
    PROVE  /\ h \in Handlers /\ reqs[h] \in Request /\ Knows(reqs[h])
           /\ reqs[h].user \in Users \cup {None} /\ reqs[h].code \in Codes \cup {None}
           /\ reqs[h].dev \in Devices \cup {None} /\ reqs[h].flag \in BOOLEAN
           /\ reqs[h].from \in Nat
           /\ reqs[h].user # None => reqs[h].user <= lastUser
           /\ reqs[h].code # None => reqs[h].code <= lastCode
BY DEF AccountsInv, AccountsTypeOK, IdsGiven, Running, Request

\* A step that only changes what h has in its locals.
LEMMA LocalStep ==
    ASSUME AccountsInv, NEW h \in Handlers, NEW r \in Request \cup {None},
           reqs' = [reqs EXCEPT ![h] = r], UNCHANGED state, r # None => Knows(r),
           r # None => /\ r.user # None => r.user <= lastUser
                       /\ r.code # None => r.code <= lastCode
    PROVE  AccountsInv'
<1>1. /\ UNCHANGED <<users, codes, devices, lastUser, lastCode, boxCount, pairedBy>>
      /\ lastUser \in 0..MaxUsers /\ lastCode \in 0..MaxCodes
  BY DEF state, tables, AccountsInv, AccountsTypeOK
<1>2. /\ reqs' \in [Handlers -> Request \cup {None}]
      /\ \A k \in Running' : /\ Knows(reqs'[k])
                             /\ reqs'[k].user # None => reqs'[k].user <= lastUser'
                             /\ reqs'[k].code # None => reqs'[k].code <= lastCode'
  <2>1. lastUser <= lastUser' /\ lastCode <= lastCode' /\ lastUser' \in 0..MaxUsers /\ lastCode' \in 0..MaxCodes
    BY <1>1, BoundsAssumption
  <2> QED
    BY <1>1, <2>1, OneHandler
<1> QED
  BY <1>1, <1>2 DEF AccountsInv, AccountsTypeOK, IdsGiven, Registered, CodesMade

LEMMA BeginInv ==
    ASSUME AccountsInv, NEW h \in Handlers, BeginSome(h)
    PROVE  AccountsInv'
<1>1. CASE BeginRegister(h)
  <2>1. Asked("register", "admins") \in Request /\ Knows(Asked("register", "admins"))
    BY DEF Asked, Request, Ops, Knows
  <2> QED
    BY <1>1, <2>1, LocalStep DEF BeginRegister, Asked
<1>2. CASE BeginEnroll(h)
  <2>1. Asked("enroll", "newest") \in Request /\ Knows(Asked("enroll", "newest"))
    BY DEF Asked, Request, Ops, Knows
  <2>2. lastUser <= lastUser' /\ lastCode <= lastCode' /\ lastUser' \in 0..MaxUsers /\ lastCode' \in 0..MaxCodes
    BY <1>2, BoundsAssumption DEF BeginEnroll, AccountsInv, AccountsTypeOK
  <2>3. /\ reqs' \in [Handlers -> Request \cup {None}]
        /\ \A k \in Running' : /\ Knows(reqs'[k])
                               /\ reqs'[k].user # None => reqs'[k].user <= lastUser'
                               /\ reqs'[k].code # None => reqs'[k].code <= lastCode'
    BY <1>2, <2>1, <2>2, OneHandler DEF BeginEnroll, Asked
  <2> QED
    BY <1>2, <2>2, <2>3 DEF BeginEnroll, Cleaned, AccountsInv, AccountsTypeOK, IdsGiven,
                            Registered, CodesMade
<1>3. ASSUME NEW u \in Users, BeginLogin(h, u) PROVE AccountsInv'
  <2>1. [Asked("login", "boxes") EXCEPT !.user = u] \in Request
        /\ Knows([Asked("login", "boxes") EXCEPT !.user = u]) /\ u <= lastUser
    BY <1>3 DEF BeginLogin, Asked, Request, Ops, Knows, AccountsInv, IdsGiven
  <2> QED
    BY <1>3, <2>1, LocalStep DEF BeginLogin, Asked
<1>4. ASSUME NEW u \in Users, BeginCreate(h, u) PROVE AccountsInv'
  <2> DEFINE r == [Asked("create", "make") EXCEPT
                     !.user = u, !.codes = Expired \cup {c \in CodesMade : codes[c].user = u}]
  <2>1. r \in Request /\ Knows(r) /\ r.user = u /\ r.code = None /\ u <= lastUser
    BY <1>4 DEF BeginCreate, Asked, Request, Ops, Knows, AccountsInv, IdsGiven, Expired, CodesMade
  <2> QED
    BY <1>4, <2>1, LocalStep DEF BeginCreate
<1>5. ASSUME NEW c \in Codes, BeginPair(h, c) PROVE AccountsInv'
  <2>1. c <= lastCode
    BY <1>5 DEF BeginPair
  <2>2. [Asked("pair", "find") EXCEPT !.code = c] \in Request
        /\ Knows([Asked("pair", "find") EXCEPT !.code = c])
    BY DEF Asked, Request, Ops, Knows
  <2> QED
    BY <1>5, <2>1, <2>2, LocalStep DEF BeginPair, Asked
<1>6. ASSUME NEW actor \in Users, NEW u \in Users, BeginDelete(h, actor, u)
      PROVE  AccountsInv'
  <2>1. [Asked("delete", "load") EXCEPT !.user = u] \in Request
        /\ Knows([Asked("delete", "load") EXCEPT !.user = u]) /\ u <= lastUser
    BY <1>6 DEF BeginDelete, Asked, Request, Ops, Knows, AccountsInv, IdsGiven
  <2> QED
    BY <1>6, <2>1, LocalStep DEF BeginDelete, Asked
<1>7. ASSUME NEW actor \in Users, NEW u \in Users, NEW want \in BOOLEAN,
             BeginSetAdmin(h, actor, u, want)
      PROVE  AccountsInv'
  <2> DEFINE r == [Asked("setAdmin", "load") EXCEPT !.user = u, !.flag = want]
  <2>1. r \in Request /\ Knows(r) /\ r.user = u /\ r.code = None /\ u <= lastUser
    BY <1>7 DEF BeginSetAdmin, Asked, Request, Ops, Knows, AccountsInv, IdsGiven
  <2> QED
    BY <1>7, <2>1, LocalStep DEF BeginSetAdmin
<1> QED
  BY <1>1, <1>2, <1>3, <1>4, <1>5, <1>6, <1>7 DEF BeginSome

\* A handler goes on, and the tables stay.
LEMMA GoesOn ==
    ASSUME AccountsInv, NEW h \in Running, NEW r \in Request, NEW place,
           Goes(h, r, place), UNCHANGED state,
           [r EXCEPT !.at = place] \in Request, Knows([r EXCEPT !.at = place]),
           r.user # None => r.user <= lastUser, r.code # None => r.code <= lastCode
    PROVE  AccountsInv'
<1> DEFINE q == [r EXCEPT !.at = place]
<1>1. q \in Request /\ Knows(q) /\ q.user = r.user /\ q.code = r.code
  BY DEF Request
<1>2. reqs' = [reqs EXCEPT ![h] = q] /\ h \in Handlers
  BY DEF Goes, Running
<1> HIDE DEF q
<1> QED
  BY <1>1, <1>2, LocalStep

LEMMA StopInv == ASSUME AccountsInv, NEW h \in Handlers, Stop(h) PROVE AccountsInv'
BY LocalStep DEF Stop, Ends

\* What CountBoxes counts is a number.
LEMMA BoxesCounted ==
    ASSUME AccountsInv, NEW u \in Registered
    PROVE  Cardinality(users[u].boxes) \in Nat
BY FS_CardinalityType DEF AccountsInv

\* The account of a code was given an id.
LEMMA CodeOwner ==
    ASSUME AccountsInv, NEW c \in CodesMade
    PROVE  codes[c].user \in Users /\ codes[c].user <= lastUser
BY DEF AccountsInv, AccountsTypeOK, IdsGiven, CodesMade, PairingCode

LEMMA LocalInv ==
    ASSUME AccountsInv, NEW h \in Handlers,
           \/ ReadAdmins(h) \/ CountBoxes(h) \/ NewestCode(h) \/ CountUsers(h) \/ OnlyUser(h)
           \/ FindCode(h) \/ LoadUser(h) \/ NotLastAdmin(h) \/ SelectCodes(h) \/ SelectDevices(h)
    PROVE  AccountsInv'
<1> DEFINE r == reqs[h]
<1>1. h \in Running /\ UNCHANGED state
  BY DEF ReadAdmins, CountBoxes, NewestCode, CountUsers, OnlyUser, FindCode, LoadUser,
         NotLastAdmin, SelectCodes, SelectDevices, At
<1>2. /\ r \in Request /\ Knows(r)
      /\ r.user # None => r.user <= lastUser /\ r.user \in Users
      /\ r.code # None => r.code <= lastCode
  BY <1>1, RequestFields
<1>3. CASE ReadAdmins(h)
  <2>1. PICK b \in BOOLEAN : Goes(h, [r EXCEPT !.flag = b], "insert")
    BY <1>3 DEF ReadAdmins, MakesAdmin
  <2>2. /\ [r EXCEPT !.flag = b] \in Request
        /\ [[r EXCEPT !.flag = b] EXCEPT !.at = "insert"] \in Request
        /\ Knows([[r EXCEPT !.flag = b] EXCEPT !.at = "insert"])
        /\ [r EXCEPT !.flag = b].user = r.user /\ [r EXCEPT !.flag = b].code = r.code
    BY <1>2 DEF Request, Knows
  <2> QED
    BY <1>1, <1>2, <2>1, <2>2, GoesOn
<1>4. CASE CountBoxes(h)
  <2>1. r.at = "boxes" /\ r.user \in Users
    BY <1>2, <1>4 DEF CountBoxes, At, Knows
  <2>2. CASE Goes(h, r, "issue")
    <3>1. [r EXCEPT !.at = "issue"] \in Request /\ Knows([r EXCEPT !.at = "issue"])
      BY <1>2, <2>1 DEF Request, Knows
    <3> QED
      BY <1>1, <1>2, <2>2, <3>1, GoesOn
  <2>3. ASSUME NEW n \in Nat, Goes(h, [r EXCEPT !.from = n], "fill") PROVE AccountsInv'
    <3>1. /\ [r EXCEPT !.from = n] \in Request
          /\ [[r EXCEPT !.from = n] EXCEPT !.at = "fill"] \in Request
          /\ Knows([[r EXCEPT !.from = n] EXCEPT !.at = "fill"])
          /\ [r EXCEPT !.from = n].user = r.user /\ [r EXCEPT !.from = n].code = r.code
      BY <1>2, <2>1 DEF Request, Knows
    <3> QED
      BY <1>1, <1>2, <2>3, <3>1, GoesOn
  <2> QED
    BY <1>4, <2>2, <2>3, BoxesCounted DEF CountBoxes, BoxNumber
<1>5. CASE NewestCode(h)
  <2>1. ASSUME NEW c \in CodesMade, Goes(h, [r EXCEPT !.op = "pair", !.code = c], "find")
        PROVE  AccountsInv'
    <3> DEFINE q == [r EXCEPT !.op = "pair", !.code = c]
    <3>1. c \in Codes /\ c <= lastCode
      BY DEF CodesMade, AccountsInv, IdsGiven
    <3>2. /\ q \in Request /\ [q EXCEPT !.at = "find"] \in Request
          /\ Knows([q EXCEPT !.at = "find"]) /\ q.user = r.user /\ q.code = c
      BY <1>2, <3>1 DEF Request, Knows, Ops
    <3> QED
      BY <1>1, <1>2, <2>1, <3>1, <3>2, GoesOn
  <2>2. CASE Goes(h, r, "count")
    <3>1. [r EXCEPT !.at = "count"] \in Request /\ Knows([r EXCEPT !.at = "count"])
      BY <1>2 DEF Request, Knows
    <3> QED
      BY <1>1, <1>2, <2>2, <3>1, GoesOn
  <2> QED
    BY <1>5, <2>1, <2>2 DEF NewestCode
<1>12. CASE CountUsers(h)
  <2>1. [r EXCEPT !.at = "single"] \in Request /\ Knows([r EXCEPT !.at = "single"])
    BY <1>2 DEF Request, Knows
  <2> QED
    BY <1>1, <1>2, <1>12, <2>1, GoesOn DEF CountUsers
<1>6. ASSUME NEW u \in Users, u <= lastUser, Goes(h, [r EXCEPT !.user = u], "issue")
      PROVE  AccountsInv'
  <2>1. /\ [r EXCEPT !.user = u] \in Request
        /\ [[r EXCEPT !.user = u] EXCEPT !.at = "issue"] \in Request
        /\ Knows([[r EXCEPT !.user = u] EXCEPT !.at = "issue"])
        /\ [r EXCEPT !.user = u].user = u /\ [r EXCEPT !.user = u].code = r.code
    BY <1>2 DEF Request, Knows
  <2> QED
    BY <1>1, <1>2, <1>6, <2>1, GoesOn
<1>7. CASE OnlyUser(h)
  BY <1>6, <1>7 DEF OnlyUser, Registered, AccountsInv, IdsGiven
<1>8. CASE FindCode(h)
  BY <1>6, <1>8, CodeOwner DEF FindCode
<1>9. ASSUME NEW place \in {"save", "lastAdmin", "codes"}, r.user \in Users, Goes(h, r, place)
      PROVE  AccountsInv'
  <2>1. [r EXCEPT !.at = place] \in Request /\ Knows([r EXCEPT !.at = place])
    BY <1>2, <1>9 DEF Request, Knows
  <2> QED
    BY <1>1, <1>2, <1>9, <2>1, GoesOn
<1>10. CASE SelectCodes(h)
  <2> DEFINE q == [r EXCEPT !.codes = {c \in CodesMade : codes[c].user = r.user}]
  <2>1. r.user \in Users
    BY <1>2, <1>10 DEF SelectCodes, At, Knows
  <2>2. /\ q \in Request /\ [q EXCEPT !.at = "devices"] \in Request
        /\ Knows([q EXCEPT !.at = "devices"]) /\ q.user = r.user /\ q.code = r.code
    BY <1>2, <2>1 DEF Request, Knows, CodesMade
  <2>3. Goes(h, q, "devices")
    BY <1>10 DEF SelectCodes
  <2> QED
    BY <1>1, <1>2, <2>2, <2>3, GoesOn
<1>13. CASE SelectDevices(h)
  <2> DEFINE q == [r EXCEPT !.devices = {d \in Devices : devices[d] = r.user}]
  <2>1. r.user \in Users
    BY <1>2, <1>13 DEF SelectDevices, At, Knows
  <2>2. /\ q \in Request /\ [q EXCEPT !.at = "save"] \in Request
        /\ Knows([q EXCEPT !.at = "save"]) /\ q.user = r.user /\ q.code = r.code
    BY <1>2, <2>1 DEF Request, Knows
  <2>3. Goes(h, q, "save")
    BY <1>13 DEF SelectDevices
  <2> QED
    BY <1>1, <1>2, <2>2, <2>3, GoesOn
<1>11. CASE LoadUser(h) \/ NotLastAdmin(h)
  <2>1. r.user \in Users
    BY <1>2, <1>11 DEF LoadUser, NotLastAdmin, At, Knows
  <2> QED
    BY <1>9, <1>11, <2>1 DEF LoadUser, NotLastAdmin
<1> QED
  BY <1>3, <1>4, <1>5, <1>7, <1>8, <1>10, <1>11, <1>12, <1>13

\* What is left to show of a step of a handler that changes the tables.
TablesOK ==
    /\ users \in [Users -> User \cup {None}]
    /\ codes \in [Codes -> PairingCode \cup {None}]
    /\ devices \in [Devices -> Users \cup {None}]
    /\ lastUser \in 0..MaxUsers /\ lastCode \in 0..MaxCodes
    /\ boxCount \in BoxCounts
    /\ pairedBy \in [Consoles -> Codes \cup {None}]
    /\ \A u \in Registered : u <= lastUser /\ IsFiniteSet(users[u].boxes)
    /\ \A c \in CodesMade : c <= lastCode /\ codes[c].user <= lastUser
    /\ \A k \in Consoles : pairedBy[k] # None => pairedBy[k] <= lastCode

LEMMA TableStep ==
    ASSUME AccountsInv, NEW h \in Handlers, NEW r \in Request \cup {None}, TablesOK',
           reqs' = [reqs EXCEPT ![h] = r], r # None => Knows(r),
           r # None => /\ r.user # None => r.user <= lastUser'
                       /\ r.code # None => r.code <= lastCode',
           lastUser <= lastUser', lastCode <= lastCode'
    PROVE  AccountsInv'
<1>1. /\ reqs' \in [Handlers -> Request \cup {None}]
      /\ \A k \in Running' : /\ Knows(reqs'[k])
                             /\ reqs'[k].user # None => reqs'[k].user <= lastUser'
                             /\ reqs'[k].code # None => reqs'[k].code <= lastCode'
  <2>1. lastUser' \in 0..MaxUsers /\ lastCode' \in 0..MaxCodes
    BY DEF TablesOK
  <2> QED
    BY <2>1, OneHandler
<1> QED
  BY <1>1 DEF TablesOK, AccountsInv, AccountsTypeOK, IdsGiven

LEMMA TablesAre == ASSUME AccountsInv PROVE TablesOK
BY DEF AccountsInv, AccountsTypeOK, IdsGiven, TablesOK

\* The ids do not go back when they stay.
LEMMA SameIds ==
    ASSUME AccountsInv, UNCHANGED <<lastUser, lastCode>>
    PROVE  lastUser <= lastUser' /\ lastCode <= lastCode'
BY BoundsAssumption DEF AccountsInv, AccountsTypeOK

\* A handler ends, and the ids stay.
LEMMA EndStep ==
    ASSUME AccountsInv, NEW h \in Handlers, TablesOK', Ends(h), UNCHANGED <<lastUser, lastCode>>
    PROVE  AccountsInv'
BY SameIds, TableStep DEF Ends

LEMMA UserTableInv ==
    ASSUME AccountsInv, NEW h \in Handlers,
           InsertUser(h) \/ FillBoxes(h) \/ SaveAdmin(h) \/ DeleteUser(h)
    PROVE  AccountsInv'
<1> DEFINE r == reqs[h]
<1>1. h \in Running /\ TablesOK
  BY TablesAre DEF InsertUser, FillBoxes, SaveAdmin, DeleteUser, At
<1>2. /\ r \in Request /\ Knows(r)
      /\ r.user # None => r.user <= lastUser /\ r.user \in Users
      /\ r.code # None => r.code <= lastCode
  BY <1>1, RequestFields
<1>3. CASE InsertUser(h)
  <2> DEFINE u == lastUser + 1
             p == [r EXCEPT !.op = "login", !.user = u, !.flag = FALSE]
             q == [p EXCEPT !.at = "boxes"]
  <2>1. u \in Users /\ lastUser' = u /\ users' = [users EXCEPT ![u] = [admin |-> r.flag, boxes |-> {}]]
    BY <1>3 DEF InsertUser
  <2>2. reqs' = [reqs EXCEPT ![h] = q]
    BY <1>3 DEF InsertUser, Goes
  <2>3. lastUser \in Nat /\ lastCode \in Nat /\ lastCode' = lastCode
    BY <1>1, <1>3, BoundsAssumption DEF TablesOK, InsertUser
  <2>4. q \in Request /\ Knows(q) /\ q.user = u /\ q.code = r.code
    BY <1>2, <2>1 DEF Request, Knows, Ops
  <2>5. TablesOK'
    <3>1. [admin |-> r.flag, boxes |-> {}] \in User /\ IsFiniteSet({})
      BY <1>2, FS_EmptySet DEF Request, User
    <3>2. lastUser' \in 0..MaxUsers /\ lastUser < lastUser'
      BY <2>1, <2>3, BoundsAssumption DEF Users
    <3>3. users' \in [Users -> User \cup {None}]
      BY <1>1, <2>1, <3>1 DEF TablesOK
    <3>4. \A x \in Registered' : x <= lastUser' /\ IsFiniteSet(users'[x].boxes)
      <4> TAKE x \in Registered'
      <4>1. CASE x = u
        BY <1>1, <2>1, <2>3, <3>1, <4>1 DEF TablesOK
      <4>2. CASE x # u
        <5>1. x \in Registered /\ users'[x] = users[x] /\ x \in Nat
          BY <1>1, <2>1, <4>2 DEF TablesOK, Registered, Users
        <5> QED
          BY <1>1, <2>3, <3>2, <5>1 DEF TablesOK
      <4> QED
        BY <4>1, <4>2
    <3>5. UNCHANGED <<codes, devices, lastCode, boxCount, pairedBy>>
      BY <1>3 DEF InsertUser
    <3>6. \A c \in CodesMade' : c <= lastCode' /\ codes'[c].user <= lastUser'
      BY <1>1, <2>3, <3>2, <3>5, CodeOwner DEF TablesOK, CodesMade, Users
    <3> QED
      BY <1>1, <3>2, <3>3, <3>4, <3>5, <3>6 DEF TablesOK
  <2>6. lastUser <= lastUser' /\ lastCode <= lastCode' /\ q.user <= lastUser'
    BY <2>1, <2>3, <2>4
  <2> QED
    <3> HIDE DEF q
    <3> QED
      BY <1>2, <2>2, <2>3, <2>4, <2>5, <2>6, TableStep
<1>4. CASE FillBoxes(h)
  <2> DEFINE u == r.user
             new == r.from..(boxCount - 1)
             q == [[r EXCEPT !.from = 0] EXCEPT !.at = "issue"]
  <2>1. /\ u \in Registered /\ users' = [users EXCEPT ![u].boxes = @ \cup new]
        /\ reqs' = [reqs EXCEPT ![h] = q]
        /\ UNCHANGED <<codes, devices, lastUser, lastCode, boxCount, pairedBy>>
    BY <1>4 DEF FillBoxes, Missing, Goes
  <2>2. u \in Users /\ users[u] \in User /\ r.from \in Nat /\ boxCount \in Nat
    BY <1>1, <1>2, <2>1, BoxCountsAssumption DEF TablesOK, Registered, Request
  <2>3. new \in SUBSET Nat /\ IsFiniteSet(new)
    BY <2>2, FS_Interval
  <2>4. q \in Request /\ Knows(q) /\ q.user = r.user /\ q.code = r.code
    BY <1>2, <2>2 DEF Request, Knows
  <2>5. TablesOK'
    <3>1. users'[u] \in User /\ users'[u].boxes = users[u].boxes \cup new
      BY <1>1, <2>1, <2>2, <2>3 DEF User, TablesOK
    <3>2. IsFiniteSet(users'[u].boxes)
      <4>1. IsFiniteSet(users[u].boxes)
        BY <1>1, <2>1 DEF TablesOK
      <4> HIDE DEF new
      <4>2. IsFiniteSet(users[u].boxes \cup new)
        BY <2>3, <4>1, FS_Union
      <4> QED
        BY <3>1, <4>2
    <3>3. \A x \in Users \ {u} : users'[x] = users[x]
      BY <1>1, <2>1 DEF TablesOK
    <3>4. users' \in [Users -> User \cup {None}]
      BY <1>1, <2>1, <2>2, <3>1, <3>3 DEF TablesOK
    <3>5. Registered' = Registered
      BY <2>1, <2>2, <3>1, <3>3, NoneAssumption DEF Registered
    <3> QED
      BY <1>1, <2>1, <3>2, <3>3, <3>4, <3>5 DEF TablesOK, Registered, CodesMade
  <2> QED
    <3> HIDE DEF q
    <3> QED
      BY <1>2, <2>1, <2>4, <2>5, SameIds, TableStep
<1>5. CASE SaveAdmin(h)
  <2>1. /\ r.user \in Registered /\ users' = [users EXCEPT ![r.user].admin = r.flag] /\ Ends(h)
        /\ UNCHANGED <<codes, devices, lastUser, lastCode, boxCount, pairedBy>>
    BY <1>5 DEF SaveAdmin
  <2>2. r.user \in Users /\ users[r.user] \in User /\ r.flag \in BOOLEAN
    BY <1>1, <1>2, <2>1 DEF TablesOK, Registered, Request
  <2>3. users'[r.user] \in User /\ users'[r.user].boxes = users[r.user].boxes
    BY <1>1, <2>1, <2>2 DEF User, TablesOK
  <2>4. \A x \in Users \ {r.user} : users'[x] = users[x]
    BY <1>1, <2>1 DEF TablesOK
  <2>5. users' \in [Users -> User \cup {None}]
    BY <1>1, <2>1, <2>2, <2>3, <2>4 DEF TablesOK
  <2>6. Registered' = Registered
    BY <2>1, <2>2, <2>3, <2>4, NoneAssumption DEF Registered
  <2>7. TablesOK'
    BY <1>1, <2>1, <2>3, <2>4, <2>5, <2>6 DEF TablesOK, Registered, CodesMade
  <2> QED
    BY <2>1, <2>7, EndStep
<1>6. CASE DeleteUser(h)
  <2> DEFINE u == r.user
  <2>1. /\ u \in Registered /\ users' = [users EXCEPT ![u] = None]
        /\ codes' = Cleaned({c \in CodesMade : codes[c].user = u})
        /\ devices' = [d \in Devices |-> IF devices[d] = u THEN None ELSE devices[d]]
        /\ Ends(h) /\ UNCHANGED <<lastUser, lastCode, boxCount, pairedBy>>
    BY <1>6 DEF DeleteUser
  <2>2. TablesOK'
    BY <1>1, <2>1 DEF TablesOK, Registered, CodesMade, Cleaned
  <2> QED
    BY <2>1, <2>2, EndStep
<1> QED
  BY <1>3, <1>4, <1>5, <1>6

LEMMA TokenTableInv ==
    ASSUME AccountsInv, NEW h \in Handlers,
           \/ \E d \in Devices : InsertDevice(h, d)
           \/ MakeCode(h) \/ SpendCode(h)
    PROVE  AccountsInv'
<1> DEFINE r == reqs[h]
<1>1. h \in Running /\ TablesOK
  BY TablesAre DEF InsertDevice, MakeCode, SpendCode, At
<1>2. /\ r \in Request /\ Knows(r)
      /\ r.user # None => r.user <= lastUser /\ r.user \in Users
      /\ r.code \in Codes \cup {None}
      /\ r.code # None => r.code <= lastCode
  BY <1>1, RequestFields
<1>3. ASSUME pairedBy' = pairedBy \/ \E k \in Consoles : pairedBy' = [pairedBy EXCEPT ![k] = r.code],
             UNCHANGED lastCode
      PROVE  /\ pairedBy' \in [Consoles -> Codes \cup {None}]
             /\ \A k \in Consoles : pairedBy'[k] # None => pairedBy'[k] <= lastCode'
  <2>1. CASE pairedBy' = pairedBy
    BY <1>1, <1>3, <2>1 DEF TablesOK
  <2>2. ASSUME NEW k \in Consoles, pairedBy' = [pairedBy EXCEPT ![k] = r.code]
        PROVE  /\ pairedBy' \in [Consoles -> Codes \cup {None}]
               /\ \A x \in Consoles : pairedBy'[x] # None => pairedBy'[x] <= lastCode'
    <3> HIDE DEF r
    <3> QED
      BY <1>1, <1>2, <1>3, <2>2 DEF TablesOK
  <2> QED
    BY <1>3, <2>1, <2>2
<1>4. ASSUME NEW d \in Devices, InsertDevice(h, d) PROVE AccountsInv'
  <2>1. /\ r.user \in Registered /\ devices' = [devices EXCEPT ![d] = r.user]
        /\ UNCHANGED <<users, codes, lastUser, lastCode, boxCount>>
    BY <1>4 DEF InsertDevice
  <2>2. pairedBy' = pairedBy \/ \E k \in Consoles : pairedBy' = [pairedBy EXCEPT ![k] = r.code]
    BY <1>4 DEF InsertDevice, Answers
  <2>3. TablesOK'
    BY <1>1, <1>3, <2>1, <2>2 DEF TablesOK, Registered, CodesMade
  <2>4. CASE r.code = None
    BY <1>4, <2>1, <2>3, <2>4, EndStep DEF InsertDevice, Answers
  <2>5. CASE r.code # None
    <3> DEFINE q == [[r EXCEPT !.dev = d, !.user = None] EXCEPT !.at = "spend"]
    <3>1. reqs' = [reqs EXCEPT ![h] = q]
      BY <1>4, <2>5 DEF InsertDevice, Goes
    <3>2. q \in Request /\ Knows(q) /\ q.user = None /\ q.code = r.code
      BY <1>2, <2>5 DEF Request, Knows
    <3>3. lastUser <= lastUser' /\ lastCode <= lastCode' /\ (q.code # None => q.code <= lastCode')
      BY <1>2, <2>1, <3>2, SameIds
    <3> HIDE DEF q, r
    <3> QED
      BY <2>3, <3>1, <3>2, <3>3, TableStep
  <2> QED
    BY <2>4, <2>5
<1>5. CASE MakeCode(h)
  <2> DEFINE c == lastCode + 1
             p == [user |-> r.user, live |-> TRUE]
  <2>1. /\ r.user \in Registered /\ c \in Codes /\ lastCode' = c /\ Ends(h)
        /\ codes' = [Cleaned(r.codes) EXCEPT ![c] = p]
        /\ UNCHANGED <<users, devices, lastUser, boxCount, pairedBy>>
    BY <1>5 DEF MakeCode
  <2>2. lastCode \in Nat /\ lastUser \in Nat
    BY <1>1, BoundsAssumption DEF TablesOK
  <2>3. p \in PairingCode /\ p.user = r.user /\ r.user <= lastUser
    BY <1>1, <2>1 DEF PairingCode, TablesOK, Registered
  <2>4. \A x \in Codes : codes'[x] = IF x = c THEN p ELSE IF x \in r.codes THEN None ELSE codes[x]
    BY <2>1 DEF Cleaned
  <2>5. codes' \in [Codes -> PairingCode \cup {None}]
    BY <1>1, <2>1, <2>3, <2>4 DEF TablesOK, Cleaned
  <2>6. \A x \in CodesMade' : x <= lastCode' /\ codes'[x].user <= lastUser'
    <3> TAKE x \in CodesMade'
    <3>1. CASE x = c
      BY <3>1, <2>4, <2>1, <2>2, <2>3
    <3>2. CASE x # c
      <4>1. x \in CodesMade /\ codes'[x] = codes[x]
        BY <2>4, <3>2 DEF CodesMade
      <4>2. x <= lastCode /\ codes[x].user <= lastUser /\ x \in Nat
        BY <1>1, <4>1 DEF TablesOK, CodesMade, Codes
      <4> QED
        BY <2>1, <2>2, <4>1, <4>2
    <3> QED
      BY <3>1, <3>2
  <2>7. \A k \in Consoles : pairedBy'[k] # None => pairedBy'[k] <= lastCode'
    <3> TAKE k \in Consoles
    <3>1. pairedBy[k] # None => pairedBy[k] <= lastCode /\ pairedBy[k] \in Nat
      BY <1>1 DEF TablesOK, Codes
    <3> QED
      BY <2>1, <2>2, <3>1
  <2>8. lastCode' \in 0..MaxCodes /\ lastCode <= lastCode' /\ lastUser <= lastUser'
    BY <2>1, <2>2, BoundsAssumption DEF Codes
  <2>9. TablesOK'
    BY <1>1, <2>1, <2>5, <2>6, <2>7, <2>8 DEF TablesOK, Registered
  <2> QED
    BY <2>1, <2>8, <2>9, TableStep DEF Ends
<1>6. CASE SpendCode(h)
  <2>1. /\ codes' = [codes EXCEPT ![r.code] = None] /\ Ends(h)
        /\ pairedBy' = pairedBy \/ \E k \in Consoles : pairedBy' = [pairedBy EXCEPT ![k] = r.code]
        /\ UNCHANGED <<users, devices, lastUser, lastCode, boxCount>>
    BY <1>6 DEF SpendCode, Answers
  <2>2. TablesOK'
    BY <1>1, <1>3, <2>1 DEF TablesOK, Registered, CodesMade
  <2> QED
    BY <2>1, <2>2, EndStep
<1> QED
  BY <1>4, <1>5, <1>6

LEMMA RestInv ==
    ASSUME AccountsInv,
           \/ \E c \in Codes : Expire(c)
           \/ Sweep
           \/ \E d \in Devices : RevokeDevice(d)
           \/ Restart
           \/ UNCHANGED accountVars
    PROVE  AccountsInv'
<1>1. ASSUME TablesOK', reqs' = reqs, UNCHANGED <<lastUser, lastCode>> PROVE AccountsInv'
  BY <1>1 DEF TablesOK, AccountsInv, AccountsTypeOK, IdsGiven, Running
<1>2. TablesOK
  BY TablesAre
<1>3. ASSUME NEW c \in Codes, Expire(c) PROVE AccountsInv'
  <2>1. codes[c] \in PairingCode /\ codes' = [codes EXCEPT ![c].live = FALSE]
    BY <1>2, <1>3 DEF Expire, CodesMade, TablesOK
  <2>2. codes'[c] \in PairingCode /\ codes'[c].user = codes[c].user
    BY <1>2, <2>1 DEF PairingCode, TablesOK
  <2>3. \A x \in Codes \ {c} : codes'[x] = codes[x]
    BY <1>2, <2>1 DEF TablesOK
  <2>4. codes' \in [Codes -> PairingCode \cup {None}]
    BY <1>2, <2>1, <2>2, <2>3 DEF TablesOK
  <2>5. CodesMade' = CodesMade
    BY <2>1, <2>2, <2>3, NoneAssumption DEF CodesMade
  <2>6. TablesOK'
    BY <1>2, <1>3, <2>2, <2>3, <2>4, <2>5 DEF Expire, TablesOK, Registered, CodesMade
  <2> QED
    BY <1>1, <1>3, <2>6 DEF Expire
<1>4. CASE Sweep
  <2>1. TablesOK'
    BY <1>2, <1>4 DEF Sweep, Cleaned, TablesOK, Registered, CodesMade
  <2> QED
    BY <1>1, <1>4, <2>1 DEF Sweep
<1>5. ASSUME NEW d \in Devices, RevokeDevice(d) PROVE AccountsInv'
  <2>1. TablesOK'
    BY <1>2, <1>5 DEF RevokeDevice, TablesOK, Registered, CodesMade
  <2> QED
    BY <1>1, <1>5, <2>1 DEF RevokeDevice
<1>6. CASE Restart
  <2>1. PICK seeded \in SUBSET Registered :
          users' = [u \in Users |-> IF u \in seeded THEN [users[u] EXCEPT !.admin = TRUE] ELSE users[u]]
    BY <1>6 DEF Restart, SeedAdmins, Admins
  <2>2. \A u \in Registered : /\ users'[u] \in User
                              /\ users'[u].boxes = users[u].boxes
    BY <1>2, <2>1 DEF TablesOK, Registered, User
  <2>3. \A u \in Users : u \notin Registered => users'[u] = None
    BY <2>1 DEF Registered
  <2>4. users' \in [Users -> User \cup {None}] /\ Registered' = Registered
    BY <2>1, <2>2, <2>3, NoneAssumption DEF Registered
  <2>5. /\ reqs' = [h \in Handlers |-> None] /\ boxCount' \in BoxCounts
        /\ UNCHANGED <<codes, devices, lastUser, lastCode, pairedBy>>
    BY <1>6 DEF Restart
  <2>6. TablesOK'
    BY <1>2, <2>2, <2>4, <2>5 DEF TablesOK, CodesMade, Registered
  <2> QED
    BY <2>5, <2>6 DEF TablesOK, AccountsInv, AccountsTypeOK, IdsGiven, Running
<1>7. CASE UNCHANGED accountVars
  <2>1. TablesOK' /\ reqs' = reqs /\ UNCHANGED <<lastUser, lastCode>>
    BY <1>2, <1>7 DEF accountVars, state, tables, TablesOK, Registered, CodesMade
  <2> QED
    BY <1>1, <2>1
<1> QED
  BY <1>3, <1>4, <1>5, <1>6, <1>7

LEMMA StepInv == ASSUME AccountsInv, [AccountsNext]_accountVars PROVE AccountsInv'
<1>1. ASSUME NEW h \in Handlers, RunHandler(h) PROVE AccountsInv'
  BY <1>1, LocalInv, UserTableInv, TokenTableInv, StopInv DEF RunHandler
<1> QED
  BY <1>1, BeginInv, RestInv DEF AccountsNext

THEOREM AccountsInvariant == AccountsSpec => []AccountsInv
<1> QED
  BY InitInv, StepInv, PTL DEF AccountsSpec

\* The tables, the handlers and the consoles stay within their types.
THEOREM AccountsTypeCorrect == AccountsSpec => []AccountsTypeOK
<1>1. AccountsInv => AccountsTypeOK
  BY DEF AccountsInv
<1> QED
  BY <1>1, AccountsInvariant, PTL

--------------------------------------------------------------------------------
(* Pairing codes. *)

\* The account and the token a handler holds are those of the code it came with, as
\* long as that code is there.
Bound(r) ==
    /\ r.code # None => r.at \in {"find", "issue", "spend"}
    /\ r.code \in CodesMade => /\ r.at = "issue" => codes[r.code].user = r.user
                               /\ r.at = "spend" => devices[r.dev] \in {codes[r.code].user, None}

CodesInv ==
    /\ \A h \in Running : Bound(reqs[h])
    /\ CodePairsOne

\* A code that is made gets a new id and otherwise keeps its account; a device row
\* changes only if it is new, or goes.
LEMMA CodeFrame ==
    ASSUME AccountsInv, [AccountsNext]_accountVars
    PROVE  /\ \A c \in CodesMade' : c > lastCode \/ (c \in CodesMade /\ codes'[c].user = codes[c].user)
           /\ \A d \in Devices : devices'[d] \in {devices[d], None} \/ IsNewDevice(d)
<1> DEFINE Codes1 == \A c \in CodesMade' :
                       c > lastCode \/ (c \in CodesMade /\ codes'[c].user = codes[c].user)
           Devices1 == \A d \in Devices : devices'[d] \in {devices[d], None} \/ IsNewDevice(d)
<1>0. TablesOK
  BY TablesAre
<1>1. ASSUME UNCHANGED codes PROVE Codes1
  BY <1>1 DEF CodesMade
<1>2. ASSUME UNCHANGED devices PROVE Devices1
  BY <1>2
<1>3. ASSUME NEW drop, codes' = Cleaned(drop) PROVE Codes1
  BY <1>3, NoneAssumption DEF Cleaned, CodesMade
<1>4. ASSUME NEW h \in Handlers, BeginSome(h) PROVE Codes1 /\ Devices1
  BY <1>1, <1>2, <1>3, <1>4 DEF BeginSome, BeginRegister, BeginEnroll, BeginLogin, BeginCreate,
       BeginPair, BeginDelete, BeginSetAdmin, state, tables
<1>5. ASSUME NEW h \in Handlers, RunHandler(h) PROVE Codes1 /\ Devices1
  <2>1. CASE UNCHANGED <<codes, devices>>
    BY <1>1, <1>2, <2>1
  <2>2. CASE \E d \in Devices : InsertDevice(h, d)
    BY <1>0, <1>1, <2>2 DEF InsertDevice, TablesOK
  <2>3. CASE MakeCode(h)
    <3>1. /\ codes' = [Cleaned(reqs[h].codes) EXCEPT ![lastCode + 1] = [user |-> reqs[h].user, live |-> TRUE]]
          /\ UNCHANGED devices /\ lastCode \in Nat
      BY <1>0, <2>3, BoundsAssumption DEF MakeCode, TablesOK
    <3>2. \A c \in CodesMade' : c # lastCode + 1 => c \in CodesMade /\ codes'[c] = codes[c]
      BY <3>1 DEF Cleaned, CodesMade
    <3> QED
      BY <1>2, <3>1, <3>2
  <2>4. CASE SpendCode(h)
    BY <1>0, <1>2, <2>4 DEF SpendCode, TablesOK, CodesMade
  <2>5. CASE DeleteUser(h)
    <3>1. Codes1
      BY <1>3, <2>5 DEF DeleteUser
    <3>2. Devices1
      BY <2>5 DEF DeleteUser
    <3> QED
      BY <3>1, <3>2
  <2> QED
    BY <1>5, <2>4, <2>5, <2>1, <2>2, <2>3
       DEF RunHandler, ReadAdmins, InsertUser, CountBoxes, FillBoxes, NewestCode,
           CountUsers, OnlyUser,
           FindCode, LoadUser, NotLastAdmin, SelectCodes, SelectDevices, SaveAdmin, Stop,
           state, tables
<1>6. ASSUME NEW c \in Codes, Expire(c) PROVE Codes1 /\ Devices1
  <2>1. codes[c] \in PairingCode /\ codes' = [codes EXCEPT ![c].live = FALSE] /\ UNCHANGED devices
    BY <1>0, <1>6 DEF Expire, CodesMade, TablesOK
  <2>2. codes'[c].user = codes[c].user /\ c \in CodesMade
    BY <1>0, <1>6, <2>1 DEF PairingCode, TablesOK, Expire
  <2>3. \A x \in Codes \ {c} : codes'[x] = codes[x]
    BY <1>0, <2>1 DEF TablesOK
  <2> QED
    BY <1>2, <2>1, <2>2, <2>3 DEF CodesMade
<1>7. CASE Sweep
  BY <1>2, <1>3, <1>7 DEF Sweep
<1>8. ASSUME NEW d \in Devices, RevokeDevice(d) PROVE Codes1 /\ Devices1
  BY <1>0, <1>1, <1>8 DEF RevokeDevice, TablesOK
<1>9. CASE Restart
  BY <1>1, <1>2, <1>9 DEF Restart
<1>10. CASE UNCHANGED accountVars
  BY <1>1, <1>2, <1>10 DEF accountVars, state, tables
<1> QED
  BY <1>4, <1>5, <1>6, <1>7, <1>8, <1>9, <1>10 DEF AccountsNext

LEMMA OtherBound ==
    ASSUME AccountsInv, [AccountsNext]_accountVars,
           NEW h \in Running, Bound(reqs[h]), reqs'[h] = reqs[h]
    PROVE  Bound(reqs[h])'
<1> DEFINE r == reqs[h]
<1>1. /\ r.code \in Codes \cup {None} /\ r.dev \in Devices \cup {None}
      /\ r.code # None => r.code <= lastCode
      /\ r.at = "spend" => r.dev \in Devices
  BY RequestFields DEF Knows
<1>2. r.code \in CodesMade' => r.code \in CodesMade /\ codes'[r.code].user = codes[r.code].user
  <2>1. lastCode \in Nat /\ None \notin Codes
    BY BoundsAssumption, NoneAssumption DEF AccountsInv, AccountsTypeOK
  <2> HIDE DEF r
  <2>2. ASSUME r.code \in CodesMade' PROVE r.code <= lastCode /\ r.code \in Nat
    BY <1>1, <2>1, <2>2 DEF CodesMade, Codes
  <2>3. ASSUME r.code \in CodesMade' PROVE ~(r.code > lastCode)
    BY <2>1, <2>2, <2>3
  <2> QED
    BY <2>3, CodeFrame
<1>3. r.at = "spend" => devices'[r.dev] \in {devices[r.dev], None}
  BY <1>1, CodeFrame DEF IsNewDevice
<1> QED
  BY <1>2, <1>3 DEF Bound

\* A step of h leaves what the others have in their locals.
LEMMA OnlyOwn ==
    ASSUME AccountsInv, NEW h \in Handlers, BeginSome(h) \/ RunHandler(h)
    PROVE  /\ \A k \in Handlers \ {h} : reqs'[k] = reqs[k]
           /\ \A k \in Running' \ {h} : k \in Running /\ reqs'[k] = reqs[k]
<1>1. ASSUME NEW r, reqs' = [reqs EXCEPT ![h] = r]
      PROVE  /\ \A k \in Handlers \ {h} : reqs'[k] = reqs[k]
             /\ \A k \in Running' \ {h} : k \in Running /\ reqs'[k] = reqs[k]
  BY <1>1 DEF Running, AccountsInv, AccountsTypeOK
<1>2. CASE BeginSome(h)
  BY <1>1, <1>2 DEF BeginSome, BeginRegister, BeginEnroll, BeginLogin, BeginCreate, BeginPair,
                    BeginDelete, BeginSetAdmin
<1>3. CASE RunHandler(h)
  <2>1. ASSUME NEW r, NEW place, Goes(h, r, place)
        PROVE  /\ \A k \in Handlers \ {h} : reqs'[k] = reqs[k]
               /\ \A k \in Running' \ {h} : k \in Running /\ reqs'[k] = reqs[k]
    BY <1>1, <2>1 DEF Goes
  <2>2. ASSUME Ends(h)
        PROVE  /\ \A k \in Handlers \ {h} : reqs'[k] = reqs[k]
               /\ \A k \in Running' \ {h} : k \in Running /\ reqs'[k] = reqs[k]
    BY <1>1, <2>2 DEF Ends
  <2>3. CASE ReadAdmins(h) \/ InsertUser(h) \/ CountBoxes(h) \/ FillBoxes(h)
    BY <2>1, <2>3 DEF ReadAdmins, InsertUser, CountBoxes, FillBoxes
  <2>4. CASE NewestCode(h) \/ CountUsers(h) \/ OnlyUser(h) \/ FindCode(h)
    BY <2>1, <2>4 DEF NewestCode, CountUsers, OnlyUser, FindCode
  <2>7. CASE LoadUser(h) \/ NotLastAdmin(h) \/ SelectCodes(h) \/ SelectDevices(h)
    BY <2>1, <2>7 DEF LoadUser, NotLastAdmin, SelectCodes, SelectDevices
  <2>5. CASE MakeCode(h) \/ SpendCode(h) \/ SaveAdmin(h) \/ DeleteUser(h) \/ Stop(h)
    BY <2>2, <2>5 DEF MakeCode, SpendCode, SaveAdmin, DeleteUser, Stop, Answers
  <2>6. CASE \E d \in Devices : InsertDevice(h, d)
    BY <2>1, <2>2, <2>6 DEF InsertDevice, Answers
  <2> QED
    BY <1>3, <2>3, <2>4, <2>5, <2>6, <2>7 DEF RunHandler
<1> QED
  BY <1>2, <1>3

LEMMA OwnBound ==
    ASSUME AccountsInv, CodesInv, NEW h \in Handlers, BeginSome(h) \/ RunHandler(h), h \in Running'
    PROVE  Bound(reqs[h])'
<1> DEFINE r == reqs[h]
           q == reqs'[h]
<1>0. TablesOK /\ None \notin Codes /\ reqs \in [Handlers -> Request \cup {None}]
  BY TablesAre, NoneAssumption DEF AccountsInv, AccountsTypeOK
<1>1. ASSUME q.code = None PROVE Bound(reqs[h])'
  BY <1>0, <1>1 DEF Bound, CodesMade
<1>2. CASE BeginSome(h)
  <2>1. q.code = None \/ (q.at = "find" /\ q.code \in Codes)
    <3>1. CASE BeginRegister(h) \/ BeginEnroll(h)
      BY <1>0, <3>1 DEF BeginRegister, BeginEnroll, Asked
    <3>2. CASE \E u \in Users : BeginLogin(h, u) \/ BeginCreate(h, u)
      BY <1>0, <3>2 DEF BeginLogin, BeginCreate, Asked
    <3>3. CASE \E c \in Codes : BeginPair(h, c)
      BY <1>0, <3>3 DEF BeginPair, Asked
    <3>4. CASE \E actor, u \in Users : BeginDelete(h, actor, u)
      BY <1>0, <3>4 DEF BeginDelete, Asked
    <3>5. CASE \E actor, u \in Users, want \in BOOLEAN : BeginSetAdmin(h, actor, u, want)
      BY <1>0, <3>5 DEF BeginSetAdmin, Asked
    <3> QED
      BY <1>2, <3>1, <3>2, <3>3, <3>4, <3>5 DEF BeginSome
  <2> QED
    BY <1>1, <2>1 DEF Bound
<1>3. CASE RunHandler(h) /\ h \in Running
  <2>1. /\ r \in Request /\ Bound(r) /\ Knows(r)
    BY <1>3, RequestFields DEF CodesInv
  <2>2. ASSUME NEW p \in Request, NEW place, p.code = r.code, Goes(h, p, place),
               r.at \notin {"find", "issue", "spend"}
        PROVE  Bound(reqs[h])'
    <3>1. q = [p EXCEPT !.at = place] /\ q.code = p.code
      BY <1>0, <2>2 DEF Goes, Request
    <3>2. r.code = None
      BY <2>1, <2>2 DEF Bound
    <3> QED
      BY <1>1, <2>2, <3>1, <3>2
  <2>3. CASE ReadAdmins(h)
    BY <2>1, <2>2, <2>3 DEF ReadAdmins, MakesAdmin, At, Request
  <2>4. CASE InsertUser(h)
    <3>1. [r EXCEPT !.op = "login", !.user = lastUser + 1, !.flag = FALSE] \in Request
      BY <2>1, <2>4 DEF InsertUser, Request, Ops
    <3> QED
      BY <2>1, <2>2, <2>4, <3>1 DEF InsertUser, At, Request
  <2>5. CASE CountBoxes(h)
    <3>1. CASE Goes(h, r, "issue")
      BY <2>1, <2>2, <2>5, <3>1 DEF CountBoxes, At
    <3>2. ASSUME NEW n \in Nat, Goes(h, [r EXCEPT !.from = n], "fill") PROVE Bound(reqs[h])'
      <4>1. [r EXCEPT !.from = n] \in Request /\ [r EXCEPT !.from = n].code = r.code
        BY <2>1 DEF Request
      <4> QED
        BY <2>2, <2>5, <3>2, <4>1 DEF CountBoxes, At
    <3> QED
      BY <2>5, <3>1, <3>2, BoxesCounted DEF CountBoxes, BoxNumber
  <2>6. CASE FillBoxes(h)
    BY <2>1, <2>2, <2>6 DEF FillBoxes, At, Request
  <2>7. ASSUME NEW d \in Devices, InsertDevice(h, d) PROVE Bound(reqs[h])'
    <3>1. r.code # None /\ q = [[r EXCEPT !.dev = d, !.user = None] EXCEPT !.at = "spend"]
      BY <1>0, <2>7 DEF InsertDevice, Answers, Ends, Goes, Running
    <3>2. q.code = r.code /\ q.dev = d /\ q.at = "spend"
      BY <2>1, <3>1 DEF Request
    <3>3. devices'[d] = r.user /\ codes' = codes /\ r.at = "issue"
      BY <1>0, <2>7 DEF InsertDevice, TablesOK, At
    <3> QED
      BY <2>1, <3>2, <3>3 DEF Bound, CodesMade
  <2>8. CASE MakeCode(h) \/ SpendCode(h) \/ SaveAdmin(h) \/ DeleteUser(h) \/ Stop(h)
    BY <1>0, <2>8 DEF MakeCode, SpendCode, SaveAdmin, DeleteUser, Stop, Answers, Ends, Running
  <2>9. CASE NewestCode(h)
    <3>1. CASE Goes(h, r, "count")
      BY <2>1, <2>2, <2>9, <3>1 DEF NewestCode, At
    <3>2. ASSUME NEW c \in CodesMade, Goes(h, [r EXCEPT !.op = "pair", !.code = c], "find")
          PROVE  Bound(reqs[h])'
      <4>1. q.at = "find"
        BY <1>0, <2>1, <3>2 DEF Goes, Request
      <4> QED
        BY <4>1 DEF Bound
    <3> QED
      BY <2>9, <3>1, <3>2 DEF NewestCode
  <2>10. CASE OnlyUser(h)
    <3>1. PICK u \in Users : Goes(h, [r EXCEPT !.user = u], "issue")
      BY <2>10 DEF OnlyUser, Registered
    <3>2. [r EXCEPT !.user = u] \in Request /\ [r EXCEPT !.user = u].code = r.code
      BY <2>1, <3>1 DEF Request
    <3> QED
      BY <2>2, <2>10, <3>1, <3>2 DEF OnlyUser, At
  <2>11. CASE FindCode(h)
    <3>1. q = [[r EXCEPT !.user = codes[r.code].user] EXCEPT !.at = "issue"] /\ codes' = codes
      BY <1>0, <2>11 DEF FindCode, Goes, state, tables
    <3>2. q.code = r.code /\ q.user = codes[r.code].user /\ q.at = "issue"
      BY <2>1, <3>1 DEF Request
    <3> QED
      BY <3>1, <3>2 DEF Bound, CodesMade
  <2>12. CASE LoadUser(h) \/ NotLastAdmin(h) \/ CountUsers(h)
    BY <2>1, <2>2, <2>12 DEF LoadUser, NotLastAdmin, CountUsers, At
  <2>13. CASE SelectCodes(h)
    <3> DEFINE p == [r EXCEPT !.codes = {c \in CodesMade : codes[c].user = r.user}]
    <3>1. p \in Request /\ p.code = r.code
      BY <2>1 DEF Request, CodesMade
    <3> QED
      BY <2>2, <2>13, <3>1 DEF SelectCodes, At
  <2>14. CASE SelectDevices(h)
    <3> DEFINE p == [r EXCEPT !.devices = {d \in Devices : devices[d] = r.user}]
    <3>1. p \in Request /\ p.code = r.code
      BY <2>1 DEF Request
    <3> QED
      BY <2>2, <2>14, <3>1 DEF SelectDevices, At
  <2> QED
    BY <1>3, <2>3, <2>4, <2>5, <2>6, <2>7, <2>8, <2>9, <2>10, <2>11, <2>12,
       <2>13, <2>14 DEF RunHandler
<1>4. RunHandler(h) => h \in Running
  BY DEF RunHandler, ReadAdmins, InsertUser, CountBoxes, FillBoxes, InsertDevice, MakeCode,
         NewestCode, CountUsers, OnlyUser, FindCode, SpendCode, LoadUser, NotLastAdmin,
         SelectCodes, SelectDevices, SaveAdmin,
         DeleteUser, Stop, At
<1> QED
  BY <1>2, <1>3, <1>4

\* The codes that paired a console stay gone, and only a code that was there pairs one.
LEMMA PairsStep ==
    ASSUME AccountsInv, CodesInv, [AccountsNext]_accountVars
    PROVE  CodePairsOne'
<1>0. TablesOK /\ None \notin Codes
  BY TablesAre, NoneAssumption
<1>1. \A c \in Codes : c <= lastCode /\ codes[c] = None => codes'[c] = None
  <2> TAKE c \in Codes
  <2>1. lastCode \in Nat /\ c \in Nat
    BY <1>0, BoundsAssumption DEF TablesOK, Codes
  <2> QED
    BY <2>1, CodeFrame DEF CodesMade
<1>2. \A k \in Consoles : pairedBy[k] # None =>
        pairedBy[k] \in Codes /\ codes[pairedBy[k]] = None /\ codes'[pairedBy[k]] = None
  BY <1>0, <1>1 DEF TablesOK, CodesInv, CodePairsOne
<1>3. CASE UNCHANGED pairedBy
  BY <1>2, <1>3 DEF CodesInv, CodePairsOne
<1>4. ASSUME NEW h \in Running, NEW k \in Consoles, pairedBy' = [pairedBy EXCEPT ![k] = reqs[h].code],
             reqs[h].code # None =>
               reqs[h].code \in CodesMade /\ codes'[reqs[h].code] = None
      PROVE  CodePairsOne'
  <2>1. \A x \in Consoles : pairedBy'[x] = IF x = k THEN reqs[h].code ELSE pairedBy[x]
    BY <1>0, <1>4 DEF TablesOK
  <2>2. \A x \in Consoles : pairedBy[x] # None => pairedBy[x] # reqs[h].code
    BY <1>2, <1>4 DEF CodesMade
  <2> QED
    BY <1>2, <1>4, <2>1, <2>2 DEF CodesInv, CodePairsOne
<1>5. ASSUME NEW h \in Handlers, NEW d \in Devices, InsertDevice(h, d) PROVE CodePairsOne'
  BY <1>3, <1>4, <1>5 DEF InsertDevice, Answers, At
<1>6. ASSUME NEW h \in Handlers, SpendCode(h) PROVE CodePairsOne'
  <2>1. codes'[reqs[h].code] = None /\ reqs[h].code \in CodesMade /\ h \in Running
    BY <1>0, <1>6 DEF SpendCode, StillThere, TablesOK, CodesMade, At
  <2> QED
    BY <1>3, <1>4, <1>6, <2>1 DEF SpendCode, Answers
<1>7. ASSUME NEW h \in Handlers, RunHandler(h) PROVE CodePairsOne'
  BY <1>3, <1>5, <1>6, <1>7
     DEF RunHandler, ReadAdmins, InsertUser, CountBoxes, FillBoxes, NewestCode, CountUsers,
         OnlyUser, MakeCode,
         FindCode, LoadUser, NotLastAdmin, SelectCodes, SelectDevices, SaveAdmin,
         DeleteUser, Stop, state, tables
<1>8. ASSUME NEW h \in Handlers, BeginSome(h) PROVE CodePairsOne'
  BY <1>3, <1>8 DEF BeginSome, BeginRegister, BeginEnroll, BeginLogin, BeginCreate, BeginPair,
                    BeginDelete, BeginSetAdmin, state, tables
<1>9. CASE UNCHANGED accountVars
  BY <1>3, <1>9 DEF accountVars, state, tables
<1> QED
  BY <1>3, <1>7, <1>8, <1>9 DEF AccountsNext, Expire, Sweep, RevokeDevice, Restart

LEMMA CodesStep ==
    ASSUME AccountsInv, CodesInv, [AccountsNext]_accountVars
    PROVE  CodesInv'
<1>1. ASSUME NEW k \in Running' PROVE Bound(reqs[k])'
  <2>1. CASE k \in Running /\ reqs'[k] = reqs[k]
    BY <2>1, OtherBound DEF CodesInv
  <2>2. ASSUME NEW h \in Handlers, BeginSome(h) \/ RunHandler(h) PROVE Bound(reqs[k])'
    BY <1>1, <2>1, <2>2, OnlyOwn, OwnBound
  <2>3. CASE reqs' = reqs
    BY <1>1, <2>1, <2>3 DEF Running
  <2>4. ~Restart
    BY <1>1 DEF Restart, Running
  <2> QED
    BY <2>2, <2>3, <2>4 DEF AccountsNext, Expire, Sweep, RevokeDevice, accountVars
<1> QED
  BY <1>1, PairsStep DEF CodesInv

LEMMA CodesInvariant == AccountsSpec => []CodesInv
<1>1. AccountsInit => CodesInv
  BY DEF AccountsInit, CodesInv, CodePairsOne, Running
<1>2. AccountsInv /\ CodesInv /\ [AccountsNext]_accountVars => CodesInv'
  BY CodesStep
<1> QED
  BY <1>1, <1>2, AccountsInvariant, PTL DEF AccountsSpec

\* A pairing code pairs one console, and is gone by then.
THEOREM PairedByOneCode == AccountsSpec => []CodePairsOne
<1>1. CodesInv => CodePairsOne
  BY DEF CodesInv
<1> QED
  BY <1>1, CodesInvariant, PTL

\* A console is paired with the account whose code it used.
THEOREM PairedWithOwner == AccountsSpec => CodeOpensItsAccount
<1> DEFINE A == \A h \in Running : reqs[h].at = "spend" /\ codes'[reqs[h].code] = None
                  /\ codes[reqs[h].code] # None /\ reqs'[h] = None =>
                  devices[reqs[h].dev] \in {codes[reqs[h].code].user, None}
<1>1. ASSUME AccountsInv, CodesInv PROVE A
  <2> SUFFICES ASSUME NEW h \in Running, reqs[h].at = "spend", codes[reqs[h].code] # None
               PROVE  devices[reqs[h].dev] \in {codes[reqs[h].code].user, None}
    OBVIOUS
  <2>1. reqs[h].code \in CodesMade
    BY <1>1, RequestFields DEF Knows, CodesMade
  <2> QED
    BY <1>1, <2>1 DEF CodesInv, Bound
<1>2. AccountsInv /\ CodesInv => [A]_accountVars
  BY <1>1
<1> QED
  BY <1>2, AccountsInvariant, CodesInvariant, PTL DEF CodeOpensItsAccount

--------------------------------------------------------------------------------
(* Admins, when requests of admins do not overlap. *)

\* What a handler relies on when it saves, whatever it read long before.
Warrant(h, r) ==
    /\ r.at = "insert" /\ ~r.flag => Admins # {}
    /\ r.at \in {"load", "lastAdmin", "codes", "devices", "save"} => h \in AdminHandlers
    /\ r.at \in {"codes", "devices"} => \E x \in Admins : x # r.user
    /\ r.at = "save" /\ (r.op = "delete" \/ ~r.flag) => \E x \in Admins : x # r.user

AdminsInv ==
    /\ AdminRemains
    /\ \A h \in Running : Warrant(h, reqs[h])

\* Only SaveAdmin and DeleteUser make somebody an admin no longer.
LEMMA AdminsFrame ==
    ASSUME AccountsInv, [AccountsNext]_accountVars,
           \A h \in Handlers : ~SaveAdmin(h) /\ ~DeleteUser(h)
    PROVE  /\ Admins \subseteq Admins'
           /\ (\A h \in Handlers : ~InsertUser(h)) => Registered' = Registered
<1> DEFINE Stay == Admins \subseteq Admins' /\ Registered' = Registered
<1>0. TablesOK
  BY TablesAre
<1>1. ASSUME UNCHANGED users PROVE Stay
  BY <1>1 DEF Admins, Registered
<1>2. ASSUME NEW h \in Handlers, InsertUser(h) PROVE Admins \subseteq Admins'
  <2>1. lastUser + 1 \notin Registered
    BY <1>0, BoundsAssumption DEF TablesOK, Registered
  <2>2. \A x \in Registered : users'[x] = users[x]
    BY <1>0, <1>2, <2>1 DEF InsertUser, TablesOK, Registered
  <2> QED
    BY <2>2 DEF Admins, Registered
<1>3. ASSUME NEW h \in Handlers, FillBoxes(h) PROVE Stay
  <2> DEFINE u == reqs[h].user
             new == reqs[h].from..(boxCount - 1)
  <2>1. u \in Registered /\ users[u] \in User /\ users' = [users EXCEPT ![u].boxes = @ \cup new]
    BY <1>0, <1>3 DEF FillBoxes, Missing, TablesOK, Registered
  <2>2. users'[u] # None /\ users'[u].admin = users[u].admin
    <3>1. users'[u] = [users[u] EXCEPT !.boxes = @ \cup new]
      BY <1>0, <2>1 DEF TablesOK, Registered
    <3>2. reqs[h].from \in Nat /\ boxCount \in Nat
      BY <1>0, <1>3, RequestFields, BoxCountsAssumption DEF FillBoxes, At, TablesOK
    <3>3. users'[u] \in User
      BY <2>1, <3>1, <3>2 DEF User
    <3> QED
      BY <2>1, <3>1, <3>3, NoneAssumption DEF User
  <2>3. \A x \in Users \ {u} : users'[x] = users[x]
    BY <1>0, <2>1 DEF TablesOK
  <2> QED
    BY <2>1, <2>2, <2>3 DEF Admins, Registered
<1>4. CASE Restart
  <2>1. PICK seeded \in SUBSET Registered :
          users' = [u \in Users |-> IF u \in seeded THEN [users[u] EXCEPT !.admin = TRUE] ELSE users[u]]
    BY <1>4 DEF Restart, SeedAdmins, Admins
  <2>2. \A u \in Registered : users'[u] \in User /\ (users[u].admin => users'[u].admin)
    BY <1>0, <2>1 DEF TablesOK, Registered, User
  <2>3. \A u \in Users : u \notin Registered => users'[u] = None
    BY <2>1 DEF Registered
  <2> QED
    BY <2>2, <2>3, NoneAssumption DEF Admins, Registered
<1>5. ASSUME NEW h \in Handlers, RunHandler(h) PROVE Stay \/ InsertUser(h)
  BY <1>1, <1>3, <1>5
     DEF RunHandler, ReadAdmins, CountBoxes, InsertDevice, MakeCode, NewestCode,
         CountUsers, OnlyUser,
         FindCode, SpendCode, LoadUser, NotLastAdmin, SelectCodes, SelectDevices, Stop,
         state, tables
<1>6. ASSUME NEW h \in Handlers, BeginSome(h) PROVE Stay
  BY <1>1, <1>6 DEF BeginSome, BeginRegister, BeginEnroll, BeginLogin, BeginCreate, BeginPair,
                    BeginDelete, BeginSetAdmin, state, tables
<1>7. CASE UNCHANGED accountVars
  BY <1>1, <1>7 DEF accountVars, state, tables
<1> QED
  BY <1>1, <1>2, <1>4, <1>5, <1>6, <1>7 DEF AccountsNext, Expire, Sweep, RevokeDevice

\* The account that is removed, or no longer an admin, was not the only one.
LEMMA OthersRemain ==
    ASSUME AccountsInv, AdminsInv, NEW h \in Handlers, SaveAdmin(h) \/ DeleteUser(h)
    PROVE  Admins' # {}
<1> DEFINE r == reqs[h]
<1>0. TablesOK /\ h \in Running /\ r.at = "save" /\ r.flag \in BOOLEAN /\ Warrant(h, r)
  BY TablesAre, RequestFields DEF SaveAdmin, DeleteUser, At, AdminsInv
<1>1. \A x \in Users \ {r.user} : users'[x] = users[x]
  BY <1>0 DEF SaveAdmin, DeleteUser, TablesOK
<1>2. ASSUME r.op = "delete" \/ ~r.flag PROVE Admins' # {}
  <2>1. PICK x \in Admins : x # r.user
    BY <1>0, <1>2 DEF Warrant
  <2>2. x \in Admins'
    BY <1>1, <2>1 DEF Admins, Registered
  <2> QED
    BY <2>2
<1>3. CASE SaveAdmin(h) /\ r.flag
  <2>1. r.user \in Users /\ users[r.user] \in User /\ users' = [users EXCEPT ![r.user].admin = TRUE]
    BY <1>0, <1>3 DEF SaveAdmin, TablesOK, Registered
  <2>2. users'[r.user] \in User /\ users'[r.user].admin
    BY <1>0, <2>1 DEF TablesOK, User
  <2>3. r.user \in Admins'
    BY <2>1, <2>2, NoneAssumption DEF Admins, Registered
  <2> QED
    BY <2>3
<1> QED
  BY <1>0, <1>2, <1>3 DEF DeleteUser

LEMMA OwnWarrant ==
    ASSUME AccountsInv, AdminsInv, NEW h \in Handlers, BeginSome(h) \/ RunHandler(h), h \in Running'
    PROVE  Warrant(h, reqs[h])'
<1> DEFINE r == reqs[h]
           q == reqs'[h]
<1>0. TablesOK /\ reqs \in [Handlers -> Request \cup {None}]
  BY TablesAre DEF AccountsInv, AccountsTypeOK
<1>1. ASSUME q.at \notin {"insert", "load", "lastAdmin", "codes", "devices", "save"}
      PROVE  Warrant(h, reqs[h])'
  BY <1>1 DEF Warrant
<1>2. ASSUME q.at \in {"load", "lastAdmin"}, h \in AdminHandlers PROVE Warrant(h, reqs[h])'
  BY <1>2 DEF Warrant
<1>3. CASE BeginSome(h)
  <2>1. CASE BeginRegister(h) \/ BeginEnroll(h)
    BY <1>0, <1>1, <2>1 DEF BeginRegister, BeginEnroll, Asked
  <2>2. CASE \E u \in Users : BeginLogin(h, u) \/ BeginCreate(h, u)
    BY <1>0, <1>1, <2>2 DEF BeginLogin, BeginCreate, Asked
  <2>3. CASE \E c \in Codes : BeginPair(h, c)
    BY <1>0, <1>1, <2>3 DEF BeginPair, Asked
  <2>4. CASE \E actor, u \in Users : BeginDelete(h, actor, u)
    BY <1>0, <1>2, <2>4 DEF BeginDelete, Asked
  <2>5. CASE \E actor, u \in Users, want \in BOOLEAN : BeginSetAdmin(h, actor, u, want)
    BY <1>0, <1>2, <2>5 DEF BeginSetAdmin, Asked
  <2> QED
    BY <1>3, <2>4, <2>5, <2>1, <2>2, <2>3 DEF BeginSome
<1>4. CASE h \in Running
  <2>1. r \in Request /\ Warrant(h, r)
    BY <1>4, RequestFields DEF AdminsInv
  <2>2. ASSUME NEW p \in Request, NEW place, Goes(h, p, place)
        PROVE  /\ q = [p EXCEPT !.at = place] /\ q.at = place /\ q.op = p.op /\ q.flag = p.flag
               /\ q.user = p.user
    BY <1>0, <2>2 DEF Goes, Request
  <2>3. CASE ReadAdmins(h)
    <3>1. PICK b \in BOOLEAN : Goes(h, [r EXCEPT !.flag = b \/ Admins = {}], "insert")
      BY <2>3 DEF ReadAdmins, MakesAdmin
    <3> DEFINE p == [r EXCEPT !.flag = b \/ Admins = {}]
    <3>2. p \in Request /\ p.flag = (b \/ Admins = {})
      BY <2>1 DEF Request
    <3>3. q.at = "insert" /\ q.flag = (b \/ Admins = {})
      BY <2>2, <3>1, <3>2
    <3>4. users' = users
      BY <2>3 DEF ReadAdmins, state, tables
    <3> QED
      BY <3>3, <3>4 DEF Warrant, Admins, Registered
  <2>4. CASE \/ InsertUser(h) \/ CountBoxes(h) \/ FillBoxes(h) \/ NewestCode(h)
             \/ CountUsers(h) \/ OnlyUser(h) \/ FindCode(h)
    <3>1. ASSUME NEW p, NEW place \in {"boxes", "issue", "fill", "find", "count", "single"},
                 Goes(h, p, place), "at" \in DOMAIN p
          PROVE  Warrant(h, reqs[h])'
      BY <1>0, <1>1, <3>1 DEF Goes
    <3>2. /\ "at" \in DOMAIN r
          /\ \A u : "at" \in DOMAIN [r EXCEPT !.user = u]
          /\ \A u : "at" \in DOMAIN [r EXCEPT !.op = "login", !.user = u, !.flag = FALSE]
          /\ \A n : "at" \in DOMAIN [r EXCEPT !.from = n]
          /\ \A c : "at" \in DOMAIN [r EXCEPT !.op = "pair", !.code = c]
      BY <2>1 DEF Request
    <3>3. CASE InsertUser(h) \/ CountBoxes(h)
      BY <3>1, <3>2, <3>3 DEF InsertUser, CountBoxes
    <3>4. CASE FillBoxes(h)
      BY <3>1, <3>2, <3>4 DEF FillBoxes
    <3>5. CASE NewestCode(h) \/ CountUsers(h)
      BY <3>1, <3>2, <3>5 DEF NewestCode, CountUsers
    <3>6. CASE OnlyUser(h) \/ FindCode(h)
      BY <3>1, <3>2, <3>6 DEF OnlyUser, FindCode
    <3> QED
      BY <2>4, <3>3, <3>4, <3>5, <3>6
  <2>5. ASSUME NEW d \in Devices, InsertDevice(h, d) PROVE Warrant(h, reqs[h])'
    <3>1. q = [[r EXCEPT !.dev = d, !.user = None] EXCEPT !.at = "spend"]
      BY <1>0, <2>5 DEF InsertDevice, Answers, Ends, Goes, Running
    <3>2. q.at = "spend"
      BY <2>1, <3>1 DEF Request
    <3> QED
      BY <1>1, <3>2
  <2>6. CASE MakeCode(h) \/ SpendCode(h) \/ SaveAdmin(h) \/ DeleteUser(h) \/ Stop(h)
    BY <1>0, <2>6 DEF MakeCode, SpendCode, SaveAdmin, DeleteUser, Stop, Answers, Ends, Running
  <2>7. CASE LoadUser(h) \/ NotLastAdmin(h) \/ SelectCodes(h) \/ SelectDevices(h)
    <3>1. h \in AdminHandlers /\ users' = users
      BY <2>1, <2>7
         DEF LoadUser, NotLastAdmin, SelectCodes, SelectDevices, At, Warrant, state, tables
    <3>2. Admins' = Admins
      BY <3>1 DEF Admins, Registered
    <3>3. CASE Goes(h, r, "lastAdmin")
      BY <1>2, <2>1, <2>2, <3>1, <3>3
    <3>4. ASSUME NEW p \in Request, NEW place \in {"codes", "devices", "save"}, Goes(h, p, place),
                 p.op = r.op, p.flag = r.flag, p.user = r.user,
                 (place # "save" \/ r.op = "delete" \/ ~r.flag) => \E x \in Admins : x # r.user
          PROVE  Warrant(h, reqs[h])'
      <4>1. q.at = place /\ q.op = r.op /\ q.flag = r.flag /\ q.user = r.user
        BY <2>1, <2>2, <3>4
      <4> QED
        BY <3>1, <3>2, <3>4, <4>1 DEF Warrant
    <3>5. CASE SelectCodes(h) \/ SelectDevices(h)
      <4> DEFINE p1 == [r EXCEPT !.codes = {c \in CodesMade : codes[c].user = r.user}]
                 p2 == [r EXCEPT !.devices = {d \in Devices : devices[d] = r.user}]
      <4>1. \E x \in Admins : x # r.user
        BY <2>1, <3>5 DEF SelectCodes, SelectDevices, At, Warrant
      <4>2. /\ p1 \in Request /\ p1.op = r.op /\ p1.flag = r.flag /\ p1.user = r.user
            /\ p2 \in Request /\ p2.op = r.op /\ p2.flag = r.flag /\ p2.user = r.user
        BY <2>1 DEF Request, CodesMade
      <4>3. Goes(h, p1, "devices") \/ Goes(h, p2, "save")
        BY <3>5 DEF SelectCodes, SelectDevices
      <4> QED
        BY <3>4, <4>1, <4>2, <4>3
    <3>6. CASE LoadUser(h)
      <4>1. ASSUME ~users[r.user].admin PROVE \E x \in Admins : x # r.user
        BY <3>6, <4>1 DEF LoadUser, AdminsInv, AdminRemains, Admins
      <4> QED
        BY <2>1, <3>3, <3>4, <3>6, <4>1 DEF LoadUser
    <3>7. CASE NotLastAdmin(h)
      <4>1. \E x \in Admins : x # r.user
        BY <3>7 DEF NotLastAdmin
      <4> QED
        BY <2>1, <3>4, <3>7, <4>1 DEF NotLastAdmin
    <3> QED
      BY <2>7, <3>5, <3>6, <3>7
  <2> QED
    BY <1>4, <2>3, <2>4, <2>5, <2>6, <2>7, <1>3 DEF RunHandler
<1>5. RunHandler(h) => h \in Running
  BY DEF RunHandler, ReadAdmins, InsertUser, CountBoxes, FillBoxes, InsertDevice, MakeCode,
         NewestCode, CountUsers, OnlyUser, FindCode, SpendCode, LoadUser, NotLastAdmin,
         SelectCodes, SelectDevices, SaveAdmin,
         DeleteUser, Stop, At
<1> QED
  BY <1>3, <1>4, <1>5

LEMMA AdminsStep ==
    ASSUME AccountsInv, AdminsInv, [AccountsNext]_accountVars,
           \A h, k \in AdminHandlers : h = k
    PROVE  AdminsInv'
<1>0. TablesOK
  BY TablesAre
<1>1. ASSUME NEW h \in Handlers, SaveAdmin(h) \/ DeleteUser(h) PROVE AdminsInv'
  <2>2. h \in AdminHandlers /\ h \notin Running'
    BY <1>1 DEF SaveAdmin, DeleteUser, At, Ends, Running, AdminsInv, Warrant, AccountsInv, AccountsTypeOK
  <2>3. ASSUME NEW k \in Running' PROVE Warrant(k, reqs[k])'
    <3>1. k \in Running /\ reqs'[k] = reqs[k] /\ k # h
      BY <1>1, <2>2, <2>3, OnlyOwn DEF RunHandler
    <3>2. k \notin AdminHandlers
      BY <2>2, <3>1
    <3> QED
      BY <1>1, <3>1, <3>2, OthersRemain DEF AdminsInv, Warrant
  <2> QED
    BY <1>1, <2>3, OthersRemain DEF AdminsInv, AdminRemains
<1>2. ASSUME \A h \in Handlers : ~SaveAdmin(h) /\ ~DeleteUser(h) PROVE AdminsInv'
  <2>1. Admins \subseteq Admins'
    BY <1>2, AdminsFrame
  <2>2. ASSUME NEW k \in Running' PROVE Warrant(k, reqs[k])'
    <3>1. CASE k \in Running /\ reqs'[k] = reqs[k]
      BY <2>1, <3>1 DEF AdminsInv, Warrant
    <3>2. ASSUME NEW h \in Handlers, BeginSome(h) \/ RunHandler(h) PROVE Warrant(k, reqs[k])'
      BY <2>2, <3>1, <3>2, OnlyOwn, OwnWarrant
    <3>3. CASE reqs' = reqs
      BY <2>2, <3>1, <3>3 DEF Running
    <3>4. ~Restart
      BY <2>2 DEF Restart, Running
    <3> QED
      BY <3>2, <3>3, <3>4 DEF AccountsNext, Expire, Sweep, RevokeDevice, accountVars
  <2>3. AdminRemains'
    <3>1. ASSUME NEW h \in Handlers, InsertUser(h) PROVE Admins' # {}
      <4> DEFINE u == lastUser + 1
      <4>1. /\ users' = [users EXCEPT ![u] = [admin |-> reqs[h].flag, boxes |-> {}]]
            /\ u \in Users /\ h \in Running /\ reqs[h].at = "insert" /\ reqs[h].flag \in BOOLEAN
        BY <3>1, RequestFields DEF InsertUser, At
      <4>2. CASE reqs[h].flag
        <5>1. [admin |-> TRUE, boxes |-> {}] \in User
          BY DEF User
        <5>2. users'[u] \in User /\ users'[u].admin
          BY <1>0, <4>1, <4>2, <5>1 DEF TablesOK
        <5>3. u \in Admins'
          BY <4>1, <5>2, NoneAssumption DEF Admins, Registered
        <5> QED
          BY <5>3
      <4>3. CASE ~reqs[h].flag
        BY <2>1, <4>1, <4>3 DEF AdminsInv, Warrant
      <4> QED
        BY <4>1, <4>2, <4>3
    <3>2. CASE \A h \in Handlers : ~InsertUser(h)
      BY <1>2, <2>1, <3>2, AdminsFrame DEF AdminsInv, AdminRemains
    <3> QED
      BY <3>1, <3>2 DEF AdminRemains
  <2> QED
    BY <2>2, <2>3 DEF AdminsInv
<1> QED
  BY <1>1, <1>2

\* As long as no two requests of admins overlap, an account that is there has an admin
\* to see to it, however registrations and restarts interleave.
THEOREM AdminStays ==
    ASSUME \A h, k \in AdminHandlers : h = k
    PROVE  AccountsSpec => []AdminRemains
<1>1. AccountsInit => AdminsInv
  BY DEF AccountsInit, AdminsInv, AdminRemains, Registered, Running
<1>2. AccountsInv /\ AdminsInv /\ [AccountsNext]_accountVars => AdminsInv'
  BY AdminsStep
<1>3. AdminsInv => AdminRemains
  BY DEF AdminsInv
<1> QED
  BY <1>1, <1>2, <1>3, AccountsInvariant, PTL DEF AccountsSpec

--------------------------------------------------------------------------------
(* Boxes. *)

\* A handler that is about to fill the rest found the first boxes there, and one that
\* is about to make a token for a login found or made all of them.
BoxesSeen(r) ==
    /\ r.at \in {"find", "newest", "count", "single"} => r.op # "login"
    /\ r.at = "fill" => r.from < boxCount
    /\ r.user \in Registered =>
         /\ r.at = "fill" => 0..(r.from - 1) \subseteq users[r.user].boxes
         /\ r.at = "issue" /\ r.op = "login" => 0..(boxCount - 1) \subseteq users[r.user].boxes

BoxesInv ==
    /\ \A u \in Registered : \E n \in Nat : users[u].boxes = 0..(n - 1)
    /\ \A h \in Running : BoxesSeen(reqs[h])

\* Without a gap, the number of boxes is the first free index.
LEMMA NumberOfBoxes ==
    ASSUME NEW n \in Nat
    PROVE  Cardinality(0..(n - 1)) = n
<1>1. Cardinality(0..(n - 1)) = IF 0 > n - 1 THEN 0 ELSE (n - 1) - 0 + 1
  BY FS_Interval
<1> QED
  BY <1>1

\* Accounts that stay keep their boxes.
LEMMA BoxesFrame ==
    ASSUME AccountsInv, [AccountsNext]_accountVars
    PROVE  \A u \in Registered' :
             u > lastUser \/ (u \in Registered /\ users[u].boxes \subseteq users'[u].boxes)
<1> DEFINE Stay == \A u \in Registered' :
                     u > lastUser \/ (u \in Registered /\ users[u].boxes \subseteq users'[u].boxes)
<1>0. TablesOK
  BY TablesAre
<1>1. ASSUME UNCHANGED users PROVE Stay
  BY <1>1 DEF Registered
<1>2. ASSUME NEW h \in Handlers, InsertUser(h) PROVE Stay
  BY <1>0, <1>2, BoundsAssumption DEF InsertUser, TablesOK, Registered
<1>3. ASSUME NEW h \in Handlers, NEW new, users' = [users EXCEPT ![reqs[h].user].boxes = @ \cup new],
             reqs[h].user \in Registered
      PROVE  Stay
  <2>1. users[reqs[h].user] \in User
    BY <1>0, <1>3 DEF TablesOK, Registered
  <2>2. users'[reqs[h].user].boxes = users[reqs[h].user].boxes \cup new
    BY <1>0, <1>3, <2>1 DEF TablesOK, Registered, User
  <2>3. \A x \in Users \ {reqs[h].user} : users'[x] = users[x]
    BY <1>0, <1>3 DEF TablesOK
  <2> QED
    BY <1>3, <2>2, <2>3 DEF Registered
<1>4. ASSUME NEW h \in Handlers, FillBoxes(h) PROVE Stay
  BY <1>3, <1>4 DEF FillBoxes
<1>5. ASSUME NEW h \in Handlers, SaveAdmin(h) PROVE Stay
  <2>1. users' = [users EXCEPT ![reqs[h].user].admin = reqs[h].flag] /\ reqs[h].user \in Registered
    BY <1>5 DEF SaveAdmin
  <2>2. users[reqs[h].user] \in User
    BY <1>0, <2>1 DEF TablesOK, Registered
  <2>3. users'[reqs[h].user].boxes = users[reqs[h].user].boxes
    BY <1>0, <2>1, <2>2 DEF TablesOK, Registered, User
  <2>4. \A x \in Users \ {reqs[h].user} : users'[x] = users[x]
    BY <1>0, <2>1 DEF TablesOK
  <2> QED
    BY <2>1, <2>3, <2>4 DEF Registered
<1>6. ASSUME NEW h \in Handlers, DeleteUser(h) PROVE Stay
  BY <1>0, <1>6 DEF DeleteUser, TablesOK, Registered
<1>7. CASE Restart
  <2>1. PICK seeded \in SUBSET Registered :
          users' = [u \in Users |-> IF u \in seeded THEN [users[u] EXCEPT !.admin = TRUE] ELSE users[u]]
    BY <1>7 DEF Restart, SeedAdmins, Admins
  <2>2. \A u \in Registered : users'[u].boxes = users[u].boxes
    BY <1>0, <2>1 DEF TablesOK, Registered, User
  <2>3. \A u \in Users : u \notin Registered => users'[u] = None
    BY <2>1 DEF Registered
  <2> QED
    BY <2>2, <2>3 DEF Registered
<1>8. ASSUME NEW h \in Handlers, RunHandler(h) PROVE Stay
  BY <1>1, <1>2, <1>4, <1>5, <1>6, <1>8
     DEF RunHandler, ReadAdmins, CountBoxes, InsertDevice, MakeCode, NewestCode,
         CountUsers, OnlyUser,
         FindCode, SpendCode, LoadUser, NotLastAdmin, SelectCodes, SelectDevices, Stop,
         state, tables
<1>9. ASSUME NEW h \in Handlers, BeginSome(h) PROVE Stay
  BY <1>1, <1>9 DEF BeginSome, BeginRegister, BeginEnroll, BeginLogin, BeginCreate, BeginPair,
                    BeginDelete, BeginSetAdmin, state, tables
<1>10. CASE UNCHANGED accountVars
  BY <1>1, <1>10 DEF accountVars, state, tables
<1> QED
  BY <1>1, <1>7, <1>8, <1>9, <1>10 DEF AccountsNext, Expire, Sweep, RevokeDevice

LEMMA OtherSeen ==
    ASSUME AccountsInv, [AccountsNext]_accountVars, boxCount' = boxCount,
           NEW h \in Running, BoxesSeen(reqs[h]), reqs'[h] = reqs[h]
    PROVE  BoxesSeen(reqs[h])'
<1> DEFINE r == reqs[h]
<1>1. r.user \in Users \cup {None} /\ (r.user # None => r.user <= lastUser) /\ lastUser \in Nat
  BY RequestFields, BoundsAssumption DEF AccountsInv, AccountsTypeOK
<1>2. r.user \in Registered' => r.user \in Registered /\ users[r.user].boxes \subseteq users'[r.user].boxes
  <2> SUFFICES ASSUME r.user \in Registered' PROVE ~(r.user > lastUser)
    BY BoxesFrame
  <2>1. r.user \in Users /\ r.user # None
    BY NoneAssumption DEF Registered
  <2> HIDE DEF r
  <2> QED
    BY <1>1, <2>1 DEF Users
<1> QED
  BY <1>2 DEF BoxesSeen

\* What FillBoxes adds is what is missing.
LEMMA Filled ==
    ASSUME AccountsInv, BoxesInv, NEW h \in Handlers, FillBoxes(h)
    PROVE  users'[reqs[h].user].boxes = 0..(boxCount - 1)
<1> DEFINE r == reqs[h]
           new == r.from..(boxCount - 1)
<1>1. /\ r.from \in Nat /\ boxCount \in Nat /\ r.from < boxCount
      /\ r.user \in Registered /\ users[r.user].boxes \cap new = {}
      /\ 0..(r.from - 1) \subseteq users[r.user].boxes
  BY RequestFields, BoxCountsAssumption
     DEF FillBoxes, Missing, At, AccountsInv, AccountsTypeOK, BoxesInv, BoxesSeen
<1>2. PICK n \in Nat : users[r.user].boxes = 0..(n - 1)
  BY <1>1 DEF BoxesInv
<1>3. n = r.from
  <2> HIDE DEF r
  <2>1. n <= r.from
    <3> SUFFICES ASSUME n > r.from PROVE FALSE
      BY <1>1, <1>2
    <3>1. r.from \in 0..(n - 1) /\ r.from \in new
      BY <1>1, <1>2
    <3> QED
      BY <1>1, <1>2, <3>1
  <2>2. n >= r.from
    <3> SUFFICES ASSUME n < r.from PROVE FALSE
      BY <1>1, <1>2
    <3>1. n \in 0..(r.from - 1) /\ n \notin 0..(n - 1)
      BY <1>1, <1>2
    <3> QED
      BY <1>1, <1>2, <3>1
  <2> QED
    BY <1>1, <1>2, <2>1, <2>2
<1>4. users'[r.user].boxes = users[r.user].boxes \cup new
  <2>1. users \in [Users -> User \cup {None}] /\ users[r.user] \in User /\ r.user \in Users
    BY <1>1 DEF AccountsInv, AccountsTypeOK, Registered
  <2> QED
    BY <2>1 DEF FillBoxes, Missing, User
<1>5. 0..(n - 1) \cup new = 0..(boxCount - 1)
  <2> HIDE DEF r
  <2> QED
    BY <1>1, <1>2, <1>3
<1> HIDE DEF new
<1> QED
  BY <1>2, <1>4, <1>5

LEMMA OwnSeen ==
    ASSUME AccountsInv, BoxesInv, NEW h \in Handlers, BeginSome(h) \/ RunHandler(h), h \in Running'
    PROVE  BoxesSeen(reqs[h])'
<1> DEFINE r == reqs[h]
           q == reqs'[h]
<1>0. TablesOK /\ reqs \in [Handlers -> Request \cup {None}]
  BY TablesAre DEF AccountsInv, AccountsTypeOK
<1>1. ASSUME q.at \notin {"find", "newest", "count", "single", "fill", "issue"} PROVE BoxesSeen(reqs[h])'
  BY <1>1 DEF BoxesSeen
<1>2. ASSUME q.at # "fill", q.op # "login" PROVE BoxesSeen(reqs[h])'
  BY <1>2 DEF BoxesSeen
<1>3. CASE BeginSome(h)
  <2>1. CASE BeginRegister(h) \/ BeginEnroll(h)
    BY <1>0, <1>1, <1>2, <2>1 DEF BeginRegister, BeginEnroll, Asked
  <2>2. CASE \E u \in Users : BeginLogin(h, u) \/ BeginCreate(h, u)
    BY <1>0, <1>1, <2>2 DEF BeginLogin, BeginCreate, Asked
  <2>3. CASE \E c \in Codes : BeginPair(h, c)
    BY <1>0, <1>2, <2>3 DEF BeginPair, Asked
  <2>4. CASE \E actor, u \in Users : BeginDelete(h, actor, u)
    BY <1>0, <1>1, <2>4 DEF BeginDelete, Asked
  <2>5. CASE \E actor, u \in Users, want \in BOOLEAN : BeginSetAdmin(h, actor, u, want)
    BY <1>0, <1>1, <2>5 DEF BeginSetAdmin, Asked
  <2> QED
    BY <1>3, <2>4, <2>5, <2>1, <2>2, <2>3 DEF BeginSome
<1>4. CASE h \in Running
  <2>1. r \in Request /\ BoxesSeen(r)
    BY <1>4, RequestFields DEF BoxesInv
  <2>2. ASSUME NEW p \in Request, NEW place, Goes(h, p, place)
        PROVE  /\ q = [p EXCEPT !.at = place] /\ q.at = place /\ q.op = p.op /\ q.user = p.user
               /\ q.from = p.from
    BY <1>0, <2>2 DEF Goes, Request
  <2>3. CASE \/ ReadAdmins(h) \/ InsertUser(h) \/ LoadUser(h) \/ NotLastAdmin(h)
             \/ SelectCodes(h) \/ SelectDevices(h)
    <3>1. ASSUME NEW p, NEW place \in {"insert", "boxes", "save", "lastAdmin", "codes", "devices"},
                 Goes(h, p, place), "at" \in DOMAIN p
          PROVE  BoxesSeen(reqs[h])'
      BY <1>0, <1>1, <3>1 DEF Goes
    <3>2. /\ "at" \in DOMAIN r
          /\ \A b : "at" \in DOMAIN [r EXCEPT !.flag = b]
          /\ \A u : "at" \in DOMAIN [r EXCEPT !.op = "login", !.user = u, !.flag = FALSE]
          /\ \A c : "at" \in DOMAIN [r EXCEPT !.codes = c]
          /\ \A d : "at" \in DOMAIN [r EXCEPT !.devices = d]
      BY <2>1 DEF Request
    <3>3. CASE ReadAdmins(h) \/ InsertUser(h)
      BY <3>1, <3>2, <3>3 DEF ReadAdmins, InsertUser
    <3>4. CASE SelectCodes(h) \/ SelectDevices(h)
      BY <3>1, <3>2, <3>4 DEF SelectCodes, SelectDevices
    <3>5. CASE LoadUser(h) \/ NotLastAdmin(h)
      BY <3>1, <3>2, <3>5 DEF LoadUser, NotLastAdmin
    <3> QED
      BY <2>3, <3>3, <3>4, <3>5
  <2>4. CASE CountBoxes(h)
    <3>1. r.user \in Users /\ users' = users /\ boxCount' = boxCount /\ boxCount \in Nat \ {0}
      BY <1>0, <2>1, <2>4, <1>4, RequestFields, BoxCountsAssumption
         DEF CountBoxes, At, Knows, state, tables, TablesOK
    <3> DEFINE existing == IF r.user \in Registered THEN Cardinality(users[r.user].boxes) ELSE 0
    <3>2. existing \in Nat /\ (r.user \in Registered => users[r.user].boxes = 0..(existing - 1))
      BY NumberOfBoxes DEF BoxesInv
    <3>3. CASE existing >= boxCount
      <4>1. Goes(h, r, "issue") /\ r.user \in Registered
        BY <2>4, <3>1, <3>3 DEF CountBoxes, BoxNumber
      <4>2. 0..(boxCount - 1) \subseteq users[r.user].boxes
        <5> HIDE DEF existing, r
        <5> QED
          BY <3>1, <3>2, <3>3, <4>1
      <4>3. q.at = "issue" /\ q.user = r.user
        BY <2>1, <2>2, <4>1
      <4> QED
        BY <3>1, <4>2, <4>3 DEF BoxesSeen
    <3>4. CASE existing < boxCount
      <4>1. Goes(h, [r EXCEPT !.from = existing], "fill")
        BY <2>4, <3>1, <3>2, <3>4 DEF CountBoxes, BoxNumber
      <4>2. /\ [r EXCEPT !.from = existing] \in Request /\ [r EXCEPT !.from = existing].user = r.user
            /\ [r EXCEPT !.from = existing].from = existing
        <5> HIDE DEF existing
        <5> QED
          BY <2>1, <3>2 DEF Request
      <4>3. q.at = "fill" /\ q.user = r.user /\ q.from = existing
        BY <2>2, <4>1, <4>2
      <4> QED
        BY <3>1, <3>2, <3>4, <4>3 DEF BoxesSeen, Registered
    <3> QED
      <4> HIDE DEF existing
      <4> QED
        BY <3>1, <3>2, <3>3, <3>4
  <2>5. CASE FillBoxes(h)
    <3>1. [r EXCEPT !.from = 0] \in Request /\ [r EXCEPT !.from = 0].user = r.user
      BY <2>1 DEF Request
    <3>2. q.at = "issue" /\ q.user = r.user /\ boxCount' = boxCount
      BY <2>2, <2>5, <3>1 DEF FillBoxes
    <3> QED
      BY <2>5, <3>2, Filled DEF BoxesSeen
  <2>6. ASSUME NEW d \in Devices, InsertDevice(h, d) PROVE BoxesSeen(reqs[h])'
    <3>1. q = [[r EXCEPT !.dev = d, !.user = None] EXCEPT !.at = "spend"]
      BY <1>0, <2>6 DEF InsertDevice, Answers, Ends, Goes, Running
    <3>2. q.at = "spend"
      BY <2>1, <3>1 DEF Request
    <3> QED
      BY <1>1, <3>2
  <2>7. CASE MakeCode(h) \/ SpendCode(h) \/ SaveAdmin(h) \/ DeleteUser(h) \/ Stop(h)
    BY <1>0, <2>7 DEF MakeCode, SpendCode, SaveAdmin, DeleteUser, Stop, Answers, Ends, Running
  <2>8. CASE NewestCode(h)
    <3>1. CASE Goes(h, r, "count")
      BY <1>2, <2>1, <2>2, <2>8, <3>1 DEF NewestCode, At, BoxesSeen
    <3>2. ASSUME NEW c \in CodesMade, Goes(h, [r EXCEPT !.op = "pair", !.code = c], "find")
          PROVE  BoxesSeen(reqs[h])'
      <4>1. q = [[r EXCEPT !.op = "pair", !.code = c] EXCEPT !.at = "find"]
        BY <1>0, <3>2 DEF Goes
      <4>2. q.at = "find" /\ q.op = "pair"
        BY <2>1, <4>1 DEF Request
      <4> QED
        BY <1>2, <4>2
    <3> QED
      BY <2>8, <3>1, <3>2 DEF NewestCode
  <2>9. CASE OnlyUser(h) \/ FindCode(h)
    <3>1. PICK u : Goes(h, [r EXCEPT !.user = u], "issue")
      BY <2>9 DEF OnlyUser, FindCode
    <3>2. q = [[r EXCEPT !.user = u] EXCEPT !.at = "issue"]
      BY <1>0, <3>1 DEF Goes
    <3>3. q.at = "issue" /\ q.op = r.op
      BY <2>1, <3>2 DEF Request
    <3> QED
      BY <1>2, <2>1, <2>9, <3>3 DEF OnlyUser, FindCode, At, BoxesSeen
  <2>10. CASE CountUsers(h)
    BY <1>2, <2>1, <2>2, <2>10 DEF CountUsers, At, BoxesSeen
  <2> QED
    BY <1>4, <2>3, <2>4, <2>5, <2>6, <2>7, <2>8, <2>9, <2>10, <1>3 DEF RunHandler
<1>5. RunHandler(h) => h \in Running
  BY DEF RunHandler, ReadAdmins, InsertUser, CountBoxes, FillBoxes, InsertDevice, MakeCode,
         NewestCode, CountUsers, OnlyUser, FindCode, SpendCode, LoadUser, NotLastAdmin,
         SelectCodes, SelectDevices, SaveAdmin,
         DeleteUser, Stop, At
<1> QED
  BY <1>3, <1>4, <1>5

LEMMA RowsStep ==
    ASSUME AccountsInv, BoxesInv, [AccountsNext]_accountVars
    PROVE  (\A u \in Registered : \E n \in Nat : users[u].boxes = 0..(n - 1))'
<1>0. TablesOK
  BY TablesAre
<1>1. ASSUME NEW u \in Registered', u \in Registered, users'[u].boxes = users[u].boxes
      PROVE  \E n \in Nat : users'[u].boxes = 0..(n - 1)
  BY <1>1 DEF BoxesInv
<1>2. ASSUME NEW u \in Registered', users' = users PROVE \E n \in Nat : users'[u].boxes = 0..(n - 1)
  BY <1>1, <1>2 DEF Registered
<1>3. ASSUME NEW u \in Registered', NEW h \in Handlers,
             InsertUser(h) \/ FillBoxes(h) \/ SaveAdmin(h) \/ DeleteUser(h)
      PROVE  \E n \in Nat : users'[u].boxes = 0..(n - 1)
  <2>1. CASE InsertUser(h)
    <3>1. CASE u = lastUser + 1
      <4>1. users'[u].boxes = {}
        BY <1>0, <2>1, <3>1 DEF InsertUser, TablesOK
      <4>2. {} = 0..(0 - 1)
        OBVIOUS
      <4> QED
        BY <4>1, <4>2
    <3>2. CASE u # lastUser + 1
      BY <1>0, <1>1, <2>1, <3>2 DEF InsertUser, TablesOK, Registered
    <3> QED
      BY <3>1, <3>2
  <2>2. CASE FillBoxes(h)
    <3>1. CASE u = reqs[h].user
      BY <1>0, <2>2, <3>1, Filled, BoxCountsAssumption DEF TablesOK
    <3>2. CASE u # reqs[h].user
      BY <1>0, <1>1, <2>2, <3>2 DEF FillBoxes, TablesOK, Registered
    <3> QED
      BY <3>1, <3>2
  <2>3. CASE SaveAdmin(h)
    <3>1. users' = [users EXCEPT ![reqs[h].user].admin = reqs[h].flag] /\ reqs[h].user \in Registered
      BY <2>3 DEF SaveAdmin
    <3>2. users[reqs[h].user] \in User
      BY <1>0, <3>1 DEF TablesOK, Registered
    <3>3. users'[reqs[h].user].boxes = users[reqs[h].user].boxes
      BY <1>0, <3>1, <3>2 DEF TablesOK, Registered, User
    <3>4. \A x \in Users \ {reqs[h].user} : users'[x] = users[x]
      BY <1>0, <3>1 DEF TablesOK
    <3> QED
      BY <1>1, <3>1, <3>3, <3>4 DEF Registered
  <2>4. CASE DeleteUser(h)
    BY <1>0, <1>1, <2>4 DEF DeleteUser, TablesOK, Registered
  <2> QED
    BY <1>3, <2>1, <2>2, <2>3, <2>4
<1>4. ASSUME NEW u \in Registered', Restart PROVE \E n \in Nat : users'[u].boxes = 0..(n - 1)
  <2>1. PICK seeded \in SUBSET Registered :
          users' = [x \in Users |-> IF x \in seeded THEN [users[x] EXCEPT !.admin = TRUE] ELSE users[x]]
    BY <1>4 DEF Restart, SeedAdmins, Admins
  <2>2. \A x \in Registered : users'[x].boxes = users[x].boxes
    BY <1>0, <2>1 DEF TablesOK, Registered, User
  <2>3. u \in Registered
    BY <2>1 DEF Registered
  <2> QED
    BY <1>1, <2>2, <2>3
<1>5. ASSUME NEW h \in Handlers, RunHandler(h),
             ~(InsertUser(h) \/ FillBoxes(h) \/ SaveAdmin(h) \/ DeleteUser(h))
      PROVE  users' = users
  BY <1>5 DEF RunHandler, ReadAdmins, CountBoxes, InsertDevice, MakeCode, NewestCode,
              CountUsers, OnlyUser,
              FindCode, SpendCode, LoadUser, NotLastAdmin, SelectCodes, SelectDevices,
              Stop, state, tables
<1>6. ASSUME NEW h \in Handlers, BeginSome(h) PROVE users' = users
  BY <1>6 DEF BeginSome, BeginRegister, BeginEnroll, BeginLogin, BeginCreate, BeginPair,
              BeginDelete, BeginSetAdmin, state, tables
<1>7. CASE users' = users
  BY <1>2, <1>7
<1> QED
  BY <1>3, <1>4, <1>5, <1>6, <1>7
     DEF AccountsNext, Expire, Sweep, RevokeDevice, accountVars, state, tables

LEMMA BoxesStep ==
    ASSUME AccountsInv, BoxesInv, [AccountsNext]_accountVars
    PROVE  BoxesInv'
<1>1. ASSUME NEW k \in Running' PROVE BoxesSeen(reqs[k])'
  <2>1. ~Restart
    BY <1>1 DEF Restart, Running
  <2>2. ASSUME NEW h \in Handlers, BeginSome(h) \/ RunHandler(h) PROVE boxCount' = boxCount
    BY <2>2 DEF BeginSome, BeginRegister, BeginEnroll, BeginLogin, BeginCreate, BeginPair,
         BeginDelete, BeginSetAdmin, RunHandler, ReadAdmins, InsertUser, CountBoxes, FillBoxes,
         InsertDevice, MakeCode, NewestCode, CountUsers, OnlyUser, FindCode, SpendCode, LoadUser,
         NotLastAdmin, SelectCodes, SelectDevices, SaveAdmin, DeleteUser, Stop, state, tables
  <2>3. boxCount' = boxCount
    BY <2>1, <2>2 DEF AccountsNext, Expire, Sweep, RevokeDevice, accountVars, state
  <2>4. CASE k \in Running /\ reqs'[k] = reqs[k]
    BY <2>3, <2>4, OtherSeen DEF BoxesInv
  <2>5. ASSUME NEW h \in Handlers, BeginSome(h) \/ RunHandler(h) PROVE BoxesSeen(reqs[k])'
    BY <1>1, <2>4, <2>5, OnlyOwn, OwnSeen
  <2>6. CASE reqs' = reqs
    BY <1>1, <2>4, <2>6 DEF Running
  <2> QED
    BY <2>1, <2>5, <2>6 DEF AccountsNext, Expire, Sweep, RevokeDevice, accountVars
<1> QED
  BY <1>1, RowsStep DEF BoxesInv

LEMMA BoxesInvariant == AccountsSpec => []BoxesInv
<1>1. AccountsInit => BoxesInv
  BY DEF AccountsInit, BoxesInv, Registered, Running
<1>2. AccountsInv /\ BoxesInv /\ [AccountsNext]_accountVars => BoxesInv'
  BY BoxesStep
<1> QED
  BY <1>1, <1>2, AccountsInvariant, PTL DEF AccountsSpec

\* The boxes of an account are numbered without a gap, whichever top-ups run at once.
THEOREM BoxesAreNumbered == AccountsSpec => []BoxesHaveNoGap
<1>1. BoxesInv => BoxesHaveNoGap
  <2> SUFFICES ASSUME BoxesInv, NEW u \in Registered
               PROVE  \E n \in 0..Cardinality(users[u].boxes) : users[u].boxes = 0..(n - 1)
    BY DEF BoxesHaveNoGap
  <2>1. PICK n \in Nat : users[u].boxes = 0..(n - 1)
    BY DEF BoxesInv
  <2>2. Cardinality(users[u].boxes) = n
    BY <2>1, NumberOfBoxes
  <2> QED
    BY <2>1, <2>2
<1> QED
  BY <1>1, BoxesInvariant, PTL

\* A login or a registration answers with a token only when all boxes are there.
THEOREM TokenComesLast == AccountsSpec => TokenAfterBoxes
<1> DEFINE A == \A h \in Running :
                  reqs[h].at = "issue" /\ reqs[h].op = "login" /\ devices' # devices /\ reqs'[h] = None =>
                    0..(boxCount - 1) \subseteq users[reqs[h].user].boxes
<1>1. ASSUME AccountsInv, BoxesInv, [AccountsNext]_accountVars PROVE A
  <2> SUFFICES ASSUME NEW h \in Running, reqs[h].at = "issue", reqs[h].op = "login",
                      devices' # devices, reqs'[h] = None
               PROVE  0..(boxCount - 1) \subseteq users[reqs[h].user].boxes
    OBVIOUS
  <2>1. ASSUME NEW k \in Handlers, BeginSome(k) PROVE FALSE
    BY <2>1 DEF BeginSome, BeginRegister, BeginEnroll, BeginLogin, BeginCreate, BeginPair,
                BeginDelete, BeginSetAdmin, state, tables
  <2>2. ASSUME NEW k \in Handlers, RunHandler(k) PROVE reqs[h].user \in Registered
    <3>1. k = h
      BY <1>1, <2>2, OnlyOwn DEF Running
    <3> QED
      BY <2>2, <3>1
         DEF RunHandler, ReadAdmins, InsertUser, CountBoxes, FillBoxes, InsertDevice, MakeCode,
             NewestCode, CountUsers, OnlyUser, FindCode, SpendCode, LoadUser, NotLastAdmin,
             SelectCodes, SelectDevices, SaveAdmin,
             DeleteUser, Stop, At, state, tables
  <2>3. reqs' # reqs /\ ~Restart
    BY DEF Running, Restart
  <2>4. reqs[h].user \in Registered
    BY <1>1, <2>1, <2>2, <2>3 DEF AccountsNext, Expire, Sweep, RevokeDevice, accountVars
  <2> QED
    BY <1>1, <2>4 DEF BoxesInv, BoxesSeen
<1>2. AccountsInv /\ BoxesInv /\ [AccountsNext]_accountVars => [A]_accountVars
  BY <1>1
<1> QED
  BY <1>2, AccountsInvariant, BoxesInvariant, PTL DEF AccountsSpec, TokenAfterBoxes

================================================================================
