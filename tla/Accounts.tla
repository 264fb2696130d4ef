--------------------------------- MODULE Accounts ---------------------------------
(***************************************************************************)
(* AccountService and the part of AdminService that changes who may do     *)
(* what: accounts, pairing codes, device tokens, and the boxes an account  *)
(* is given.  The handlers run at the same time; each is split at its      *)
(* awaits, and `at' names the query or the SaveChangesAsync it has come to *)
(* (see Requests for what SaveChangesAsync is).  A handler that only asks  *)
(* whether a row is there before it removes it is one step.  Rows refer to *)
(* an account by a foreign key with cascading deletes.                     *)
(*                                                                         *)
(* Left out: passwords and user names (a name decides whether a            *)
(* registration is refused and whether the configuration makes the account *)
(* an admin, which is why that is a choice here), and the Pokemon.         *)
(***************************************************************************)
EXTENDS Integers, FiniteSets

CONSTANTS
    Consoles,
    Handlers,         \* requests that can be in flight together
    AdminHandlers,    \* those that may change who is an admin
    Devices,          \* device rows; a row stands for its token
    BoxCounts,        \* values of the option BoxCount
    MaxUsers,         \* accounts ever registered: a bound
    MaxCodes,         \* pairing codes ever made: a bound
    None

ASSUME AdminHandlersAssumption == AdminHandlers \subseteq Handlers
ASSUME BoxCountsAssumption == BoxCounts \subseteq Nat \ {0} /\ BoxCounts # {}
ASSUME BoundsAssumption == MaxUsers \in Nat /\ MaxCodes \in Nat

Users == 1..MaxUsers     \* ids grow, and are not used again
Codes == 1..MaxCodes

User == [admin : BOOLEAN, boxes : SUBSET Nat]
PairingCode == [user : Users, live : BOOLEAN]

\* The registration, login and bank pages do what "register" and "login" do, and stop
\* before a token is made.
Ops == {"register", "login", "pair", "enroll", "create", "setAdmin", "delete"}

Request == [op : Ops,
            at : {"admins", "insert", "boxes", "fill", "issue", "find", "spend", "make",
                  "newest", "count", "single", "load", "lastAdmin", "codes", "devices", "save"},
            user : Users \cup {None},
            code : Codes \cup {None},
            dev : Devices \cup {None},
            flag : BOOLEAN,                 \* is or becomes an admin
            from : Nat,                     \* number of boxes that were counted
            codes : SUBSET Codes,           \* rows it is to remove
            devices : SUBSET Devices]

ASSUME NoneAssumption == None \notin User \cup PairingCode \cup Request \cup Users
                                  \cup Codes \cup Devices \cup Consoles

VARIABLES
    users, codes, devices,     \* the tables; a device's row is its user
    lastUser, lastCode,        \* the ids given out
    boxCount,                  \* the option, as the server was started
    pairedBy,                  \* the code by which a console got its latest token
    reqs                       \* the handlers that are running

tables == <<users, codes, devices, lastUser, lastCode>>
state == <<tables, boxCount, pairedBy>>
accountVars == <<state, reqs>>

AccountsTypeOK ==
    /\ users \in [Users -> User \cup {None}]
    /\ codes \in [Codes -> PairingCode \cup {None}]
    /\ devices \in [Devices -> Users \cup {None}]
    /\ lastUser \in 0..MaxUsers /\ lastCode \in 0..MaxCodes
    /\ boxCount \in BoxCounts
    /\ pairedBy \in [Consoles -> Codes \cup {None}]
    /\ reqs \in [Handlers -> Request \cup {None}]

AccountsInit ==
    /\ users = [u \in Users |-> None]
    /\ codes = [c \in Codes |-> None]
    /\ devices = [d \in Devices |-> None]
    /\ lastUser = 0 /\ lastCode = 0
    /\ boxCount \in BoxCounts
    /\ pairedBy = [k \in Consoles |-> None]
    /\ reqs = [h \in Handlers |-> None]

Registered == {u \in Users : users[u] # None}
Admins == {u \in Registered : users[u].admin}
CodesMade == {c \in Codes : codes[c] # None}
Expired == {c \in CodesMade : ~codes[c].live}
Running == {h \in Handlers : reqs[h] # None}
At(h, place) == h \in Running /\ reqs[h].at = place

--------------------------------------------------------------------------------
(* How a handler starts, goes on and ends. *)

Asked(op, place) ==
    [op |-> op, at |-> place, user |-> None, code |-> None, dev |-> None,
     flag |-> FALSE, from |-> 0, codes |-> {}, devices |-> {}]

\* It goes on at another place, with a new record of its locals.
Goes(h, r, place) == reqs' = [reqs EXCEPT ![h] = [r EXCEPT !.at = place]]

Ends(h) == reqs' = [reqs EXCEPT ![h] = None]

\* apply_token: a console saves the token it is answered.  It does not matter to the
\* server which console that is, and nobody may be waiting any more.
Answers(h) ==
    /\ Ends(h)
    /\ \/ \E k \in Consoles : pairedBy' = [pairedBy EXCEPT ![k] = reqs[h].code]
       \/ UNCHANGED pairedBy

\* A request is refused, its SaveChangesAsync throws, or it is cancelled.
Stop(h) ==
    /\ h \in Running
    /\ Ends(h)
    /\ UNCHANGED state

--------------------------------------------------------------------------------
(* RegisterAsync, EnsureBoxesAsync, IssueDeviceTokenAsync. *)

BeginRegister(h) ==
    /\ h \notin Running
    /\ reqs' = [reqs EXCEPT ![h] = Asked("register", "admins")]
    /\ UNCHANGED state

\* The password is right: AuthenticateAsync has looked the account up.
BeginLogin(h, u) ==
    /\ h \notin Running /\ u \in Registered
    /\ reqs' = [reqs EXCEPT ![h] = [Asked("login", "boxes") EXCEPT !.user = u]]
    /\ UNCHANGED state

\* A faulty variant of MakesAdmin: only the configured names become admins.
MakesConfigured(configured) == configured

MakesAdmin(configured) == configured \/ Admins = {}

ReadAdmins(h) ==
    /\ At(h, "admins")
    /\ \E configured \in BOOLEAN :
         Goes(h, [reqs[h] EXCEPT !.flag = MakesAdmin(configured)], "insert")
    /\ UNCHANGED state

InsertUser(h) ==
    LET u == lastUser + 1 IN
    /\ At(h, "insert")
    /\ u \in Users
    /\ users' = [users EXCEPT ![u] = [admin |-> reqs[h].flag, boxes |-> {}]]
    /\ lastUser' = u
    /\ Goes(h, [reqs[h] EXCEPT !.op = "login", !.user = u, !.flag = FALSE], "boxes")
    /\ UNCHANGED <<codes, devices, lastCode, boxCount, pairedBy>>

\* A faulty variant of BoxNumber: it goes on from the last box.
LastBox(u) == IF u \in Registered THEN Cardinality(users[u].boxes) - 1 ELSE 0

BoxNumber(u) == IF u \in Registered THEN Cardinality(users[u].boxes) ELSE 0

CountBoxes(h) ==
    LET existing == BoxNumber(reqs[h].user) IN
    /\ At(h, "boxes")
    /\ IF existing >= boxCount
         THEN Goes(h, reqs[h], "issue")
         ELSE Goes(h, [reqs[h] EXCEPT !.from = existing], "fill")
    /\ UNCHANGED state

\* Faulty variants of Missing: the counting starts at one; the last box is forgotten.
MissingFromOne(from) == (from + 1)..boxCount
MissingButLast(from) == from..(boxCount - 2)

Missing(from) == from..(boxCount - 1)

\* The unique index on (user, index) refuses a box that is already there.
FillBoxes(h) ==
    LET u == reqs[h].user
        new == Missing(reqs[h].from) IN
    /\ At(h, "fill")
    /\ u \in Registered /\ users[u].boxes \cap new = {}
    /\ users' = [users EXCEPT ![u].boxes = @ \cup new]
    /\ Goes(h, [reqs[h] EXCEPT !.from = 0], "issue")
    /\ UNCHANGED <<codes, devices, lastUser, lastCode, boxCount, pairedBy>>

\* A new row, whose token nobody has.
IsNewDevice(d) ==
    /\ devices[d] = None
    /\ \A h \in Running : reqs[h].dev # d /\ d \notin reqs[h].devices

InsertDevice(h, d) ==
    LET r == reqs[h] IN
    /\ At(h, "issue")
    /\ r.user \in Registered /\ IsNewDevice(d)
    /\ devices' = [devices EXCEPT ![d] = r.user]
    /\ IF r.code = None
         THEN Answers(h)
         ELSE Goes(h, [r EXCEPT !.dev = d, !.user = None], "spend") /\ UNCHANGED pairedBy
    /\ UNCHANGED <<users, codes, lastUser, lastCode, boxCount>>

--------------------------------------------------------------------------------
(* CreatePairingCodeAsync, PairDeviceAsync, EnrollConsoleAsync and the sweep. *)

Cleaned(drop) == [c \in Codes |-> IF c \in drop THEN None ELSE codes[c]]

Sweep ==
    /\ Admins # {}
    /\ codes' = Cleaned(Expired)
    /\ UNCHANGED <<users, devices, lastUser, lastCode, boxCount, pairedBy, reqs>>

\* It selects the account's codes and all that have expired.
BeginCreate(h, u) ==
    /\ h \notin Running /\ u \in Registered
    /\ reqs' = [reqs EXCEPT ![h] =
                  [Asked("create", "make") EXCEPT
                     !.user = u, !.codes = Expired \cup {c \in CodesMade : codes[c].user = u}]]
    /\ UNCHANGED state

BeginPair(h, c) ==
    /\ h \notin Running /\ c \in 1..lastCode
    /\ reqs' = [reqs EXCEPT ![h] = [Asked("pair", "find") EXCEPT !.code = c]]
    /\ UNCHANGED state

\* It begins with a sweep.
BeginEnroll(h) ==
    /\ h \notin Running
    /\ reqs' = [reqs EXCEPT ![h] = Asked("enroll", "newest")]
    /\ codes' = Cleaned(Expired)
    /\ UNCHANGED <<users, devices, lastUser, lastCode, boxCount, pairedBy>>

MakeCode(h) ==
    LET r == reqs[h]
        c == lastCode + 1 IN
    /\ At(h, "make")
    /\ r.codes \subseteq CodesMade
    /\ r.user \in Registered /\ c \in Codes
    /\ codes' = [Cleaned(r.codes) EXCEPT ![c] = [user |-> r.user, live |-> TRUE]]
    /\ lastCode' = c
    /\ Ends(h)
    /\ UNCHANGED <<users, devices, lastUser, boxCount, pairedBy>>

\* The newest code pairs the console; if there is none, the only account may.
NewestCode(h) ==
    /\ At(h, "newest")
    /\ \/ \E c \in CodesMade :
            /\ \A x \in CodesMade : x <= c
            /\ Goes(h, [reqs[h] EXCEPT !.op = "pair", !.code = c], "find")
       \/ CodesMade = {} /\ Goes(h, reqs[h], "count")
    /\ UNCHANGED state

CountUsers(h) ==
    /\ At(h, "count")
    /\ Cardinality(Registered) = 1
    /\ Goes(h, reqs[h], "single")
    /\ UNCHANGED state

OnlyUser(h) ==
    /\ At(h, "single")
    /\ \E u \in Registered :
         /\ Registered = {u}
         /\ Goes(h, [reqs[h] EXCEPT !.user = u], "issue")
    /\ UNCHANGED state

\* A faulty variant of FindCode: the first live code will do.
FindFirst(h) ==
    /\ At(h, "find")
    /\ reqs[h].code \in CodesMade
    /\ \E c \in CodesMade \ Expired :
         /\ \A x \in CodesMade \ Expired : c <= x
         /\ Goes(h, [reqs[h] EXCEPT !.user = codes[c].user], "issue")
    /\ UNCHANGED state

FindCode(h) ==
    LET c == reqs[h].code IN
    /\ At(h, "find")
    /\ c \in CodesMade /\ codes[c].live
    /\ Goes(h, [reqs[h] EXCEPT !.user = codes[c].user], "issue")
    /\ UNCHANGED state

\* A faulty variant of StillThere: it does not matter whether the row is gone.
MayBeGone(c) == c \in Codes

StillThere(c) == c \in CodesMade

\* The token was saved before; the code goes in a transaction of its own, which fails
\* when the row is gone.
SpendCode(h) ==
    LET r == reqs[h] IN
    /\ At(h, "spend")
    /\ StillThere(r.code)
    /\ codes' = [codes EXCEPT ![r.code] = None]
    /\ Answers(h)
    /\ UNCHANGED <<users, devices, lastUser, lastCode, boxCount>>

Expire(c) ==
    /\ c \in CodesMade \ Expired
    /\ codes' = [codes EXCEPT ![c].live = FALSE]
    /\ UNCHANGED <<users, devices, lastUser, lastCode, boxCount, pairedBy, reqs>>

--------------------------------------------------------------------------------
(* SetAdminAsync, DeleteUserAsync, RevokeDeviceAsync.  The request is authorised   *)
(* when it comes (AdminAuthorizationHandler); it is about an account on the page.  *)

BeginSetAdmin(h, actor, u, want) ==
    /\ h \in AdminHandlers \ Running /\ actor \in Admins /\ u \in Registered
    /\ want \/ u # actor
    /\ reqs' = [reqs EXCEPT ![h] = [Asked("setAdmin", "load") EXCEPT !.user = u, !.flag = want]]
    /\ UNCHANGED state

BeginDelete(h, actor, u) ==
    /\ h \in AdminHandlers \ Running /\ actor \in Admins /\ u \in Registered \ {actor}
    /\ reqs' = [reqs EXCEPT ![h] = [Asked("delete", "load") EXCEPT !.user = u]]
    /\ UNCHANGED state

LoadUser(h) ==
    LET r == reqs[h] IN
    /\ At(h, "load") /\ r.user \in Registered
    /\ \/ /\ r.op = "setAdmin" /\ users[r.user].admin # r.flag
          /\ Goes(h, r, IF r.flag THEN "save" ELSE "lastAdmin")
       \/ /\ r.op = "delete"
          /\ Goes(h, r, IF users[r.user].admin THEN "lastAdmin" ELSE "codes")
    /\ UNCHANGED state

\* CountAsync(IsAdmin) > 1
NotLastAdmin(h) ==
    /\ At(h, "lastAdmin")
    /\ \E a, b \in Admins : a # b
    /\ Goes(h, reqs[h], IF reqs[h].op = "delete" THEN "codes" ELSE "save")
    /\ UNCHANGED state

\* The rows DeleteUserAsync is to remove, one query for each table; more may be inserted
\* before it saves.
SelectCodes(h) ==
    LET selected == {c \in CodesMade : codes[c].user = reqs[h].user} IN
    /\ At(h, "codes")
    /\ Goes(h, [reqs[h] EXCEPT !.codes = selected], "devices")
    /\ UNCHANGED state

SelectDevices(h) ==
    LET selected == {d \in Devices : devices[d] = reqs[h].user} IN
    /\ At(h, "devices")
    /\ Goes(h, [reqs[h] EXCEPT !.devices = selected], "save")
    /\ UNCHANGED state

SaveAdmin(h) ==
    LET r == reqs[h] IN
    /\ At(h, "save") /\ r.op = "setAdmin"
    /\ r.user \in Registered
    /\ users' = [users EXCEPT ![r.user].admin = r.flag]
    /\ Ends(h)
    /\ UNCHANGED <<codes, devices, lastUser, lastCode, boxCount, pairedBy>>

DeleteUser(h) ==
    LET u == reqs[h].user IN
    /\ At(h, "save") /\ reqs[h].op = "delete"
    /\ u \in Registered
    /\ reqs[h].codes \subseteq CodesMade /\ \A d \in reqs[h].devices : devices[d] # None
    /\ users' = [users EXCEPT ![u] = None]
    /\ codes' = Cleaned({c \in CodesMade : codes[c].user = u})
    /\ devices' = [d \in Devices |-> IF devices[d] = u THEN None ELSE devices[d]]
    /\ Ends(h)
    /\ UNCHANGED <<lastUser, lastCode, boxCount, pairedBy>>

RevokeDevice(d) ==
    /\ Admins # {} /\ devices[d] # None
    /\ devices' = [devices EXCEPT ![d] = None]
    /\ UNCHANGED <<users, codes, lastUser, lastCode, boxCount, pairedBy, reqs>>

--------------------------------------------------------------------------------

\* SeedAdminsAsync: the configured accounts, and the oldest one if nobody is an admin.
SeedAdmins(configured) ==
    LET named == Admins \cup configured
        oldest == {u \in Registered : \A x \in Registered : u <= x}
        seeded == IF named = {} THEN oldest ELSE named IN
    users' = [u \in Users |-> IF u \in seeded THEN [users[u] EXCEPT !.admin = TRUE] ELSE users[u]]

Restart ==
    /\ reqs' = [h \in Handlers |-> None]
    /\ boxCount' \in BoxCounts
    /\ \E configured \in SUBSET Registered : SeedAdmins(configured)
    /\ UNCHANGED <<codes, devices, lastUser, lastCode, pairedBy>>

BeginSome(h) ==
    \/ BeginRegister(h) \/ BeginEnroll(h)
    \/ \E u \in Users : BeginLogin(h, u) \/ BeginCreate(h, u)
    \/ \E c \in Codes : BeginPair(h, c)
    \/ \E actor, u \in Users :
         \/ BeginDelete(h, actor, u)
         \/ \E want \in BOOLEAN : BeginSetAdmin(h, actor, u, want)

RunHandler(h) ==
    \/ ReadAdmins(h) \/ InsertUser(h) \/ CountBoxes(h) \/ FillBoxes(h)
    \/ \E d \in Devices : InsertDevice(h, d)
    \/ MakeCode(h) \/ NewestCode(h) \/ CountUsers(h) \/ OnlyUser(h)
    \/ FindCode(h) \/ SpendCode(h)
    \/ LoadUser(h) \/ NotLastAdmin(h) \/ SelectCodes(h) \/ SelectDevices(h)
    \/ SaveAdmin(h) \/ DeleteUser(h)
    \/ Stop(h)

AccountsNext ==
    \/ \E h \in Handlers : BeginSome(h) \/ RunHandler(h)
    \/ \E c \in Codes : Expire(c)
    \/ Sweep
    \/ \E d \in Devices : RevokeDevice(d)
    \/ Restart

AccountsSpec == AccountsInit /\ [][AccountsNext]_accountVars

================================================================================
