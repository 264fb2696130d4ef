------------------------------- MODULE AccountProps -------------------------------
(***************************************************************************)
(* What Accounts keeps however its handlers are interleaved, and the one   *)
(* thing it keeps only if requests of admins do not overlap.               *)
(***************************************************************************)
EXTENDS Accounts

\* "Cannot remove the last admin.", "Cannot delete the last admin."
\* (AdminService.cs:116, 131): while there is an account, one of them is an admin,
\* although a registration decides whether it makes an admin before it saves, and a
\* request of an admin counts the admins before it saves.
AdminRemains == Registered # {} => Admins # {}

\* A pairing code pairs one console, although the token is saved before the code is
\* removed (AccountService.cs:138-140): the code a console was paired by is gone, and
\* no other console was paired by it.
CodePairsOne ==
    \A k \in Consoles : pairedBy[k] # None =>
      /\ codes[pairedBy[k]] = None
      /\ \A x \in Consoles \ {k} : pairedBy[x] # pairedBy[k]

\* A console is paired with the account whose code it used, although the code is read
\* up to three times on the way and accounts and devices may be removed in between
\* (AccountService.cs:133-141, 155-159).
CodeOpensItsAccount ==
    [][\A h \in Running : reqs[h].at = "spend" /\ codes'[reqs[h].code] = None
                          /\ codes[reqs[h].code] # None /\ reqs'[h] = None =>
         devices[reqs[h].dev] \in {codes[reqs[h].code].user, None}]_accountVars

\* The boxes of an account are numbered from 0 without a gap, although a top-up takes
\* the number of boxes for the first free index and the option BoxCount may change
\* between two starts of the server (AccountService.cs:98-109).
BoxesHaveNoGap ==
    \A u \in Registered : \E n \in 0..Cardinality(users[u].boxes) : users[u].boxes = 0..(n - 1)

\* A console that registers or logs in gets its token only when the account has all
\* its boxes, whoever else is creating them or fails to (ApiController.cs:33-36, 57-60).
TokenAfterBoxes ==
    [][\A h \in Running :
         reqs[h].at = "issue" /\ reqs[h].op = "login"
         /\ devices' # devices /\ reqs'[h] = None =>
           0..(boxCount - 1) \subseteq users[reqs[h].user].boxes]_accountVars

================================================================================
