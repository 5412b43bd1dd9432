--------------------------- MODULE LinkRegistry ---------------------------
(***************************************************************************)
(* What the API promises about links, without transactions, awaits and the *)
(* cache: a registry in which links are opened, changed and removed, one   *)
(* at a time, each in one step of one call and under the rights of the     *)
(* user who made that call.  A code belongs to one open link, a link keeps *)
(* its code for life and never comes back, it belongs to whoever opened    *)
(* it, and a call changes or removes it only if its caller is that owner   *)
(* or an administrator; what was opened anonymously is left to             *)
(* administrators.  A call may end without any effect: it was refused, it  *)
(* failed, or the service died.                                            *)
(***************************************************************************)
CONSTANTS
  Ids,       \* identities of links
  Codes,     \* codes and aliases
  Reqs,      \* identities of calls
  Users,     \* registered users
  Admins,    \* administrators among them
  Deadlines, \* values of expires_at, None included
  None       \* no owner, no code, no caller

VARIABLES
  book,  \* what is known of each link
  calls  \* the calls under way: who wants what done to which link

Without(s) == [status |-> s, code |-> None, owner |-> None, active |-> TRUE, deadline |-> None]
Absent     == Without("absent")
Removed    == Without("removed")

\* An open link.
Held(c, u, a, d) == [status |-> "open", code |-> c, owner |-> u, active |-> a, deadline |-> d]

IsOpen(i) == book[i].status = "open"

\* The rights of user u over link i.
MayChange(u, i) == u \in Admins \/ book[i].owner = u

RegistryInit == /\ book = [i \in Ids |-> Absent]
                /\ calls = {}

\* Only a create may come from nobody.
Call(r) ==
  /\ \A k \in calls : k.req # r
  /\ \E u \in Users \cup {None}, i \in Ids, verb \in {"create", "change", "remove"} :
       /\ verb = "create" \/ u \in Users
       /\ calls' = calls \cup {[req |-> r, who |-> u, id |-> i, verb |-> verb]}
  /\ UNCHANGED book

\* Calls end without effect, one of them or all at once.
GiveUp == calls' \subseteq calls /\ UNCHANGED book

Ends(k) == calls' = calls \ {k}

Open(k) ==
  /\ k.verb = "create"
  /\ book[k.id] = Absent
  /\ \E c \in Codes, d \in Deadlines :
       /\ \A j \in Ids : IsOpen(j) => book[j].code # c
       /\ book' = [book EXCEPT ![k.id] = Held(c, k.who, TRUE, d)]
  /\ Ends(k)

Change(k) ==
  /\ k.verb = "change"
  /\ IsOpen(k.id)
  /\ MayChange(k.who, k.id)
  /\ \E a \in BOOLEAN, d \in Deadlines :
       book' = [book EXCEPT ![k.id] = Held(book[k.id].code, book[k.id].owner, a, d)]
  /\ Ends(k)

Remove(k) ==
  /\ k.verb = "remove"
  /\ IsOpen(k.id)
  /\ MayChange(k.who, k.id)
  /\ book' = [book EXCEPT ![k.id] = Removed]
  /\ Ends(k)

RegistryNext ==
  \/ GiveUp
  \/ \E r \in Reqs : Call(r)
  \/ \E k \in calls : Open(k) \/ Change(k) \/ Remove(k)

RegistrySpec == RegistryInit /\ [][RegistryNext]_<<book, calls>>

=============================================================================
