------------------------------ MODULE Accounts ------------------------------
(***************************************************************************)
(* Accounts and refresh tokens: AuthService.register/login/refresh/logout  *)
(* (app/services/auth.py) over the tables users and refresh_tokens.        *)
(*                                                                         *)
(* A refresh token is a signed {sub, exp, type} (app/core/security.py) with*)
(* exp in whole seconds and nothing random in it: two tokens made for one  *)
(* user in one second are the same string, with the same hash.  A token is *)
(* therefore its user and the second it was made in.                       *)
(*                                                                         *)
(* Passwords, roles and access tokens are abstracted away: a wrong password*)
(* ends a login like an unknown address, and no operation stores an access *)
(* token.  Nothing in the program deactivates or deletes a user.           *)
(***************************************************************************)
EXTENDS Naturals, FiniteSets

CONSTANTS
  Ids,      \* identities (uuid) of the users that may ever register
  Emails,   \* addresses
  Reqs,     \* concurrent HTTP requests; a slot is reused when it is free
  Lifetime, \* settings.REFRESH_TOKEN_EXPIRE_DAYS, in ticks of the clock
  MaxNow,   \* the clock stops here (bound)
  None      \* no user, no address, no token

ASSUME ClockConstants == MaxNow \in Nat /\ Lifetime \in Nat \ {0}

VARIABLES
  users,  \* the table users, by primary key
  tokens, \* the table refresh_tokens, by token_hash
  now,    \* the wall clock, in seconds
  pc,     \* where each request is suspended
  user,   \* the user a request works for
  email,  \* the address in its body
  old,    \* the refresh token in its body
  new,    \* the refresh token it has made
  stamp   \* the clock it read before its SELECT of a token

vars == <<users, tokens, now, pc, user, email, old, new, stamp>>

-----------------------------------------------------------------------------
Tokens == [user : Ids, born : 0..MaxNow]

ASSUME NoneIsNothing == None \notin Ids \cup Emails \cup Tokens

\* "pending" is inserted by a transaction that is still open.  parent and family
\* are history: the token this one was exchanged for, and the first token of its
\* line of exchanges.
TokenRow == [status : {"absent", "pending", "valid", "revoked"}, expires : Nat,
             parent : Tokens \cup {None}, family : Tokens \cup {None}]
UserRow  == [status : {"unborn", "pending", "live", "void"}, email : Emails \cup {None}]

RegisterPcs == {"email_exists", "insert_user", "commit_register"}
LoginPcs    == {"get_by_email", "insert_first", "commit_login"}
RefreshPcs  == {"get_by_hash", "revoke", "insert_next", "commit_refresh"}
LogoutPcs   == {"logout_get", "logout_revoke", "commit_logout"}

NoRow == [status |-> "absent", expires |-> 0, parent |-> None, family |-> None]

TypeOK ==
  /\ users \in [Ids -> UserRow]
  /\ tokens \in [Tokens -> TokenRow]
  /\ now \in 0..MaxNow
  /\ pc \in [Reqs -> {"idle"} \cup RegisterPcs \cup LoginPcs \cup RefreshPcs \cup LogoutPcs]
  /\ user \in [Reqs -> Ids \cup {None}]
  /\ email \in [Reqs -> Emails \cup {None}]
  /\ old \in [Reqs -> Tokens \cup {None}]
  /\ new \in [Reqs -> Tokens \cup {None}]
  /\ stamp \in [Reqs -> 0..MaxNow]

Init ==
  /\ users = [i \in Ids |-> [status |-> "unborn", email |-> None]]
  /\ tokens = [t \in Tokens |-> NoRow]
  /\ now = 0
  /\ pc = [r \in Reqs |-> "idle"]
  /\ user = [r \in Reqs |-> None]
  /\ email = [r \in Reqs |-> None]
  /\ old = [r \in Reqs |-> None]
  /\ new = [r \in Reqs |-> None]
  /\ stamp = [r \in Reqs |-> 0]

-----------------------------------------------------------------------------
\* Steps shared by the handlers.

Goto(r, there) == pc' = [pc EXCEPT ![r] = there]

Pass(r, there) ==
  Goto(r, there) /\ UNCHANGED <<users, tokens, now, user, email, old, new, stamp>>

\* The request is over, whatever it answered; its slot is free again.
Answer(r) ==
  /\ Goto(r, "idle")
  /\ user' = [user EXCEPT ![r] = None]
  /\ email' = [email EXCEPT ![r] = None]
  /\ old' = [old EXCEPT ![r] = None]
  /\ new' = [new EXCEPT ![r] = None]
  /\ stamp' = [stamp EXCEPT ![r] = 0]

Refuse(r) == Answer(r) /\ UNCHANGED <<users, tokens, now>>

Stored(t) == tokens[t].status \in {"valid", "revoked"}

\* A flushed UPDATE of is_revoked holds the lock of its row until the end.
HoldsRow(r) == pc[r] \in {"insert_next", "commit_refresh", "commit_logout"}
RowBusy(r)  == \E q \in Reqs \ {r} : old[q] = old[r] /\ HoldsRow(q)

-----------------------------------------------------------------------------
\* POST /api/v1/auth/register: AuthService.register.

StartRegister(r) ==
  \E i \in Ids, e \in Emails :
    /\ pc[r] = "idle"
    /\ users[i].status = "unborn"
    /\ \A q \in Reqs : pc[q] \in RegisterPcs => user[q] # i
    /\ user' = [user EXCEPT ![r] = i]
    /\ email' = [email EXCEPT ![r] = e]
    /\ Goto(r, "email_exists")
    /\ UNCHANGED <<users, tokens, now, old, new, stamp>>

EmailTaken(e) == \E i \in Ids : users[i] = [status |-> "live", email |-> e]

EmailExists(r) ==
  /\ pc[r] = "email_exists"
  /\ IF EmailTaken(email[r]) THEN Refuse(r) ELSE Pass(r, "insert_user")

\* Mutant: the address is not unique, the existence check stands alone.
InsertUserUnchecked(r) ==
  /\ pc[r] = "insert_user"
  /\ users' = [users EXCEPT ![user[r]] = [status |-> "pending", email |-> email[r]]]
  /\ Goto(r, "commit_register")
  /\ UNCHANGED <<tokens, now, user, email, old, new, stamp>>

\* The unique index makes the INSERT wait for an open INSERT of the address.
InsertUser(r) ==
  /\ pc[r] = "insert_user"
  /\ \A i \in Ids : users[i] # [status |-> "pending", email |-> email[r]]
  /\ IF EmailTaken(email[r])
     THEN Refuse(r)                     \* IntegrityError, answered with 500
     ELSE /\ users' = [users EXCEPT ![user[r]] = [status |-> "pending", email |-> email[r]]]
          /\ Goto(r, "commit_register")
          /\ UNCHANGED <<tokens, now, user, email, old, new, stamp>>

CommitRegister(r) ==
  /\ pc[r] = "commit_register"
  /\ users' = [users EXCEPT ![user[r]].status = "live"]
  /\ Answer(r)
  /\ UNCHANGED <<tokens, now>>

-----------------------------------------------------------------------------
\* POST /api/v1/auth/login: AuthService.login.

StartLogin(r) ==
  \E e \in Emails :
    /\ pc[r] = "idle"
    /\ email' = [email EXCEPT ![r] = e]
    /\ Goto(r, "get_by_email")
    /\ UNCHANGED <<users, tokens, now, user, old, new, stamp>>

\* Mutant: the user who was not found is taken for one who was.
GetByEmailUnchecked(r) ==
  /\ pc[r] = "get_by_email"
  /\ new' = [new EXCEPT ![r] = [user |-> None, born |-> now]]
  /\ Goto(r, "insert_first")
  /\ UNCHANGED <<users, tokens, now, user, email, old, stamp>>

\* The SELECT, verify_password and, up to the INSERT, the making of the token.
GetByEmail(r) ==
  /\ pc[r] = "get_by_email"
  /\ \/ Refuse(r)                       \* unknown address or wrong password
     \/ \E i \in Ids :
          /\ users[i] = [status |-> "live", email |-> email[r]]
          /\ user' = [user EXCEPT ![r] = i]
          /\ new' = [new EXCEPT ![r] = [user |-> i, born |-> now]]
          /\ Goto(r, "insert_first")
          /\ UNCHANGED <<users, tokens, now, email, old, stamp>>

\* Mutant: an INSERT that commits by itself.
InsertAndCommit(r, parent, family, there) ==
  /\ tokens[new[r]].status = "absent"
  /\ tokens' = [tokens EXCEPT ![new[r]] =
       [status |-> "valid", expires |-> new[r].born + Lifetime,
        parent |-> parent, family |-> family]]
  /\ Goto(r, there)
  /\ UNCHANGED <<users, now, user, email, old, new, stamp>>

\* INSERT into refresh_tokens.  expires_at is computed from a second reading of
\* the clock, which may fall into the next second; token_hash is unique.
InsertToken(r, parent, family, there) ==
  /\ tokens[new[r]].status # "pending"
  /\ IF Stored(new[r])
     THEN Refuse(r)                     \* IntegrityError, answered with 500
     ELSE /\ \E late \in {0, 1} :
               tokens' = [tokens EXCEPT ![new[r]] =
                 [status |-> "pending", expires |-> new[r].born + Lifetime + late,
                  parent |-> parent, family |-> family]]
          /\ Goto(r, there)
          /\ UNCHANGED <<users, now, user, email, old, new, stamp>>

InsertFirst(r) ==
  pc[r] = "insert_first" /\ InsertToken(r, None, new[r], "commit_login")

CommitLogin(r) ==
  /\ pc[r] = "commit_login"
  /\ tokens' = [tokens EXCEPT ![new[r]].status = "valid"]
  /\ Answer(r)
  /\ UNCHANGED <<users, now>>

-----------------------------------------------------------------------------
\* POST /api/v1/auth/refresh: AuthService.refresh.

\* Clients send tokens they were given; the clock is read for get_by_hash.
StartWith(r, there) ==
  \E t \in Tokens :
    /\ pc[r] = "idle"
    /\ Stored(t)
    /\ old' = [old EXCEPT ![r] = t]
    /\ stamp' = [stamp EXCEPT ![r] = now]
    /\ Goto(r, there)
    /\ UNCHANGED <<users, tokens, now, user, email, new>>

StartRefresh(r) == StartWith(r, "get_by_hash")
StartLogout(r)  == StartWith(r, "logout_get")

\* get_by_hash: not revoked, and expires_at, which has a fraction the model does
\* not keep, is later than the clock.
MayMatch(r)   == tokens[old[r]].status = "valid" /\ stamp[r] <= tokens[old[r]].expires
MayUnmatch(r) == tokens[old[r]].status = "valid" => stamp[r] >= tokens[old[r]].expires

\* decode_token accepts a token up to the second of its exp, that one included.
Decodes(t) == now <= t.born + Lifetime

GetByHash(r) ==
  /\ pc[r] = "get_by_hash"
  /\ \/ MayUnmatch(r) /\ Refuse(r)
     \/ /\ MayMatch(r)
        /\ IF Decodes(old[r]) THEN Pass(r, "revoke") ELSE Refuse(r)

\* Mutant: an UPDATE that commits by itself.
RevokeAndCommit(r) ==
  /\ pc[r] = "revoke"
  /\ ~RowBusy(r)
  /\ tokens' = [tokens EXCEPT ![old[r]].status = "revoked"]
  /\ new' = [new EXCEPT ![r] = [user |-> old[r].user, born |-> now]]
  /\ Goto(r, "insert_next")
  /\ UNCHANGED <<users, now, user, email, old, stamp>>

\* UPDATE by primary key, whatever has become of the row since the SELECT; with
\* its reply the new token is made.
Revoke(r) ==
  /\ pc[r] = "revoke"
  /\ ~RowBusy(r)
  /\ new' = [new EXCEPT ![r] = [user |-> old[r].user, born |-> now]]
  /\ Goto(r, "insert_next")
  /\ UNCHANGED <<users, tokens, now, user, email, old, stamp>>

\* An exchange of a token that is revoked already founds a family of its own.
InsertNext(r) ==
  /\ pc[r] = "insert_next"
  /\ InsertToken(r, old[r],
                 IF tokens[old[r]].status = "valid" THEN tokens[old[r]].family ELSE new[r],
                 "commit_refresh")

\* Mutant: the token that was exchanged stays valid.
CommitUnrevoked(r) ==
  /\ pc[r] = "commit_refresh"
  /\ tokens' = [tokens EXCEPT ![new[r]].status = "valid"]
  /\ Answer(r)
  /\ UNCHANGED <<users, now>>

CommitRefresh(r) ==
  /\ pc[r] = "commit_refresh"
  /\ tokens' = [tokens EXCEPT ![old[r]].status = "revoked", ![new[r]].status = "valid"]
  /\ Answer(r)
  /\ UNCHANGED <<users, now>>

-----------------------------------------------------------------------------
\* POST /api/v1/auth/logout: AuthService.logout.

LogoutGet(r) ==
  /\ pc[r] = "logout_get"
  /\ \/ MayUnmatch(r) /\ Refuse(r)
     \/ MayMatch(r) /\ Pass(r, "logout_revoke")

LogoutRevoke(r) ==
  /\ pc[r] = "logout_revoke"
  /\ ~RowBusy(r)
  /\ Pass(r, "commit_logout")

CommitLogout(r) ==
  /\ pc[r] = "commit_logout"
  /\ tokens' = [tokens EXCEPT ![old[r]].status = "revoked"]
  /\ Answer(r)
  /\ UNCHANGED <<users, now>>

-----------------------------------------------------------------------------
\* Faults and the environment.

UserRolledBack(i)  == IF users[i].status = "pending"
                      THEN [users[i] EXCEPT !.status = "void"] ELSE users[i]
TokenRolledBack(t) == IF tokens[t].status = "pending" THEN NoRow ELSE tokens[t]

\* An await raises: the session rolls back and the answer is 500.
Fail(r) ==
  /\ pc[r] # "idle"
  /\ users' = IF pc[r] = "commit_register"
              THEN [users EXCEPT ![user[r]] = UserRolledBack(user[r])] ELSE users
  /\ tokens' = IF pc[r] \in {"commit_login", "commit_refresh"}
               THEN [tokens EXCEPT ![new[r]] = TokenRolledBack(new[r])] ELSE tokens
  /\ Answer(r)
  /\ now' = now

\* The process dies and is restarted; PostgreSQL aborts its transactions.
Crash ==
  /\ \E r \in Reqs : pc[r] # "idle"
  /\ users' = [i \in Ids |-> UserRolledBack(i)]
  /\ tokens' = [t \in Tokens |-> TokenRolledBack(t)]
  /\ pc' = [r \in Reqs |-> "idle"]
  /\ user' = [r \in Reqs |-> None]
  /\ email' = [r \in Reqs |-> None]
  /\ old' = [r \in Reqs |-> None]
  /\ new' = [r \in Reqs |-> None]
  /\ stamp' = [r \in Reqs |-> 0]
  /\ now' = now

Tick ==
  /\ now < MaxNow
  /\ now' = now + 1
  /\ UNCHANGED <<users, tokens, pc, user, email, old, new, stamp>>

-----------------------------------------------------------------------------
Start(r) == StartRegister(r) \/ StartLogin(r) \/ StartRefresh(r) \/ StartLogout(r)

RegisterStep(r) == EmailExists(r) \/ InsertUser(r) \/ CommitRegister(r)
LoginStep(r)    == GetByEmail(r) \/ InsertFirst(r) \/ CommitLogin(r)
RefreshStep(r)  == GetByHash(r) \/ Revoke(r) \/ InsertNext(r) \/ CommitRefresh(r)
LogoutStep(r)   == LogoutGet(r) \/ LogoutRevoke(r) \/ CommitLogout(r)

Step(r) == RegisterStep(r) \/ LoginStep(r) \/ RefreshStep(r) \/ LogoutStep(r)

Next ==
  \/ \E r \in Reqs : Start(r) \/ Step(r) \/ Fail(r)
  \/ Crash
  \/ Tick

Spec == Init /\ [][Next]_vars

-----------------------------------------------------------------------------
\* Properties.

\* get_by_email reads with scalar_one_or_none, which raises on two rows: however
\* registrations interleave, an address has one account.
OneAccountPerEmail ==
  \A i, j \in Ids :
    users[i].status = "live" /\ users[j].status = "live" /\ users[i].email = users[j].email
    => i = j

\* "Rotate: revoke old, issue new pair" (app/services/auth.py:88), as far as it
\* goes with concurrent requests: of a login and the exchanges that follow it one
\* token is valid at most, unless an exchange had selected its token before
\* another request's revocation of it committed.
OneValidTokenPerFamily ==
  \A s, t \in Tokens :
    tokens[s].status = "valid" /\ tokens[t].status = "valid"
    /\ tokens[s].family = tokens[t].family => s = t

\* Whatever fails between the UPDATE and the INSERT, a token that was exchanged
\* is revoked when its heir is stored.
HeirsReplaceTheirParents ==
  \A t \in Tokens : Stored(t) /\ tokens[t].parent # None
    => tokens[tokens[t].parent].status = "revoked"

\* And a user loses a valid token only by logging out, or for a valid heir.
RevokedByLogoutOrExchange ==
  [][\A t \in Tokens :
       tokens[t].status = "valid" /\ tokens'[t].status # "valid" =>
         \/ \E r \in Reqs : pc[r] = "commit_logout" /\ old[r] = t
         \/ \E c \in Tokens : /\ tokens[c].status # "valid"
                              /\ tokens'[c].status = "valid"
                              /\ tokens'[c].parent = t]_vars

=============================================================================
