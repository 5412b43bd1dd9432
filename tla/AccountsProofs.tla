--------------------------- MODULE AccountsProofs ---------------------------
(***************************************************************************)
(* Theorems about Accounts, for every set of users, addresses and          *)
(* requests, every lifetime of tokens and every bound on the clock.        *)
(***************************************************************************)
EXTENDS Accounts, TLAPS

Pcs == {"idle"} \cup RegisterPcs \cup LoginPcs \cup RefreshPcs \cup LogoutPcs

\* A request that has inserted a token and not committed.
InsertedPcs == {"commit_login", "commit_refresh"}

-----------------------------------------------------------------------------
\* The operands a request has at each await.
Placed ==
  \A r \in Reqs :
    /\ pc[r] \in RegisterPcs => user[r] \in Ids
    /\ pc[r] \in {"insert_first", "commit_login", "insert_next", "commit_refresh"} => new[r] \in Tokens
    /\ pc[r] \in {"idle"} \cup LoginPcs => old[r] = None
    /\ pc[r] \in RefreshPcs \cup LogoutPcs => old[r] \in Tokens /\ Stored(old[r])

\* A registration owns its user, and from the insert on the user's row.
RegistrarsOwn ==
  /\ \A r \in Reqs :
       /\ pc[r] \in {"email_exists", "insert_user"} => users[user[r]].status = "unborn"
       /\ pc[r] = "commit_register" => users[user[r]].status = "pending"
  /\ \A q, r \in Reqs : pc[q] \in RegisterPcs /\ pc[r] \in RegisterPcs /\ user[q] = user[r] => q = r

\* The unique index on addresses covers rows that are not committed.
AddressesUnique ==
  \A i, j \in Ids :
    /\ users[i].status \in {"pending", "live"} /\ users[j].status \in {"pending", "live"}
    /\ users[i].email = users[j].email
    => i = j

\* The lock of a token's row has one holder.
LocksExclusive ==
  \A q, r \in Reqs : HoldsRow(q) /\ HoldsRow(r) /\ old[q] = old[r] => q = r

\* Until it commits, an inserted token is its request's alone and tells where it came from.
InsertersOwn ==
  /\ \A r \in Reqs : pc[r] \in InsertedPcs =>
       tokens[new[r]].status = "pending" /\ tokens[new[r]].parent = old[r]
  /\ \A q, r \in Reqs :
       pc[q] \in InsertedPcs /\ pc[r] \in InsertedPcs /\ new[q] = new[r] => q = r

\* A family is named after a token that was stored first.
FoundersStored ==
  \A t \in Tokens : tokens[t].status # "absent" =>
    /\ tokens[t].family \in Tokens
    /\ tokens[t].family = t \/ Stored(tokens[t].family)

\* A token that waits for its commit will be the only valid one of its family: no other
\* one waits, and what is valid is what it replaces.
NextOfFamily ==
  /\ \A q, r \in Reqs :
       /\ pc[q] \in InsertedPcs /\ pc[r] \in InsertedPcs
       /\ tokens[new[q]].family = tokens[new[r]].family
       => q = r
  /\ \A r \in Reqs, s \in Tokens :
       /\ pc[r] \in InsertedPcs /\ tokens[s].status = "valid"
       /\ tokens[s].family = tokens[new[r]].family
       => s = old[r]

UsersInv  == RegistrarsOwn /\ AddressesUnique
TokensInv == /\ LocksExclusive /\ InsertersOwn /\ FoundersStored /\ NextOfFamily
             /\ OneValidTokenPerFamily /\ HeirsReplaceTheirParents

Inv == TypeOK /\ Placed /\ UsersInv /\ TokensInv

-----------------------------------------------------------------------------
\* A request moves its own program counter and operands only.
LEMMA OwnOperands ==
  ASSUME TypeOK, NEW r \in Reqs, NEW q \in Reqs \ {r}, Start(r) \/ Step(r) \/ Fail(r)
  PROVE  /\ pc'[q] = pc[q] /\ user'[q] = user[q] /\ email'[q] = email[q]
         /\ old'[q] = old[q] /\ new'[q] = new[q]
<1>. USE DEF Goto, Answer, Refuse, Pass, TypeOK
<1>1. CASE Start(r)
  BY <1>1 DEF Start, StartRegister, StartLogin, StartRefresh, StartLogout, StartWith
<1>2. CASE RegisterStep(r)
  BY <1>2 DEF RegisterStep, EmailExists, InsertUser, CommitRegister
<1>3. CASE LoginStep(r)
  BY <1>3 DEF LoginStep, GetByEmail, InsertFirst, InsertToken, CommitLogin
<1>4. CASE RefreshStep(r)
  BY <1>4 DEF RefreshStep, GetByHash, Revoke, InsertNext, InsertToken, CommitRefresh
<1>5. CASE LogoutStep(r)
  BY <1>5 DEF LogoutStep, LogoutGet, LogoutRevoke, CommitLogout
<1>6. CASE Fail(r)
  BY <1>6 DEF Fail
<1>. QED
  BY <1>1, <1>2, <1>3, <1>4, <1>5, <1>6 DEF Step

\* Where a step takes its own request: to the end, or one await further.
LEMMA Courses ==
  ASSUME TypeOK, NEW r \in Reqs, Step(r), pc'[r] # "idle"
  PROVE  /\ user' = user \/ pc[r] = "get_by_email"
         /\ UNCHANGED <<email, old>>
         /\ \/ pc[r] = "email_exists" /\ pc'[r] = "insert_user"
            \/ pc[r] = "insert_user" /\ pc'[r] = "commit_register"
            \/ pc[r] = "get_by_email" /\ pc'[r] = "insert_first" /\ GetByEmail(r)
            \/ pc[r] = "insert_first" /\ pc'[r] = "commit_login" /\ new' = new
            \/ pc[r] = "get_by_hash" /\ pc'[r] = "revoke"
            \/ pc[r] = "revoke" /\ pc'[r] = "insert_next" /\ Revoke(r)
            \/ pc[r] = "insert_next" /\ pc'[r] = "commit_refresh" /\ new' = new
            \/ pc[r] = "logout_get" /\ pc'[r] = "logout_revoke"
            \/ pc[r] = "logout_revoke" /\ pc'[r] = "commit_logout" /\ ~RowBusy(r)
<1>. USE DEF Goto, Answer, Refuse, Pass, TypeOK
<1>1. CASE RegisterStep(r)
  BY <1>1 DEF RegisterStep, EmailExists, InsertUser, CommitRegister
<1>2. CASE LoginStep(r)
  BY <1>2 DEF LoginStep, GetByEmail, InsertFirst, InsertToken, CommitLogin
<1>3. CASE RefreshStep(r)
  BY <1>3 DEF RefreshStep, GetByHash, Revoke, InsertNext, InsertToken, CommitRefresh
<1>4. CASE LogoutStep(r)
  BY <1>4 DEF LogoutStep, LogoutGet, LogoutRevoke, CommitLogout
<1>. QED
  BY <1>1, <1>2, <1>3, <1>4 DEF Step

\* A request that has ended holds nothing.
LEMMA Endings ==
  ASSUME TypeOK, NEW r \in Reqs, Step(r), pc'[r] = "idle"
  PROVE  old'[r] = None /\ new'[r] = None /\ user'[r] = None
<1>. USE DEF Goto, Answer, Refuse, Pass, TypeOK
<1>1. CASE RegisterStep(r)
  BY <1>1 DEF RegisterStep, EmailExists, InsertUser, CommitRegister
<1>2. CASE LoginStep(r)
  BY <1>2 DEF LoginStep, GetByEmail, InsertFirst, InsertToken, CommitLogin
<1>3. CASE RefreshStep(r)
  BY <1>3 DEF RefreshStep, GetByHash, Revoke, InsertNext, InsertToken, CommitRefresh
<1>4. CASE LogoutStep(r)
  BY <1>4 DEF LogoutStep, LogoutGet, LogoutRevoke, CommitLogout
<1>. QED
  BY <1>1, <1>2, <1>3, <1>4 DEF Step

-----------------------------------------------------------------------------
\* What a step does to the tokens: nothing, a rollback, an insert or a commit.
TokenSteps(r) ==
  \/ InsertFirst(r) /\ pc'[r] = "commit_login"
  \/ InsertNext(r) /\ pc'[r] = "commit_refresh"
  \/ CommitLogin(r) \/ CommitRefresh(r) \/ CommitLogout(r)

LEMMA TokensChange ==
  ASSUME TypeOK, NEW r \in Reqs, Start(r) \/ Step(r)
  PROVE  \/ UNCHANGED tokens /\ pc'[r] \notin InsertedPcs
         \/ TokenSteps(r)
<1>. USE DEF Goto, Answer, Refuse, Pass, TypeOK, TokenSteps, InsertedPcs
<1>1. CASE Start(r)
  BY <1>1 DEF Start, StartRegister, StartLogin, StartRefresh, StartLogout, StartWith
<1>2. CASE RegisterStep(r)
  BY <1>2 DEF RegisterStep, EmailExists, InsertUser, CommitRegister
<1>3. CASE LoginStep(r)
  BY <1>3 DEF LoginStep, GetByEmail, InsertFirst, InsertToken
<1>4. CASE RefreshStep(r)
  BY <1>4 DEF RefreshStep, GetByHash, Revoke, InsertNext, InsertToken
<1>5. CASE LogoutStep(r)
  BY <1>5 DEF LogoutStep, LogoutGet, LogoutRevoke
<1>. QED
  BY <1>1, <1>2, <1>3, <1>4, <1>5 DEF Step

-----------------------------------------------------------------------------
\* A row whose status is set is a row.
LEMMA StatusTyped ==
  ASSUME NEW f \in [Tokens -> TokenRow], NEW t \in Tokens, NEW v \in {"valid", "revoked"}
  PROVE  /\ [f EXCEPT ![t].status = v] \in [Tokens -> TokenRow]
         /\ \A s \in Tokens : [f EXCEPT ![t].status = v][s] = IF s = t THEN [f[t] EXCEPT !.status = v] ELSE f[s]
<1>1. [f[t] EXCEPT !.status = v] \in TokenRow
  BY DEF TokenRow
<1>. QED
  BY <1>1

\* Types.  Operands are tokens and users only at the awaits that use them, so types go
\* with Placed.
LEMMA TypeStep ==
  ASSUME TypeOK, Placed, [Next]_vars
  PROVE  TypeOK'
<1>. USE ClockConstants DEF Goto, Answer, Refuse, Pass, TypeOK
<1>1. ASSUME NEW r \in Reqs, Start(r) PROVE TypeOK'
  BY <1>1 DEF Start, StartRegister, StartLogin, StartRefresh, StartLogout, StartWith,
              RegisterPcs, LoginPcs, RefreshPcs, LogoutPcs
<1>2. ASSUME NEW r \in Reqs, RegisterStep(r) PROVE TypeOK'
  <2>. USE DEF RegisterPcs
  <2>1. CASE EmailExists(r)
    BY <2>1 DEF EmailExists
  <2>2. CASE InsertUser(r)
    BY <2>2 DEF InsertUser, UserRow
  <2>3. CASE CommitRegister(r)
    <3>1. users' \in [Ids -> UserRow]
      <4>1. user[r] \in Ids
        BY <2>3 DEF CommitRegister, Placed
      <4>2. [users[user[r]] EXCEPT !.status = "live"] \in UserRow
        BY <4>1 DEF UserRow
      <4>. QED
        BY <2>3, <4>1, <4>2 DEF CommitRegister
    <3>. QED
      BY <2>3, <3>1 DEF CommitRegister
  <2>. QED
    BY <1>2, <2>1, <2>2, <2>3 DEF RegisterStep
<1>3. ASSUME NEW r \in Reqs, NEW p \in Tokens \cup {None}, NEW f \in Tokens \cup {None}, NEW c \in InsertedPcs,
             InsertToken(r, p, f, c), new[r] \in Tokens
      PROVE  TypeOK'
  <2>1. new[r].born + Lifetime \in Nat /\ new[r].born + Lifetime + 1 \in Nat
    BY <1>3 DEF Tokens
  <2>2. tokens' \in [Tokens -> TokenRow]
    <3>1. \A late \in {0, 1} :
            [status |-> "pending", expires |-> new[r].born + Lifetime + late,
             parent |-> p, family |-> f] \in TokenRow
      BY <1>3, <2>1 DEF TokenRow
    <3>. QED
      BY <1>3, <3>1 DEF InsertToken
  <2>3. pc' \in [Reqs -> Pcs]
    BY <1>3 DEF InsertToken, InsertedPcs, Pcs, LoginPcs, RefreshPcs
  <2>. QED
    BY <1>3, <2>2, <2>3 DEF InsertToken, Pcs
<1>4. ASSUME NEW r \in Reqs, LoginStep(r) PROVE TypeOK'
  <2>. USE DEF LoginPcs
  <2>1. CASE GetByEmail(r)
    <3>1. \A i \in Ids : [user |-> i, born |-> now] \in Tokens
      BY DEF Tokens
    <3>. QED
      BY <2>1, <3>1 DEF GetByEmail
  <2>2. CASE InsertFirst(r)
    BY <2>2, <1>3 DEF InsertFirst, Placed, InsertedPcs
  <2>3. CASE CommitLogin(r)
    <3>1. new[r] \in Tokens
      BY <2>3 DEF CommitLogin, Placed
    <3>2. tokens' \in [Tokens -> TokenRow]
      BY <2>3, <3>1, StatusTyped DEF CommitLogin
    <3>. QED
      BY <2>3, <3>2 DEF CommitLogin
  <2>. QED
    BY <1>4, <2>1, <2>2, <2>3 DEF LoginStep
<1>5. ASSUME NEW r \in Reqs, RefreshStep(r) PROVE TypeOK'
  <2>. USE DEF RefreshPcs
  <2>1. CASE GetByHash(r)
    BY <2>1 DEF GetByHash
  <2>2. CASE Revoke(r)
    BY <2>2 DEF Revoke, Tokens, Placed
  <2>3. CASE InsertNext(r)
    <3>1. old[r] \in Tokens /\ new[r] \in Tokens
      BY <2>3 DEF InsertNext, Placed
    <3>2. tokens[old[r]].family \in Tokens \cup {None}
      BY <3>1 DEF TokenRow
    <3>. QED
      BY <2>3, <3>1, <3>2, <1>3 DEF InsertNext, InsertedPcs
  <2>4. CASE CommitRefresh(r)
    <3>1. old[r] \in Tokens /\ new[r] \in Tokens
      BY <2>4 DEF CommitRefresh, Placed
    <3>2. tokens' \in [Tokens -> TokenRow]
      <4>. DEFINE f == [tokens EXCEPT ![old[r]].status = "revoked"]
      <4>1. f \in [Tokens -> TokenRow]
        BY <3>1, StatusTyped
      <4>2. tokens' = [f EXCEPT ![new[r]].status = "valid"]
        BY <2>4 DEF CommitRefresh
      <4>. HIDE DEF f
      <4>. QED
        BY <3>1, <4>1, <4>2, StatusTyped
    <3>. QED
      BY <2>4, <3>2 DEF CommitRefresh
  <2>. QED
    BY <1>5, <2>1, <2>2, <2>3, <2>4 DEF RefreshStep
<1>6. ASSUME NEW r \in Reqs, LogoutStep(r) PROVE TypeOK'
  <2>. USE DEF LogoutPcs
  <2>1. CASE LogoutGet(r) \/ LogoutRevoke(r)
    BY <2>1 DEF LogoutGet, LogoutRevoke
  <2>2. CASE CommitLogout(r)
    <3>1. old[r] \in Tokens
      BY <2>2 DEF CommitLogout, Placed
    <3>2. tokens' \in [Tokens -> TokenRow]
      BY <2>2, <3>1, StatusTyped DEF CommitLogout
    <3>. QED
      BY <2>2, <3>2 DEF CommitLogout
  <2>. QED
    BY <1>6, <2>1, <2>2 DEF LogoutStep
<1>7. ASSUME NEW r \in Reqs, Fail(r) PROVE TypeOK'
  <2>1. \A i \in Ids : UserRolledBack(i) \in UserRow
    BY DEF UserRolledBack, UserRow
  <2>2. \A t \in Tokens : TokenRolledBack(t) \in TokenRow
    BY DEF TokenRolledBack, TokenRow, NoRow
  <2>3. pc[r] = "commit_register" => user[r] \in Ids
    BY DEF Placed, RegisterPcs
  <2>4. pc[r] \in InsertedPcs => new[r] \in Tokens
    BY DEF Placed, InsertedPcs
  <2>. QED
    BY <1>7, <2>1, <2>2, <2>3, <2>4 DEF Fail, InsertedPcs
<1>8. CASE Crash
  BY <1>8 DEF Crash, UserRolledBack, TokenRolledBack, UserRow, TokenRow, NoRow
<1>9. CASE Tick \/ UNCHANGED vars
  BY <1>9 DEF Tick, vars
<1>. QED
  BY <1>1, <1>2, <1>4, <1>5, <1>6, <1>7, <1>8, <1>9 DEF Next, Step

\* What is stored stays stored: commits revoke or validate, rollbacks undo inserts.
LEMMA StoredStays ==
  ASSUME TypeOK, Placed, InsertersOwn, [Next]_vars, NEW t \in Tokens, Stored(t)
  PROVE  Stored(t)'
<1>. USE DEF Stored, TypeOK
<1>1. ASSUME NEW r \in Reqs, TokenSteps(r) PROVE Stored(t)'
  <2>1. CASE InsertFirst(r) \/ InsertNext(r)
    BY <2>1 DEF InsertFirst, InsertNext, InsertToken, Refuse
  <2>2. CASE CommitLogin(r) \/ CommitRefresh(r) \/ CommitLogout(r)
    BY <2>2 DEF CommitLogin, CommitRefresh, CommitLogout, TokenRow
  <2>. QED
    BY <1>1, <2>1, <2>2 DEF TokenSteps
<1>2. ASSUME NEW r \in Reqs, Fail(r) PROVE Stored(t)'
  BY <1>2 DEF Fail, TokenRolledBack, InsertersOwn, InsertedPcs
<1>3. CASE Crash
  BY <1>3 DEF Crash, TokenRolledBack
<1>4. CASE Tick \/ UNCHANGED vars
  BY <1>4 DEF Tick, vars
<1>. QED
  BY <1>1, <1>2, <1>3, <1>4, TokensChange DEF Next

\* Operands stay with their request; a token that was stored when it was sent stays so.
LEMMA PlacedStep ==
  ASSUME TypeOK, Placed, InsertersOwn, [Next]_vars
  PROVE  Placed'
<1>1. SUFFICES ASSUME NEW r \in Reqs
               PROVE  /\ pc'[r] \in RegisterPcs => user'[r] \in Ids
                      /\ pc'[r] \in {"insert_first", "commit_login", "insert_next", "commit_refresh"} =>
                           new'[r] \in Tokens
                      /\ pc'[r] \in {"idle"} \cup LoginPcs => old'[r] = None
                      /\ pc'[r] \in RefreshPcs \cup LogoutPcs =>
                           old'[r] \in Tokens /\ tokens'[old'[r]].status \in {"valid", "revoked"}
  BY DEF Placed, Stored
<1>. USE DEF RegisterPcs, LoginPcs, RefreshPcs, LogoutPcs
<1>2. \A t \in Tokens : Stored(t) => tokens'[t].status \in {"valid", "revoked"}
  BY StoredStays DEF Stored
<1>3. CASE Start(r)
  <2>1. CASE StartRegister(r)
    BY <2>1 DEF StartRegister, Goto, TypeOK
  <2>2. CASE StartLogin(r)
    BY <2>2 DEF StartLogin, Goto, TypeOK, Placed
  <2>3. CASE StartRefresh(r) \/ StartLogout(r)
    BY <2>3, <1>2 DEF StartRefresh, StartLogout, StartWith, Goto, TypeOK
  <2>. QED
    BY <1>3, <2>1, <2>2, <2>3 DEF Start
<1>4. CASE Step(r)
  <2>1. CASE pc'[r] = "idle"
    BY <2>1, <1>4, Endings
  <2>2. CASE GetByEmail(r) /\ pc'[r] # "idle"
    BY <2>2 DEF GetByEmail, Refuse, Answer, Goto, TypeOK, Tokens, Placed
  <2>3. CASE Revoke(r)
    BY <2>3, <1>2 DEF Revoke, Goto, TypeOK, Tokens, Placed
  <2>4. CASE ~GetByEmail(r) /\ ~Revoke(r) /\ pc'[r] # "idle"
    BY <2>4, <1>2, <1>4, Courses DEF Placed
  <2>. QED
    BY <2>1, <2>2, <2>3, <2>4
<1>5. CASE Fail(r)
  BY <1>5 DEF Fail, Answer, Goto, TypeOK
<1>6. CASE \E q \in Reqs \ {r} : Start(q) \/ Step(q) \/ Fail(q)
  BY <1>6, <1>2, OwnOperands DEF Placed
<1>7. CASE Crash
  BY <1>7 DEF Crash
<1>8. CASE Tick \/ UNCHANGED vars
  BY <1>8, <1>2 DEF Tick, vars, Placed
<1>. QED
  BY <1>3, <1>4, <1>5, <1>6, <1>7, <1>8 DEF Next

-----------------------------------------------------------------------------
\* Users.

\* A row that is neither inserted nor committed by the step is as before or rolled back.
LEMMA UsersStep ==
  ASSUME TypeOK, Placed, UsersInv, [Next]_vars
  PROVE  UsersInv'
<1>. USE DEF RegisterPcs
<1>0. ASSUME NEW r \in Reqs, Start(r) \/ Step(r), UNCHANGED users, ~StartRegister(r)
      PROVE  UsersInv'
  <2>1. \A q \in Reqs \ {r} : pc'[q] = pc[q] /\ user'[q] = user[q] /\ email'[q] = email[q]
    BY <1>0, OwnOperands
  <2>2. \/ pc'[r] \notin RegisterPcs
        \/ /\ pc[r] = "email_exists" /\ pc'[r] = "insert_user"
           /\ user'[r] = user[r]
    <3>1. CASE Start(r)
      BY <1>0, <3>1 DEF Start, StartLogin, StartRefresh, StartLogout, StartWith, Goto, TypeOK
    <3>2. CASE InsertUser(r)
      BY <1>0, <3>2 DEF InsertUser, Refuse, Answer, Goto, TypeOK, UserRow, UsersInv, RegistrarsOwn,
                        Placed
    <3>3. CASE Step(r) /\ pc'[r] # "idle" /\ ~InsertUser(r)
      <4>1. pc'[r] = "commit_register" => FALSE
        BY <3>3, Courses DEF Step, RegisterStep, EmailExists, CommitRegister, LoginStep, GetByEmail,
           InsertFirst, CommitLogin, RefreshStep, GetByHash, Revoke, InsertNext, CommitRefresh,
           LogoutStep, LogoutGet, LogoutRevoke, CommitLogout
      <4>. QED
        BY <3>3, <4>1, Courses
    <3>. QED
      BY <1>0, <3>1, <3>2, <3>3
  <2>. QED
    BY <1>0, <2>1, <2>2 DEF UsersInv, RegistrarsOwn, AddressesUnique
<1>1. ASSUME NEW r \in Reqs, StartRegister(r) PROVE UsersInv'
  BY <1>1 DEF StartRegister, Goto, TypeOK, UsersInv, RegistrarsOwn, AddressesUnique
<1>2. ASSUME NEW r \in Reqs, InsertUser(r), ~UNCHANGED users PROVE UsersInv'
  <2>1. /\ pc[r] = "insert_user" /\ user[r] \in Ids
        /\ users' = [users EXCEPT ![user[r]] = [status |-> "pending", email |-> email[r]]]
        /\ pc' = [pc EXCEPT ![r] = "commit_register"]
        /\ UNCHANGED <<user, email>>
        /\ \A i \in Ids : users[i] # [status |-> "pending", email |-> email[r]]
        /\ \A i \in Ids : users[i] # [status |-> "live", email |-> email[r]]
    BY <1>2 DEF InsertUser, Refuse, Goto, EmailTaken, Placed
  <2>2. \A i \in Ids : users[i].status \in {"pending", "live"} => users[i].email # email[r]
    <3>1. \A i \in Ids : users[i] = [status |-> users[i].status, email |-> users[i].email]
      BY DEF TypeOK, UserRow
    <3>. QED
      BY <2>1, <3>1
  <2>3. AddressesUnique'
    BY <2>1, <2>2 DEF AddressesUnique, UsersInv, TypeOK
  <2>4. RegistrarsOwn'
    BY <2>1 DEF RegistrarsOwn, UsersInv, TypeOK
  <2>. QED
    BY <2>3, <2>4 DEF UsersInv
<1>3. ASSUME NEW r \in Reqs, CommitRegister(r) PROVE UsersInv'
  <2>1. /\ pc[r] = "commit_register" /\ user[r] \in Ids
        /\ users' = [users EXCEPT ![user[r]].status = "live"]
        /\ pc' = [pc EXCEPT ![r] = "idle"]
        /\ user' = [user EXCEPT ![r] = None]
    BY <1>3 DEF CommitRegister, Answer, Goto, Placed
  <2>2. AddressesUnique'
    BY <2>1 DEF AddressesUnique, RegistrarsOwn, UsersInv, TypeOK, UserRow
  <2>3. RegistrarsOwn'
    BY <2>1 DEF RegistrarsOwn, UsersInv, TypeOK, UserRow
  <2>. QED
    BY <2>2, <2>3 DEF UsersInv
<1>4. ASSUME NEW r \in Reqs, Fail(r) PROVE UsersInv'
  <2>1. \A i \in Ids : users'[i] = users[i] \/ users'[i].status = "void"
    BY <1>4 DEF Fail, UserRolledBack, TypeOK, UserRow
  <2>2. pc' = [pc EXCEPT ![r] = "idle"] /\ user' = [user EXCEPT ![r] = None]
    BY <1>4 DEF Fail, Answer, Goto
  <2>3. \A q \in Reqs \ {r} : pc[q] \in RegisterPcs => user[q] \in Ids /\ users'[user[q]] = users[user[q]]
    BY <1>4 DEF Fail, UsersInv, RegistrarsOwn, Placed, TypeOK
  <2>4. AddressesUnique'
    BY <2>1 DEF AddressesUnique, UsersInv
  <2>5. RegistrarsOwn'
    BY <2>2, <2>3 DEF RegistrarsOwn, UsersInv, TypeOK
  <2>. QED
    BY <2>4, <2>5 DEF UsersInv
<1>5. CASE Crash
  <2>1. \A i \in Ids : users'[i] = users[i] \/ users'[i].status = "void"
    BY <1>5 DEF Crash, UserRolledBack, TypeOK, UserRow
  <2>2. \A r \in Reqs : pc'[r] = "idle"
    BY <1>5 DEF Crash
  <2>. QED
    BY <2>1, <2>2 DEF UsersInv, AddressesUnique, RegistrarsOwn
<1>6. CASE Tick \/ UNCHANGED vars
  BY <1>6 DEF Tick, vars, UsersInv, AddressesUnique, RegistrarsOwn
<1>7. ASSUME NEW r \in Reqs, Start(r) \/ Step(r)
      PROVE  UNCHANGED users \/ InsertUser(r) \/ CommitRegister(r)
  BY <1>7 DEF Start, StartRegister, StartLogin, StartRefresh, StartLogout, StartWith, Step,
     RegisterStep, EmailExists, LoginStep, GetByEmail, InsertFirst, InsertToken, CommitLogin,
     RefreshStep, GetByHash, Revoke, InsertNext, CommitRefresh, LogoutStep, LogoutGet, LogoutRevoke,
     CommitLogout, Refuse, Pass
<1>. QED
  BY <1>0, <1>1, <1>2, <1>3, <1>4, <1>5, <1>6, <1>7 DEF Next

-----------------------------------------------------------------------------
\* Tokens.

\* A request comes to hold a row by waiting until nobody else does.
LEMMA LocksStep ==
  ASSUME TypeOK, LocksExclusive, [Next]_vars
  PROVE  LocksExclusive'
<1>1. ASSUME NEW r \in Reqs, Start(r) \/ Step(r) \/ Fail(r) PROVE LocksExclusive'
  <2>1. \A q \in Reqs \ {r} : pc'[q] = pc[q] /\ old'[q] = old[q]
    BY <1>1, OwnOperands
  <2>2. HoldsRow(r)' =>
          /\ old'[r] = old[r]
          /\ HoldsRow(r) \/ ~RowBusy(r)
    <3>1. CASE Start(r)
      BY <3>1 DEF Start, StartRegister, StartLogin, StartRefresh, StartLogout, StartWith, Goto,
                  HoldsRow, TypeOK
    <3>2. CASE Step(r) /\ pc'[r] # "idle"
      BY <3>2, Courses DEF HoldsRow, Revoke
    <3>3. CASE Fail(r)
      BY <3>3 DEF Fail, Answer, Goto, HoldsRow, TypeOK
    <3>. QED
      BY <1>1, <3>1, <3>2, <3>3 DEF HoldsRow
  <2>. QED
    BY <2>1, <2>2 DEF LocksExclusive, RowBusy, HoldsRow
<1>2. CASE Crash
  BY <1>2 DEF Crash, LocksExclusive, HoldsRow
<1>3. CASE Tick \/ UNCHANGED vars
  BY <1>3 DEF Tick, vars, LocksExclusive, HoldsRow
<1>. QED
  BY <1>1, <1>2, <1>3 DEF Next

\* The invariants of tokens, the locks apart.
Lines == /\ InsertersOwn /\ FoundersStored /\ NextOfFamily
         /\ OneValidTokenPerFamily /\ HeirsReplaceTheirParents

\* A step that leaves the tokens alone and inserts nothing.
LEMMA LinesKept ==
  ASSUME Lines, UNCHANGED tokens,
         \A r \in Reqs : pc'[r] \in InsertedPcs =>
           pc[r] \in InsertedPcs /\ new'[r] = new[r] /\ old'[r] = old[r]
  PROVE  Lines'
BY DEF Lines, InsertersOwn, FoundersStored, NextOfFamily, OneValidTokenPerFamily,
       HeirsReplaceTheirParents, Stored

\* A rollback leaves what is committed as it is.
LEMMA RolledBackTokens ==
  \A t \in Tokens : \/ TokenRolledBack(t) = tokens[t]
                    \/ tokens[t].status = "pending" /\ TokenRolledBack(t) = NoRow
<1>1. ASSUME NEW t \in Tokens, tokens[t].status = "pending" PROVE TokenRolledBack(t) = NoRow
  BY <1>1 DEF TokenRolledBack
<1>2. ASSUME NEW t \in Tokens, tokens[t].status # "pending" PROVE TokenRolledBack(t) = tokens[t]
  BY <1>2 DEF TokenRolledBack
<1>. QED
  BY <1>1, <1>2

\* Rollbacks take away what has not been committed.
LEMMA LinesRolledBack ==
  ASSUME TypeOK, Lines,
         \A t \in Tokens : \/ tokens'[t] = tokens[t]
                           \/ tokens[t].status = "pending" /\ tokens'[t] = NoRow,
         \A r \in Reqs : pc'[r] \in InsertedPcs =>
           /\ pc[r] \in InsertedPcs /\ new'[r] = new[r] /\ old'[r] = old[r]
           /\ new[r] \in Tokens /\ tokens'[new[r]] = tokens[new[r]]
  PROVE  Lines'
<1>. USE DEF Lines
<1>1. \A t \in Tokens : Stored(t) => tokens'[t] = tokens[t]
  BY DEF Stored
<1>2. \A t \in Tokens : tokens'[t].status # "absent" => tokens'[t] = tokens[t]
  BY DEF NoRow
<1>3. InsertersOwn'
  BY DEF InsertersOwn
<1>4. FoundersStored'
  BY <1>1, <1>2 DEF FoundersStored, Stored
<1>5. NextOfFamily'
  BY <1>2 DEF NextOfFamily
<1>6. OneValidTokenPerFamily'
  BY <1>2 DEF OneValidTokenPerFamily
<1>7. HeirsReplaceTheirParents'
  BY <1>1, <1>2 DEF HeirsReplaceTheirParents, Stored, TypeOK, TokenRow
<1>. QED
  BY <1>3, <1>4, <1>5, <1>6, <1>7

\* An insert: the new token's family holds no other one that waits, and nothing valid but
\* the token it replaces.
LEMMA LinesInserted ==
  ASSUME TypeOK, Placed, Lines, NEW r \in Reqs, NEW t \in Tokens, NEW f \in Tokens,
         NEW there \in InsertedPcs,
         t = new[r], tokens[t].status = "absent", pc[r] \notin InsertedPcs,
         /\ \A s \in Tokens \ {t} : tokens'[s] = tokens[s]
         /\ tokens'[t].status = "pending" /\ tokens'[t].parent = old[r] /\ tokens'[t].family = f,
         pc' = [pc EXCEPT ![r] = there], UNCHANGED <<old, new>>,
         \/ f = t
         \/ /\ tokens[old[r]].status = "valid" /\ tokens[old[r]].family = f /\ old[r] \in Tokens
            /\ \A q \in Reqs : pc[q] \in InsertedPcs => old[q] # old[r]
  PROVE  Lines'
<1>. USE DEF Lines
<1>1. f = t => \A s \in Tokens \ {t} : tokens[s].status # "absent" => tokens[s].family # t
  BY DEF FoundersStored, Stored
<1>2. \A q \in Reqs : pc[q] \in InsertedPcs => new[q] \in Tokens \ {t} /\ tokens[new[q]].status = "pending"
  BY DEF InsertersOwn, Placed, InsertedPcs
<1>3. InsertersOwn'
  BY <1>2 DEF InsertersOwn, TypeOK
<1>4. FoundersStored'
  BY DEF FoundersStored, Stored
<1>5. \A q \in Reqs : pc[q] \in InsertedPcs => tokens[new[q]].family # f
  <2>1. CASE f = t
    BY <1>1, <1>2, <2>1
  <2>2. CASE f # t
    BY <1>2, <2>2 DEF NextOfFamily
  <2>. QED
    BY <2>1, <2>2
<1>6. \A s \in Tokens : tokens[s].status = "valid" /\ tokens[s].family = f => s = old[r]
  BY <1>1 DEF OneValidTokenPerFamily
<1>7. NextOfFamily'
  <2>1. \A q \in Reqs \ {r} : pc'[q] = pc[q]
    BY DEF TypeOK
  <2>2. \A q \in Reqs \ {r} : pc[q] \in InsertedPcs => tokens'[new[q]].family = tokens[new[q]].family
    BY <1>2
  <2>3. \A s \in Tokens : tokens'[s].status = "valid" => tokens'[s] = tokens[s]
    BY DEF TypeOK
  <2>. QED
    BY <1>5, <1>6, <2>1, <2>2, <2>3 DEF NextOfFamily
<1>8. OneValidTokenPerFamily'
  BY DEF OneValidTokenPerFamily
<1>9. HeirsReplaceTheirParents'
  BY DEF HeirsReplaceTheirParents, Stored, TypeOK, TokenRow
<1>. QED
  BY <1>3, <1>4, <1>7, <1>8, <1>9

\* A login, an exchange or a logout commits: its token becomes the valid one of its family,
\* and what it replaces is revoked with it.
LEMMA LinesCommitted ==
  ASSUME TypeOK, Placed, Lines, NEW r \in Reqs,
         CommitLogin(r) \/ CommitRefresh(r) \/ CommitLogout(r)
  PROVE  Lines'
<1>. USE DEF Lines
<1>1. /\ pc[r] \in InsertedPcs \cup {"commit_logout"}
      /\ pc'[r] \notin InsertedPcs
      /\ \A q \in Reqs \ {r} : pc'[q] = pc[q] /\ old'[q] = old[q] /\ new'[q] = new[q]
  BY DEF CommitLogin, CommitRefresh, CommitLogout, Answer, Goto, TypeOK, InsertedPcs
<1>2. \A s \in Tokens :
        /\ tokens'[s].parent = tokens[s].parent
        /\ tokens'[s].family = tokens[s].family
        /\ tokens'[s].status = IF pc[r] \in InsertedPcs /\ s = new[r] THEN "valid"
                              ELSE IF s = old[r] THEN "revoked" ELSE tokens[s].status
  <2>1. CASE CommitLogin(r)
    BY <2>1, NoneIsNothing DEF CommitLogin, InsertedPcs, TypeOK, TokenRow, Placed, LoginPcs
  <2>2. CASE CommitRefresh(r)
    BY <2>2 DEF CommitRefresh, InsertedPcs, TypeOK, TokenRow
  <2>3. CASE CommitLogout(r)
    BY <2>3 DEF CommitLogout, InsertedPcs, TypeOK, TokenRow
  <2>. QED
    BY <2>1, <2>2, <2>3
<1>3. /\ pc[r] \in InsertedPcs => new[r] \in Tokens /\ tokens[new[r]].status = "pending"
      /\ old[r] # None => old[r] \in Tokens /\ Stored(old[r])
  BY <1>1 DEF Placed, InsertersOwn, InsertedPcs, LoginPcs, RefreshPcs, LogoutPcs
<1>4. \A s \in Tokens : Stored(s) => Stored(s)'
  BY <1>2 DEF Stored
<1>5. \A q \in Reqs \ {r} : pc[q] \in InsertedPcs =>
        /\ new[q] \in Tokens /\ tokens[new[q]].status = "pending"
        /\ pc[r] \in InsertedPcs => new[q] # new[r]
        /\ new[q] # old[r]
  BY <1>3, NoneIsNothing DEF InsertersOwn, Placed, InsertedPcs, Stored
<1>6. InsertersOwn'
  BY <1>1, <1>2, <1>5 DEF InsertersOwn
<1>7. FoundersStored'
  <2>1. \A s \in Tokens : tokens'[s].status # "absent" => tokens[s].status # "absent"
    BY <1>2, <1>3, NoneIsNothing DEF Stored
  <2>. QED
    BY <1>2, <1>4, <2>1 DEF FoundersStored
<1>8. \A s \in Tokens : tokens'[s].status = "valid" =>
        \/ tokens[s].status = "valid" /\ s # old[r]
        \/ pc[r] \in InsertedPcs /\ s = new[r]
  BY <1>2
<1>9. NextOfFamily'
  <2>1. \A q \in Reqs \ {r} : pc[q] \in InsertedPcs =>
          tokens'[new[q]].family = tokens[new[q]].family
    BY <1>2, <1>5
  <2>2. \A q \in Reqs \ {r} : pc[q] \in InsertedPcs /\ pc[r] \in InsertedPcs =>
          tokens[new[q]].family # tokens[new[r]].family
    BY DEF NextOfFamily
  <2>3. \A q \in Reqs, s \in Tokens :
          pc'[q] \in InsertedPcs /\ tokens'[s].status = "valid"
          /\ tokens'[s].family = tokens'[new'[q]].family => s = old'[q]
    BY <1>1, <1>2, <1>8, <2>1, <2>2 DEF NextOfFamily
  <2>4. \A p, q \in Reqs :
          pc'[p] \in InsertedPcs /\ pc'[q] \in InsertedPcs
          /\ tokens'[new'[p]].family = tokens'[new'[q]].family => p = q
    BY <1>1, <2>1 DEF NextOfFamily
  <2>. QED
    BY <2>3, <2>4 DEF NextOfFamily
<1>10. OneValidTokenPerFamily'
  <2>1. \A s \in Tokens : tokens[s].status = "valid" /\ s # old[r] /\ pc[r] \in InsertedPcs
                         => tokens[s].family # tokens[new[r]].family
    BY DEF NextOfFamily
  <2>. QED
    BY <1>2, <1>3, <1>8, <2>1 DEF OneValidTokenPerFamily
<1>11. HeirsReplaceTheirParents'
  <2>1. SUFFICES ASSUME NEW t \in Tokens, Stored(t)', tokens[t].parent # None
                 PROVE  tokens'[tokens[t].parent].status = "revoked"
    BY <1>2 DEF HeirsReplaceTheirParents
  <2>2. tokens[t].parent \in Tokens
    BY <2>1 DEF TypeOK, TokenRow
  <2>3. CASE Stored(t)
    <3>1. tokens[tokens[t].parent].status = "revoked"
      BY <2>1, <2>3 DEF HeirsReplaceTheirParents
    <3>. QED
      BY <1>2, <1>3, <2>2, <3>1
  <2>4. CASE ~Stored(t)
    <3>1. pc[r] \in InsertedPcs /\ t = new[r]
      BY <1>2, <1>3, <2>1, <2>4, NoneIsNothing DEF Stored
    <3>2. tokens[t].parent = old[r] /\ old[r] # new[r]
      BY <1>3, <2>1, <3>1 DEF InsertersOwn, Stored
    <3>. QED
      BY <1>2, <2>2, <3>1, <3>2
  <2>. QED
    BY <2>3, <2>4
<1>. QED
  BY <1>6, <1>7, <1>9, <1>10, <1>11

LEMMA LinesStep ==
  ASSUME TypeOK, Placed, LocksExclusive, Lines, [Next]_vars
  PROVE  Lines'
<1>1. ASSUME NEW r \in Reqs, Start(r) \/ Step(r), UNCHANGED tokens, pc'[r] \notin InsertedPcs
      PROVE  Lines'
  BY <1>1, LinesKept, OwnOperands
<1>2. ASSUME NEW r \in Reqs, InsertFirst(r), pc'[r] = "commit_login" PROVE Lines'
  <2>1. /\ new[r] \in Tokens /\ old[r] = None /\ pc[r] = "insert_first"
        /\ tokens[new[r]].status = "absent"
    BY <1>2 DEF InsertFirst, InsertToken, Refuse, Answer, Goto, Placed, LoginPcs, TypeOK, TokenRow,
                Stored
  <2>2. /\ \A s \in Tokens \ {new[r]} : tokens'[s] = tokens[s]
        /\ tokens'[new[r]].status = "pending" /\ tokens'[new[r]].parent = None
        /\ tokens'[new[r]].family = new[r]
        /\ pc' = [pc EXCEPT ![r] = "commit_login"] /\ UNCHANGED <<old, new>>
    BY <1>2, <2>1 DEF InsertFirst, InsertToken, Refuse, Answer, Goto, TypeOK, Stored
  <2>. QED
    BY <2>1, <2>2, LinesInserted DEF InsertedPcs
<1>3. ASSUME NEW r \in Reqs, InsertNext(r), pc'[r] = "commit_refresh" PROVE Lines'
  <2>. DEFINE f == IF tokens[old[r]].status = "valid" THEN tokens[old[r]].family ELSE new[r]
  <2>1. /\ new[r] \in Tokens /\ old[r] \in Tokens /\ pc[r] = "insert_next"
        /\ tokens[new[r]].status = "absent"
    BY <1>3 DEF InsertNext, InsertToken, Refuse, Answer, Goto, Placed, RefreshPcs, TypeOK, TokenRow,
                Stored
  <2>2. /\ \A s \in Tokens \ {new[r]} : tokens'[s] = tokens[s]
        /\ tokens'[new[r]].status = "pending" /\ tokens'[new[r]].parent = old[r]
        /\ tokens'[new[r]].family = f
        /\ pc' = [pc EXCEPT ![r] = "commit_refresh"] /\ UNCHANGED <<old, new>>
    BY <1>3, <2>1 DEF InsertNext, InsertToken, Refuse, Answer, Goto, TypeOK, Stored
  <2>3. f \in Tokens
    BY <2>1 DEF Lines, FoundersStored
  <2>4. \A q \in Reqs : pc[q] \in InsertedPcs => old[q] # old[r]
    BY <2>1, NoneIsNothing DEF InsertedPcs, LocksExclusive, HoldsRow, Placed, LoginPcs
  <2>5. \/ f = new[r]
        \/ tokens[old[r]].status = "valid" /\ tokens[old[r]].family = f
    <3>1. CASE tokens[old[r]].status = "valid"
      BY <3>1
    <3>2. ASSUME ~(tokens[old[r]].status = "valid") PROVE f = new[r]
      BY <3>2
    <3>. QED
      BY <3>1, <3>2
  <2>. HIDE DEF f
  <2>. QED
    BY <2>1, <2>2, <2>3, <2>4, <2>5, LinesInserted DEF InsertedPcs
<1>4. ASSUME NEW r \in Reqs, Fail(r) PROVE Lines'
  <2>1. /\ \A q \in Reqs \ {r} : pc'[q] = pc[q] /\ new'[q] = new[q] /\ old'[q] = old[q]
        /\ pc'[r] = "idle"
    BY <1>4 DEF Fail, Answer, Goto, TypeOK
  <2>2. \A t \in Tokens : \/ tokens'[t] = tokens[t]
                          \/ pc[r] \in InsertedPcs /\ t = new[r] /\ tokens'[t] = TokenRolledBack(t)
    BY <1>4 DEF Fail, InsertedPcs, TypeOK, TokenRolledBack
  <2>3. \A q \in Reqs \ {r} : pc[q] \in InsertedPcs =>
          new[q] \in Tokens /\ tokens'[new[q]] = tokens[new[q]]
    BY <2>2 DEF Lines, InsertersOwn, Placed, InsertedPcs
  <2>4. \A t \in Tokens : \/ tokens'[t] = tokens[t]
                          \/ tokens[t].status = "pending" /\ tokens'[t] = NoRow
    BY <2>2, RolledBackTokens
  <2>. QED
    BY <2>1, <2>3, <2>4, LinesRolledBack DEF InsertedPcs
<1>5. CASE Crash
  <2>1. \A t \in Tokens : \/ tokens'[t] = tokens[t]
                          \/ tokens[t].status = "pending" /\ tokens'[t] = NoRow
    BY <1>5, RolledBackTokens DEF Crash
  <2>2. \A r \in Reqs : pc'[r] \notin InsertedPcs
    BY <1>5 DEF Crash, InsertedPcs
  <2>. QED
    BY <2>1, <2>2, LinesRolledBack
<1>6. CASE Tick \/ UNCHANGED vars
  BY <1>6, LinesKept DEF Tick, vars
<1>. QED
  BY <1>1, <1>2, <1>3, <1>4, <1>5, <1>6, TokensChange, LinesCommitted DEF Next, TokenSteps

-----------------------------------------------------------------------------
LEMMA InvInit == Init => Inv
<1>1. Init => TypeOK
  BY ClockConstants DEF Init, TypeOK, UserRow, TokenRow, NoRow
<1>2. Init => Placed /\ UsersInv /\ TokensInv
  BY DEF Init, Placed, UsersInv, RegistrarsOwn, AddressesUnique, TokensInv, LocksExclusive, InsertersOwn,
         FoundersStored, NextOfFamily, OneValidTokenPerFamily, HeirsReplaceTheirParents, HoldsRow,
         Stored, NoRow, RegisterPcs, LoginPcs, RefreshPcs, LogoutPcs, InsertedPcs
<1>. QED
  BY <1>1, <1>2 DEF Inv

LEMMA InvStep == Inv /\ [Next]_vars => Inv'
<1>1. TokensInv <=> LocksExclusive /\ Lines
  BY DEF TokensInv, Lines
<1>2. TokensInv' <=> LocksExclusive' /\ Lines'
  BY DEF TokensInv, Lines
<1>. QED
  BY <1>1, <1>2, TypeStep, PlacedStep, UsersStep, LocksStep, LinesStep DEF Inv, Lines

\* What accounts and tokens rest on, in every reachable state.
THEOREM Invariance == Spec => []Inv
  BY InvInit, InvStep, PTL DEF Spec

\* Every variable keeps its type.
THEOREM TypeCorrect == Spec => []TypeOK
<1>1. Inv => TypeOK
  BY DEF Inv
<1>. QED
  BY <1>1, Invariance, PTL

\* However registrations interleave, get_by_email finds one account at most.
THEOREM AddressesHaveOneAccount == Spec => []OneAccountPerEmail
<1>1. Inv => OneAccountPerEmail
  BY DEF Inv, UsersInv, AddressesUnique, OneAccountPerEmail
<1>. QED
  BY <1>1, Invariance, PTL

\* Of a login and the exchanges that follow it one token is valid at most.
THEOREM RotationLeavesOne == Spec => []OneValidTokenPerFamily
<1>1. Inv => OneValidTokenPerFamily
  BY DEF Inv, TokensInv
<1>. QED
  BY <1>1, Invariance, PTL

\* A stored heir has replaced its parent.
THEOREM ParentsAreRevoked == Spec => []HeirsReplaceTheirParents
<1>1. Inv => HeirsReplaceTheirParents
  BY DEF Inv, TokensInv
<1>. QED
  BY <1>1, Invariance, PTL

\* A valid token is lost to a logout, or to an heir that is valid from the same step on.
THEOREM NoTokenIsLost == Spec => RevokedByLogoutOrExchange
<1>1. ASSUME Inv, [Next]_vars, NEW t \in Tokens, tokens[t].status = "valid",
             tokens'[t].status # "valid"
      PROVE  \/ \E r \in Reqs : pc[r] = "commit_logout" /\ old[r] = t
             \/ \E c \in Tokens : /\ tokens[c].status # "valid"
                                  /\ tokens'[c].status = "valid"
                                  /\ tokens'[c].parent = t
  <2>. USE DEF TypeOK, TokenRow
  <2>0. TypeOK /\ Placed /\ InsertersOwn
    BY <1>1 DEF Inv, TokensInv
  <2>1. ASSUME NEW r \in Reqs, InsertFirst(r) \/ InsertNext(r) PROVE FALSE
    BY <1>1, <2>0, <2>1 DEF InsertFirst, InsertNext, InsertToken, Refuse, Stored
  <2>2. ASSUME NEW r \in Reqs, CommitLogin(r) PROVE FALSE
    BY <1>1, <2>0, <2>2 DEF CommitLogin
  <2>3. ASSUME NEW r \in Reqs, CommitLogout(r) PROVE pc[r] = "commit_logout" /\ old[r] = t
    BY <1>1, <2>0, <2>3 DEF CommitLogout
  <2>4. ASSUME NEW r \in Reqs, CommitRefresh(r)
        PROVE  /\ new[r] \in Tokens /\ tokens[new[r]].status # "valid"
               /\ tokens'[new[r]].status = "valid" /\ tokens'[new[r]].parent = t
    <3>1. /\ new[r] \in Tokens /\ old[r] \in Tokens /\ Stored(old[r])
          /\ tokens[new[r]].status = "pending" /\ tokens[new[r]].parent = old[r]
      BY <2>0, <2>4 DEF CommitRefresh, Placed, InsertersOwn, InsertedPcs, RefreshPcs
    <3>2. tokens' = [tokens EXCEPT ![old[r]].status = "revoked", ![new[r]].status = "valid"]
      BY <2>4 DEF CommitRefresh
    <3>3. t = old[r]
      BY <1>1, <2>0, <3>1, <3>2
    <3>. QED
      BY <2>0, <3>1, <3>2, <3>3 DEF Stored
  <2>5. ASSUME NEW r \in Reqs, Fail(r) PROVE FALSE
    BY <1>1, <2>0, <2>5 DEF Fail, TokenRolledBack
  <2>6. CASE Crash
    BY <1>1, <2>0, <2>6 DEF Crash, TokenRolledBack
  <2>7. CASE Tick \/ UNCHANGED vars
    BY <1>1, <2>7 DEF Tick, vars
  <2>. QED
    BY <1>1, <2>0, <2>1, <2>2, <2>3, <2>4, <2>5, <2>6, <2>7, TokensChange DEF Next, TokenSteps
<1>2. Inv /\ [Next]_vars =>
        [\A t \in Tokens :
           tokens[t].status = "valid" /\ tokens'[t].status # "valid" =>
             \/ \E r \in Reqs : pc[r] = "commit_logout" /\ old[r] = t
             \/ \E c \in Tokens : /\ tokens[c].status # "valid"
                                  /\ tokens'[c].status = "valid"
                                  /\ tokens'[c].parent = t]_vars
  BY <1>1
<1>. QED
  BY <1>2, Invariance, PTL DEF Spec, RevokedByLogoutOrExchange

=============================================================================
