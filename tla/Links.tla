------------------------------- MODULE Links -------------------------------
(***************************************************************************)
(* The life of a short link: URLService.create/update/delete               *)
(* (app/services/url.py), RedirectService.resolve (app/services/redirect.py),*)
(* the rows of short_urls in PostgreSQL and the cache-aside copies of them *)
(* in Redis (app/cache/url_cache.py).                                      *)
(*                                                                         *)
(* The process is one asyncio loop, so everything between two awaits is    *)
(* one step; every await on PostgreSQL or Redis is a place where another   *)
(* request runs.  A request's transaction commits after the endpoint       *)
(* returns and before the response is sent (app/db/session.py), so an      *)
(* answer is given by the commit step.                                     *)
(*                                                                         *)
(* Time to live is abstracted to Evict, which may drop an entry at any     *)
(* moment; titles, target addresses and is_public are abstracted away: no  *)
(* operation modelled here branches on them.                               *)
(***************************************************************************)
EXTENDS Naturals, FiniteSets

CONSTANTS
  Ids,        \* identities (uuid) of the links that may ever be created
  Codes,      \* short codes and aliases: one name space
  Reqs,       \* concurrent HTTP requests; a slot is reused when it is free
  Users,      \* registered users
  Admins,     \* those with role "admin"
  MaxRetries, \* settings.MAX_COLLISION_RETRIES
  MaxNow,     \* the clock stops here (bound)
  None        \* Python's None: no owner, no alias, no expiry, no entry

ASSUME AdminsAreUsers == Admins \subseteq Users
ASSUME BoundsAreNat   == MaxRetries \in Nat /\ MaxNow \in Nat
ASSUME NoneIsNothing  == None \notin Ids \cup Codes \cup Users \cup Nat \cup BOOLEAN

VARIABLES
  rows,   \* short_urls: rows[i] is the row with primary key i
  cache,  \* Redis "url:<code>" entries
  now,    \* wall clock
  pc,     \* where each request is suspended
  code,   \* the code or alias a request works on
  link,   \* the id a request works on
  form,   \* the data a request carries (its caller, a patch, a payload)
  tries,  \* codes a create request has probed
  stamp,  \* the clock a redirect read before its SELECT
  raced   \* history: a redirect's payload was overtaken by a writer

vars == <<rows, cache, now, pc, code, link, form, tries, stamp, raced>>

-----------------------------------------------------------------------------
Deadlines == {None} \cup 1..MaxNow
Status    == {"unborn", "pending", "live", "gone", "void"}

\* "pending" is inserted and flushed by a transaction that is still open,
\* "void" was inserted by a transaction that rolled back.
Row   == [status : Status, code : Codes \cup {None}, alias : Codes \cup {None},
          owner : Users \cup {None}, active : BOOLEAN, deadline : Deadlines]
Entry == [id : Ids, active : BOOLEAN, deadline : Deadlines, raced : BOOLEAN]
Form  == [user : Users \cup {None}, custom : BOOLEAN,
          active : BOOLEAN \cup {None}, deadline : Deadlines]

CreatePcs   == {"check_alias", "probe", "insert", "fill", "commit_create"}
UpdatePcs   == {"load_update", "flush_update", "purge_update",
                "purge_update_alias", "commit_update"}
DeletePcs   == {"load_delete", "purge_delete", "purge_delete_alias",
                "flush_delete", "commit_delete"}
RedirectPcs == {"get", "select", "warm", "track", "enqueue"}
Pcs         == {"idle"} \cup CreatePcs \cup UpdatePcs \cup DeletePcs \cup RedirectPcs

BlankRow  == [status |-> "unborn", code |-> None, alias |-> None, owner |-> None,
              active |-> TRUE, deadline |-> None]
BlankForm == [user |-> None, custom |-> FALSE, active |-> None, deadline |-> None]

\* The payload is used up, the caller is still current_user.
OnlyCaller(f) == [BlankForm EXCEPT !.user = f.user]

TypeOK ==
  /\ rows \in [Ids -> Row]
  /\ cache \in [Codes -> Entry \cup {None}]
  /\ now \in 0..MaxNow
  /\ pc \in [Reqs -> Pcs]
  /\ code \in [Reqs -> Codes \cup {None}]
  /\ link \in [Reqs -> Ids \cup {None}]
  /\ form \in [Reqs -> Form]
  /\ tries \in [Reqs -> 0..MaxRetries]
  /\ stamp \in [Reqs -> 0..MaxNow]
  /\ raced \in [Reqs -> BOOLEAN]

Init ==
  /\ rows = [i \in Ids |-> BlankRow]
  /\ cache = [c \in Codes |-> None]
  /\ now = 0
  /\ pc = [r \in Reqs |-> "idle"]
  /\ code = [r \in Reqs |-> None]
  /\ link = [r \in Reqs |-> None]
  /\ form = [r \in Reqs |-> BlankForm]
  /\ tries = [r \in Reqs |-> 0]
  /\ stamp = [r \in Reqs |-> 0]
  /\ raced = [r \in Reqs |-> FALSE]

-----------------------------------------------------------------------------
\* What a statement of another transaction sees and waits for (READ COMMITTED).

Live(i)       == rows[i].status = "live"
Matches(i, c) == rows[i].code = c \/ rows[i].alias = c
Expired(d, t) == d # None /\ d <= t

ShortCodeExists(c) == \E i \in Ids : Live(i) /\ Matches(i, c)

\* Mutant: the WHERE clause of get_active_by_code has lost is_active.
ActiveOrNotByCode(i, c, t) ==
  Live(i) /\ Matches(i, c) /\ ~Expired(rows[i].deadline, t)

ActiveByCode(i, c, t) ==
  Live(i) /\ Matches(i, c) /\ rows[i].active /\ ~Expired(rows[i].deadline, t)

Changes(r) == form[r].active # None \/ form[r].deadline # None

\* r's flushed UPDATE or DELETE holds the lock of the row until it ends.
HoldsRow(r) ==
  \/ pc[r] \in {"purge_update", "purge_update_alias", "commit_update"} /\ Changes(r)
  \/ pc[r] = "commit_delete"

RowBusy(r) == /\ Live(link[r])
              /\ \E q \in Reqs \ {r} : link[q] = link[r] /\ HoldsRow(q)

\* The unique index makes an INSERT wait for an open INSERT or DELETE of its key.
KeyBusy(c) ==
  \/ \E i \in Ids : rows[i].status = "pending" /\ Matches(i, c)
  \/ \E q \in Reqs : /\ pc[q] = "commit_delete"
                     /\ Live(link[q]) /\ Matches(link[q], c)

\* Mutant: any user may edit a link that has an owner.
MayEditOwned(u, i) == u \in Admins \/ rows[i].owner # None

MayEdit(u, i) == u \in Admins \/ rows[i].owner = u

Payload(i, bit) == [id |-> i, active |-> rows[i].active,
                    deadline |-> rows[i].deadline, raced |-> bit]

\* A writer of id i that has purged the cache for the last time and not ended.
Exposed(r, i) ==
  /\ link[r] = i
  /\ pc[r] \in {"commit_update", "flush_delete", "commit_delete"}

-----------------------------------------------------------------------------
\* Steps shared by the handlers.

Goto(r, there) == pc' = [pc EXCEPT ![r] = there]

\* Only the program counter moves.
Pass(r, there) ==
  Goto(r, there) /\ UNCHANGED <<rows, cache, now, code, link, form, tries, stamp, raced>>

\* The request is over, whatever it answered; its slot is free again.
Answer(r) ==
  /\ Goto(r, "idle")
  /\ code' = [code EXCEPT ![r] = None]
  /\ link' = [link EXCEPT ![r] = None]
  /\ form' = [form EXCEPT ![r] = BlankForm]
  /\ tries' = [tries EXCEPT ![r] = 0]
  /\ stamp' = [stamp EXCEPT ![r] = 0]
  /\ raced' = [raced EXCEPT ![r] = FALSE]

Refuse(r) == Answer(r) /\ UNCHANGED <<rows, cache, now>>

Begin(r, there, c, i, f) ==
  /\ pc[r] = "idle"
  /\ Goto(r, there)
  /\ code' = [code EXCEPT ![r] = c]
  /\ link' = [link EXCEPT ![r] = i]
  /\ form' = [form EXCEPT ![r] = f]
  /\ UNCHANGED <<rows, cache, now, tries, stamp, raced>>

\* URLCache.delete of one key, on the way to another await.
Purge(r, key, there) ==
  /\ cache' = [cache EXCEPT ![key] = None]
  /\ Goto(r, there)
  /\ raced' = IF there \in {"commit_update", "flush_delete"}
              THEN [q \in Reqs |-> \/ raced[q]
                                   \/ pc[q] = "warm" /\ link[q] = link[r]]
              ELSE raced
  /\ UNCHANGED <<rows, now, code, link, form, tries, stamp>>

-----------------------------------------------------------------------------
\* POST /api/v1/urls: URLService.create.

FreshId(i) == rows[i].status = "unborn" /\ \A q \in Reqs : link[q] # i

\* The deadline is validated against the clock when the body is parsed.
StartCreate(r) ==
  \E i \in Ids, u \in Users \cup {None}, c \in Codes \cup {None}, d \in Deadlines :
    /\ FreshId(i)
    /\ ~Expired(d, now)
    /\ Begin(r, IF c = None THEN "probe" ELSE "check_alias", c, i,
             [user |-> u, custom |-> c # None, active |-> None, deadline |-> d])

CheckAlias(r) ==
  /\ pc[r] = "check_alias"
  /\ IF ShortCodeExists(code[r])
     THEN Refuse(r)
     ELSE Pass(r, "insert")

\* Mutants of Probe: one round too many, and rounds that are not counted.
ProbeOnceMore(r) ==
  /\ pc[r] = "probe"
  /\ IF tries[r] > MaxRetries
     THEN Refuse(r)
     ELSE \E c \in Codes :
       IF ShortCodeExists(c)
       THEN /\ tries' = [tries EXCEPT ![r] = @ + 1]
            /\ UNCHANGED <<rows, cache, now, pc, code, link, form, stamp, raced>>
       ELSE /\ code' = [code EXCEPT ![r] = c]
            /\ Goto(r, "insert")
            /\ UNCHANGED <<rows, cache, now, link, form, tries, stamp, raced>>

ProbeForever(r) ==
  /\ pc[r] = "probe"
  /\ \E c \in Codes :
       /\ ~ShortCodeExists(c)
       /\ code' = [code EXCEPT ![r] = c]
       /\ Goto(r, "insert")
       /\ UNCHANGED <<rows, cache, now, link, form, tries, stamp, raced>>

\* One round of _generate_unique_code: any code may come out of the generator.
Probe(r) ==
  /\ pc[r] = "probe"
  /\ IF tries[r] = MaxRetries
     THEN Refuse(r)
     ELSE \E c \in Codes :
       IF ShortCodeExists(c)
       THEN /\ tries' = [tries EXCEPT ![r] = @ + 1]
            /\ UNCHANGED <<rows, cache, now, pc, code, link, form, stamp, raced>>
       ELSE /\ code' = [code EXCEPT ![r] = c]
            /\ Goto(r, "insert")
            /\ UNCHANGED <<rows, cache, now, link, form, tries, stamp, raced>>

\* Mutant: the columns are not unique, the existence check stands alone.
InsertUnchecked(r) ==
  /\ pc[r] = "insert"
  /\ rows' = [rows EXCEPT ![link[r]] =
       [status |-> "pending", code |-> code[r],
        alias |-> IF form[r].custom THEN code[r] ELSE None,
        owner |-> form[r].user, active |-> TRUE, deadline |-> form[r].deadline]]
  /\ Goto(r, "fill")
  /\ form' = [form EXCEPT ![r] = OnlyCaller(@)]
  /\ tries' = [tries EXCEPT ![r] = 0]
  /\ UNCHANGED <<cache, now, code, link, stamp, raced>>

Insert(r) ==
  /\ pc[r] = "insert"
  /\ ~KeyBusy(code[r])
  /\ IF ShortCodeExists(code[r])
     THEN Refuse(r)                     \* IntegrityError, answered with 500
     ELSE /\ rows' = [rows EXCEPT ![link[r]] =
               [status |-> "pending", code |-> code[r],
                alias |-> IF form[r].custom THEN code[r] ELSE None,
                owner |-> form[r].user, active |-> TRUE, deadline |-> form[r].deadline]]
          /\ Goto(r, "fill")
          /\ form' = [form EXCEPT ![r] = OnlyCaller(@)]
          /\ tries' = [tries EXCEPT ![r] = 0]
          /\ UNCHANGED <<cache, now, code, link, stamp, raced>>

FillOnCreate(r) ==
  /\ pc[r] = "fill"
  /\ cache' = [cache EXCEPT ![code[r]] = Payload(link[r], FALSE)]
  /\ Goto(r, "commit_create")
  /\ UNCHANGED <<rows, now, code, link, form, tries, stamp, raced>>

CommitCreate(r) ==
  /\ pc[r] = "commit_create"
  /\ rows' = [rows EXCEPT ![link[r]].status = "live"]
  /\ Answer(r)
  /\ UNCHANGED <<cache, now>>

-----------------------------------------------------------------------------
\* PATCH /api/v1/urls/{id}: URLService.update.

\* Clients name links whose create has been answered, deleted ones included.
Published(i) == rows[i].status \in {"live", "gone"}

StartUpdate(r) ==
  \E i \in Ids, u \in Users, a \in BOOLEAN \cup {None}, d \in Deadlines :
    /\ Published(i)
    /\ Begin(r, "load_update", None, i,
             [user |-> u, custom |-> FALSE, active |-> a, deadline |-> d])

\* SELECT, the two refusals, then setattr: only a value that differs from the
\* loaded one marks its column as changed.
LoadForUpdate(r) ==
  /\ pc[r] = "load_update"
  /\ LET i == link[r]
         Changed(old, new) == IF new = old THEN None ELSE new
     IN IF Live(i) /\ MayEdit(form[r].user, i)
        THEN /\ form' = [form EXCEPT ![r] = [@ EXCEPT
                  !.active = Changed(rows[i].active, form[r].active),
                  !.deadline = Changed(rows[i].deadline, form[r].deadline)]]
             /\ Goto(r, "flush_update")
             /\ UNCHANGED <<rows, cache, now, code, link, tries, stamp, raced>>
        ELSE Refuse(r)

\* UPDATE of the changed columns (none: no statement), then refresh.  A row
\* deleted since the load fails either of them and is answered with 500.
FlushUpdate(r) ==
  /\ pc[r] = "flush_update"
  /\ Changes(r) => ~RowBusy(r)
  /\ IF Live(link[r])
     THEN Pass(r, "purge_update")
     ELSE Refuse(r)

\* Mutant: an update that purges the alias only.
PurgeAliasOnUpdate(r) ==
  /\ pc[r] = "purge_update"
  /\ LET row == rows[link[r]] IN
     IF row.alias = None
     THEN Pass(r, "commit_update")
     ELSE Purge(r, row.alias, "commit_update")

PurgeOnUpdate(r) ==
  LET row == rows[link[r]] IN
  \/ /\ pc[r] = "purge_update"
     /\ Purge(r, row.code, IF row.alias = None THEN "commit_update" ELSE "purge_update_alias")
  \/ /\ pc[r] = "purge_update_alias"
     /\ Purge(r, row.alias, "commit_update")

CommitUpdate(r) ==
  /\ pc[r] = "commit_update"
  /\ LET Written(old, new) == IF new = None THEN old ELSE new
     IN rows' = [rows EXCEPT
          ![link[r]].active = Written(@, form[r].active),
          ![link[r]].deadline = Written(@, form[r].deadline)]
  /\ Answer(r)
  /\ UNCHANGED <<cache, now>>

-----------------------------------------------------------------------------
\* DELETE /api/v1/urls/{id}: URLService.delete.

StartDelete(r) ==
  \E i \in Ids, u \in Users :
    /\ Published(i)
    /\ Begin(r, "load_delete", None, i, [BlankForm EXCEPT !.user = u])

LoadForDelete(r) ==
  /\ pc[r] = "load_delete"
  /\ IF Live(link[r]) /\ MayEdit(form[r].user, link[r])
     THEN Pass(r, "purge_delete")
     ELSE Refuse(r)

\* Mutant: a delete that leaves the cache to its time to live.
DeleteUnpurged(r) == pc[r] = "purge_delete" /\ Pass(r, "flush_delete")

PurgeOnDelete(r) ==
  LET row == rows[link[r]] IN
  \/ /\ pc[r] = "purge_delete"
     /\ Purge(r, row.code, IF row.alias = None THEN "flush_delete" ELSE "purge_delete_alias")
  \/ /\ pc[r] = "purge_delete_alias"
     /\ Purge(r, row.alias, "flush_delete")

\* DELETE of a row another transaction has deleted matches nothing and succeeds.
FlushDelete(r) ==
  /\ pc[r] = "flush_delete"
  /\ ~RowBusy(r)
  /\ Pass(r, "commit_delete")

CommitDelete(r) ==
  /\ pc[r] = "commit_delete"
  /\ rows' = [rows EXCEPT ![link[r]].status = "gone"]
  /\ Answer(r)
  /\ UNCHANGED <<cache, now>>

-----------------------------------------------------------------------------
\* GET /{short_code}: RedirectService.resolve and its background tasks.

StartRedirect(r) == \E c \in Codes : Begin(r, "get", c, None, BlankForm)

\* Mutant: the hit path without _guard_expiry.
CacheGetUnguarded(r) ==
  /\ pc[r] = "get"
  /\ LET e == cache[code[r]] IN
     IF e = None
     THEN /\ stamp' = [stamp EXCEPT ![r] = now]
          /\ Goto(r, "select")
          /\ UNCHANGED <<rows, cache, now, code, link, form, tries, raced>>
     ELSE /\ link' = [link EXCEPT ![r] = e.id]
          /\ Goto(r, "track")
          /\ UNCHANGED <<rows, cache, now, code, form, tries, stamp, raced>>

\* A hit is answered at once (302, or 410 if the copy has expired).  On a miss
\* get_active_by_code reads the clock here, before its SELECT is sent.
CacheGet(r) ==
  /\ pc[r] = "get"
  /\ LET e == cache[code[r]] IN
     IF e = None
     THEN /\ stamp' = [stamp EXCEPT ![r] = now]
          /\ Goto(r, "select")
          /\ UNCHANGED <<rows, cache, now, code, link, form, tries, raced>>
     ELSE IF Expired(e.deadline, now)
          THEN Refuse(r)
          ELSE /\ link' = [link EXCEPT ![r] = e.id]
               /\ Goto(r, "track")
               /\ UNCHANGED <<rows, cache, now, code, form, tries, stamp, raced>>

\* The SELECT: 404, or 302 with a payload the background task will cache.
Select(r) ==
  /\ pc[r] = "select"
  /\ \/ /\ \A i \in Ids : ~ActiveByCode(i, code[r], stamp[r])
        /\ Refuse(r)
     \/ \E i \in Ids :
          /\ ActiveByCode(i, code[r], stamp[r])
          /\ link' = [link EXCEPT ![r] = i]
          /\ form' = [form EXCEPT ![r].active = rows[i].active,
                                  ![r].deadline = rows[i].deadline]
          /\ raced' = [raced EXCEPT ![r] = \E q \in Reqs : Exposed(q, i)]
          /\ stamp' = [stamp EXCEPT ![r] = 0]
          /\ Goto(r, "warm")
          /\ UNCHANGED <<rows, cache, now, code, tries>>

\* Background task 1, after the response: the payload of the SELECT is cached
\* whatever has become of the row.
Warm(r) ==
  /\ pc[r] = "warm"
  /\ cache' = [cache EXCEPT ![code[r]] =
       [id |-> link[r], active |-> form[r].active,
        deadline |-> form[r].deadline, raced |-> raced[r]]]
  /\ form' = [form EXCEPT ![r] = BlankForm]
  /\ raced' = [raced EXCEPT ![r] = FALSE]
  /\ Goto(r, "track")
  /\ UNCHANGED <<rows, now, code, link, tries, stamp>>

\* Background tasks 2 and 3: the hot counter and the queued click are state of
\* other modules; here they are the order in which the request ends.
Track(r)   == pc[r] = "track" /\ Pass(r, "enqueue")
Enqueue(r) == pc[r] = "enqueue" /\ Refuse(r)

-----------------------------------------------------------------------------
\* Faults and the environment.

RolledBack(i) == IF rows[i].status = "pending"
                 THEN [rows[i] EXCEPT !.status = "void"] ELSE rows[i]

\* Any await may raise (a lost connection, a pool timeout): the session rolls
\* back, the answer is 500 and the remaining background tasks are not run.
Fail(r) ==
  /\ pc[r] # "idle"
  /\ rows' = IF pc[r] \in {"fill", "commit_create"}
             THEN [rows EXCEPT ![link[r]] = RolledBack(link[r])]
             ELSE rows
  /\ Answer(r)
  /\ UNCHANGED <<cache, now>>

\* The process dies and is restarted; PostgreSQL aborts its transactions,
\* Redis keeps its entries.
Crash ==
  /\ \E r \in Reqs : pc[r] # "idle"
  /\ rows' = [i \in Ids |-> RolledBack(i)]
  /\ pc' = [r \in Reqs |-> "idle"]
  /\ code' = [r \in Reqs |-> None]
  /\ link' = [r \in Reqs |-> None]
  /\ form' = [r \in Reqs |-> BlankForm]
  /\ tries' = [r \in Reqs |-> 0]
  /\ stamp' = [r \in Reqs |-> 0]
  /\ raced' = [r \in Reqs |-> FALSE]
  /\ UNCHANGED <<cache, now>>

\* SETEX ran out, or Redis lost the key.
Evict(c) ==
  /\ cache[c] # None
  /\ cache' = [cache EXCEPT ![c] = None]
  /\ UNCHANGED <<rows, now, pc, code, link, form, tries, stamp, raced>>

Tick ==
  /\ now < MaxNow
  /\ now' = now + 1
  /\ UNCHANGED <<rows, cache, pc, code, link, form, tries, stamp, raced>>

-----------------------------------------------------------------------------
Start(r) == StartCreate(r) \/ StartUpdate(r) \/ StartDelete(r) \/ StartRedirect(r)

CreateStep(r)   == CheckAlias(r) \/ Probe(r) \/ Insert(r) \/ FillOnCreate(r) \/ CommitCreate(r)
UpdateStep(r)   == LoadForUpdate(r) \/ FlushUpdate(r) \/ PurgeOnUpdate(r) \/ CommitUpdate(r)
DeleteStep(r)   == LoadForDelete(r) \/ PurgeOnDelete(r) \/ FlushDelete(r) \/ CommitDelete(r)
RedirectStep(r) == CacheGet(r) \/ Select(r) \/ Warm(r) \/ Track(r) \/ Enqueue(r)

Step(r) == CreateStep(r) \/ UpdateStep(r) \/ DeleteStep(r) \/ RedirectStep(r)

Next ==
  \/ \E r \in Reqs : Start(r) \/ Step(r) \/ Fail(r)
  \/ Crash
  \/ \E c \in Codes : Evict(c)
  \/ Tick

Spec == Init /\ [][Next]_vars

\* The loop resumes a request whose await has returned, and PostgreSQL grants a
\* lock to its waiters in the order they came.
FairSpec == Spec /\ \A r \in Reqs : SF_vars(Step(r))

-----------------------------------------------------------------------------
\* Properties.

\* get_active_by_code and short_code_exists read with scalar_one_or_none, which
\* raises on two rows: at most one live link answers to a code, be it its short
\* code or its alias, however creates and deletes of that code interleave.
CodeResolvesUniquely ==
  \A i, j \in Ids : \A c \in Codes :
    Live(i) /\ Live(j) /\ Matches(i, c) /\ Matches(j, c) => i = j

\* The hit path of resolve checks the expiry and not is_active, so it relies on
\* everyone who fills the cache writing active payloads only.
OnlyActiveCached == \A c \in Codes : cache[c] # None => cache[c].active

Agrees(e) == /\ Live(e.id)
             /\ e.active = rows[e.id].active
             /\ e.deadline = rows[e.id].deadline

Uncommitted(i) == rows[i].status \in {"pending", "void"}

\* A cached copy that differs from the committed row has one of two causes: the
\* create that wrote it has not committed (or never will), or the redirect that
\* wrote it had its SELECT before and its SETEX after a writer's last purge and
\* commit.  Without such an overlap an update or a delete leaves no stale copy.
StaleOnlyByOverlap ==
  \A c \in Codes : cache[c] # None =>
    cache[c].raced \/ Uncommitted(cache[c].id) \/ Agrees(cache[c])

\* A 302 from the cache, outside that overlap, leads to a link that is live,
\* answers to the code, is active and has not expired at that moment.
HitsServeTheRow ==
  [][\A r \in Reqs : pc[r] = "get" /\ pc'[r] = "track" =>
       LET e == cache[code[r]] IN
         e.raced \/ Uncommitted(e.id) \/ ActiveByCode(e.id, code[r], now)]_vars

\* To its clients the table is the registry: what a transaction has not committed is
\* not in it.
Entered(i) ==
  IF Live(i)
  THEN [status |-> "open", code |-> rows[i].code, owner |-> rows[i].owner,
        active |-> rows[i].active, deadline |-> rows[i].deadline]
  ELSE [status |-> IF rows[i].status = "gone" THEN "removed" ELSE "absent",
        code |-> None, owner |-> None, active |-> TRUE, deadline |-> None]

Table == [i \in Ids |-> Entered(i)]

\* Its calls are the writing requests, each with its current_user.
WritingPcs == CreatePcs \cup UpdatePcs \cup DeletePcs
Verb == [there \in WritingPcs |-> IF there \in CreatePcs THEN "create"
                                 ELSE IF there \in UpdatePcs THEN "change" ELSE "remove"]

CallOf(r) == [req |-> r, who |-> form[r].user, id |-> link[r], verb |-> Verb[pc[r]]]
Calls     == {CallOf(r) : r \in {q \in Reqs : pc[q] \in WritingPcs}}

Registry == INSTANCE LinkRegistry WITH book <- Table, calls <- Calls

\* create, update and delete implement the registry: however many awaits they consist
\* of and whatever fails between them, each takes effect in one step, and that step is
\* within the rights of the user who sent this very request: a link belongs to the
\* caller of its create, and only calls of its owner or of an administrator change or
\* remove it.
ImplementsRegistry == Registry!RegistrySpec

\* Every request ends, whatever locks it waits for and however often a code
\* collides.
EveryRequestEnds == \A r \in Reqs : pc[r] # "idle" ~> pc[r] = "idle"

-----------------------------------------------------------------------------
\* What the safety properties rest on: the strengthening that every step keeps.

\* A row that exists has a code, and its alias, if any, is its code.
RowsWellFormed ==
  \A i \in Ids :
    /\ rows[i].status # "unborn" => rows[i].code \in Codes /\ rows[i].alias \in {None, rows[i].code}
    /\ rows[i].status = "pending" => rows[i].active

\* Open inserts and live rows never share a code.
KeysUnique ==
  \A i, j \in Ids :
    /\ rows[i].status \in {"pending", "live"}
    /\ rows[j].status \in {"pending", "live"}
    /\ rows[i].code = rows[j].code
    => i = j

WorkingPcs == CreatePcs \cup UpdatePcs \cup DeletePcs \cup {"warm"}
CodedPcs   == {"check_alias", "insert", "fill", "commit_create", "get", "select", "warm"}
FlushedPcs == {"purge_update", "purge_update_alias", "commit_update"}

RequestsPlaced ==
  \A r \in Reqs :
    /\ pc[r] \in WorkingPcs => link[r] \in Ids
    /\ pc[r] \in CodedPcs => code[r] \in Codes
    /\ pc[r] = "warm" => form[r].active \in BOOLEAN

RequestsConsistent ==
  \A r \in Reqs :
    /\ pc[r] \in {"check_alias", "probe", "insert"} => rows[link[r]].status = "unborn"
    /\ pc[r] \in {"fill", "commit_create"} =>
         rows[link[r]].status = "pending" /\ rows[link[r]].code = code[r]
    /\ pc[r] \in UpdatePcs \cup DeletePcs \cup {"warm"} => Published(link[r])
    /\ pc[r] \in {"purge_update_alias", "purge_delete_alias"} => rows[link[r]].alias # None
    /\ pc[r] = "warm" => Matches(link[r], code[r]) /\ form[r].active = TRUE

\* Every create works on an id of its own.
CreatorsApart ==
  \A r, q \in Reqs : pc[r] \in CreatePcs /\ pc[q] \in CreatePcs /\ link[q] = link[r] => q = r

\* The row lock: a flushed UPDATE keeps its row from being deleted.
LocksHeld ==
  \A r \in Reqs : pc[r] \in FlushedPcs /\ Changes(r) =>
    /\ Live(link[r])
    /\ \A q \in Reqs \ {r} : link[q] = link[r] => ~HoldsRow(q)

CacheWellFormed ==
  \A c \in Codes : cache[c] # None =>
    /\ rows[cache[c].id].status # "unborn"
    /\ Matches(cache[c].id, c)
    /\ cache[c].active
    /\ rows[cache[c].id].status = "pending" =>
         cache[c].active = rows[cache[c].id].active /\ cache[c].deadline = rows[cache[c].id].deadline

\* After a writer's last purge whatever is or gets cached of its link is raced.
ExposureCaught ==
  \A q \in Reqs :
    /\ \A c \in Codes : cache[c] # None /\ Exposed(q, cache[c].id) => cache[c].raced
    /\ \A r \in Reqs : pc[r] = "warm" /\ Exposed(q, link[r]) => raced[r]

\* A payload on its way to the cache agrees with its row unless it was raced.
PayloadsFresh ==
  \A r \in Reqs : pc[r] = "warm" /\ ~raced[r] =>
    /\ Live(link[r])
    /\ form[r].active = rows[link[r]].active
    /\ form[r].deadline = rows[link[r]].deadline

IndInv ==
  /\ RowsWellFormed
  /\ KeysUnique
  /\ RequestsPlaced
  /\ RequestsConsistent
  /\ CreatorsApart
  /\ LocksHeld
  /\ CacheWellFormed
  /\ ExposureCaught
  /\ PayloadsFresh
  /\ StaleOnlyByOverlap

\* "Invalidate cache so the updated data is served immediately"
\* (app/services/url.py:124): once no update or delete of a link is under way,
\* its cached copies agree with its row.
UpdatesServedAtOnce ==
  \A c \in Codes :
    LET e == cache[c] IN
      /\ e # None
      /\ Live(e.id)
      /\ \A q \in Reqs : link[q] = e.id => pc[q] \notin UpdatePcs \cup DeletePcs
      => Agrees(e)

=============================================================================
