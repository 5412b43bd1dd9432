# TLA+ models of fastapi-url-shortener

These modules model the stateful part of the URL shortener under `src/`: links and
their cached copies, the click queue and its worker, accounts and refresh
tokens, the rate limiter, the cached analytics summaries, the listing of links, and
the connections and locks they all wait for. TLC checks them on small instances; TLAPS
proves all of the safety properties, and both refinements, for every value of the constants.

Paths below are relative to `src/`.

## The system

One uvicorn worker (`Dockerfile`) runs one asyncio loop, so the code between two
awaits is one atomic step and every await on PostgreSQL or Redis is a place
where any other request, the analytics worker or a shutdown may run. All state
is outside the process:

| store | contents | durability |
|---|---|---|
| PostgreSQL, READ COMMITTED | `users`, `refresh_tokens`, `short_urls`, `click_events` | transactions |
| Redis | `url:<code>`, `hot:<code>`, `analytics:queue`, `analytics:summary:<code>`, `qr:<code>`, rate limiter sets | snapshot at most every 60 s (`docker-compose.yml:45`) |

A request's transaction is opened by the dependency `get_session` and committed
(or rolled back) when the endpoint has returned and before the response is sent
(`app/db/session.py:34-43`). The redirect endpoint opens a session of its own and
commits nothing (`app/main.py:124`). A session takes a connection from the pool (20, and
10 more under load, `app/core/config.py:18-20`) at its first statement and keeps it until
it ends, calls of Redis included; a request that finds none waits 30 seconds and then
fails. The Redis client does not wait: with its 20 connections taken it raises. Background tasks run one after the other
after the response; one that raises drops the rest. The API, PostgreSQL and Redis
are restarted when they stop (`restart: unless-stopped`).

### Components

| component | state | operations | what makes it correct |
|---|---|---|---|
| Links (`services/url.py`, `repositories/url.py`) | rows of `short_urls` | create, update, delete, get, list | a code leads to one link; a request that fails leaves nothing behind; nobody waits for ever |
| Redirects and URL cache (`services/redirect.py`, `cache/url_cache.py`) | `url:` and `hot:` keys | resolve; background: warm the cache, count the click, queue the event | a redirect follows what the row says; a stale copy has a known cause |
| Click queue and worker (`cache/analytics_cache.py`, `analytics/processor.py`) | `analytics:queue`, `click_events`, `short_urls.click_count` | push, LLEN, LMPOP, bulk insert, increments, commit; start, stop | counters agree with events; a click is recorded once at most; batches are all or nothing; the queue drains |
| Accounts (`services/auth.py`) | `users`, `refresh_tokens` | register, login, refresh, logout | one account per address; one valid token per login; no token is lost by a failure |
| Rate limiter (`cache/rate_limiter.py`) | a sorted set per identifier and endpoint | `is_allowed` | a bounded number of admissions in any window; denials cost nothing |
| Summaries (`services/analytics.py`) | `analytics:summary:<code>` | `get_summary` | a summary is of the period asked for, and of one moment |
| QR codes (`services/qr.py`) | `qr:<code>` | `get_qr` | the picture is of the code's address |
| Listing (`repositories/url.py:48`) | none | `get_by_owner` | what a walk repeats or misses is due to links that came or went |
| Connections (`db/session.py`, `cache/client.py`) | pool, row and key locks | checkout, commit, rollback, close | nobody waits in a circle |
| Authentication (`dependencies/auth.py`) | none of its own | `get_current_user`, `get_optional_user` | |
| Validation, code generator, user agents, logging, health, settings, migration | none of their own | | |

### How they interact

- `URLService` writes `short_urls` and writes or deletes `url:` keys;
  `RedirectService` reads the same rows and writes the same keys, later, from a
  background task. This shared cache is where most of the difficulty lies.
- `RedirectService` pushes click events on `analytics:queue`; the worker of
  `app/main.py`'s lifespan drains it and updates `short_urls.click_count`, in a
  transaction that meets a concurrent delete at the foreign key.
- Register, login and create pass the rate limiter first; its reply decides whether
  the handler goes on, and it shares no state with them.
- `AnalyticsService` reads `click_events` and `click_count` between the worker's commits
  and caches what it found.
- Every handler and the worker wait for the same connections and, holding one, for each
  other's locks.

### What is hard

Concurrency of handlers at every await; the commit that comes after the cache
writes and after the code that looks as if it were last; background tasks that
act on data read before the response; unique keys and row locks that make
requests wait for one another; the process dying between Redis and PostgreSQL;
events that live only in the worker's memory; a Redis that comes back a minute
older; clocks read before awaits; tokens that carry whole seconds.
`PROJECT.json` lists these hazards one by one at their lines, with the properties
that watch them.

## Modules

| module | models | extends / uses |
|---|---|---|
| `Links` | create, update, delete, redirect, the `url:` cache, row locks, unique keys | refines `LinkRegistry` |
| `LinkRegistry` | what the API promises about links (abstract) | |
| `MCLinks` | instances of `Links`, symmetry | `Links` |
| `LinksProofs` | theorems about `Links`; it implements `LinkRegistry` | `Links`, `TLAPS` |
| `ClickLedger` | what the pipeline promises about clicks (abstract) | |
| `ClickPipeline` | queue, worker, worker's transaction, shutdown, Redis snapshots | refines `ClickLedger` |
| `MCClickPipeline` | instances, symmetry | `ClickPipeline` |
| `ClickPipelineProofs` | theorems about `ClickPipeline`; it implements `ClickLedger` | `ClickPipeline`, `TLAPS` |
| `Accounts` | register, login, refresh, logout | |
| `MCAccounts` | instances, symmetry | `Accounts` |
| `AccountsProofs` | theorems about `Accounts` | `Accounts`, `TLAPS` |
| `RateLimiter` | one sorted set and its script | |
| `MCRateLimiter` | instance, symmetry | `RateLimiter` |
| `RateLimiterProofs` | theorems about `RateLimiter` | `RateLimiter`, `TLAPS` |
| `Summaries` | `get_summary` of one code and its cached result | |
| `MCSummaries` | instances, symmetry | `Summaries` |
| `SummariesProofs` | theorems about `Summaries` | `Summaries`, `TLAPS` |
| `HotCache` | times to live of one code's `url:` and `hot:` keys | |
| `MCHotCache` | instance, symmetry | `HotCache` |
| `HotCacheProofs` | theorems about `HotCache` | `HotCache`, `TLAPS` |
| `Listing` | a client's walk over the pages of its links | |
| `MCListing` | instance, symmetry | `Listing` |
| `ListingProofs` | theorems about `Listing` | `Listing`, `TLAPS` |
| `Connections` | what every handler and the worker wait for | |
| `MCConnections` | instance | `Connections` |
| `ConnectionsProofs` | theorems about `Connections` | `Connections`, `TLAPS` |

Operators preceded by a comment that starts with `Mutant` are plausible bugs: each
is a changed copy of the definition that follows, never part of the
specification. `PROJECT.json` pairs them with the property that tells them apart.

### Links

A request is a slot `r` with a program counter: `pc[r]` names the await at which it
is suspended, and each action is the code from one await to the next.

| variable | code |
|---|---|
| `rows` | `short_urls`; `pending` rows are flushed by an open transaction, `void` ones were rolled back, `gone` ones deleted |
| `cache` | `url:<code>` |
| `code`, `link`, `form`, `tries`, `stamp` | local variables of the handler |
| `raced` | history: an entry (or a payload on its way) was overtaken by a writer |

What a transaction sees of others follows READ COMMITTED: a SELECT sees `live` rows
only; an INSERT waits while another open transaction has inserted or deleted
its key (`KeyBusy`) and fails if a live row has it; an UPDATE or DELETE waits
while another one holds the row (`RowBusy`). `LoadForUpdate` keeps of a patch only
what differs from the loaded row, as SQLAlchemy's unit of work does, so a patch
that changes nothing takes no lock. `Fail` lets any await raise; `Crash` ends all
requests at once, aborts open transactions and keeps Redis; `Evict` stands for the
time to live and for a Redis that lost a key.

Aliases and short codes are one name space because `create` stores an alias as the
row's `short_code` too. `PATCH` cannot reset a deadline (`exclude_none`), so `None`
in a patch means "not in the body". Titles, addresses and `is_public` are left out:
nothing branches on them.

`LinkRegistry` forgets transactions, awaits and the cache. It has a book of links and the
calls under way, each with the user who made it: a call opens a link with a code that no
open link has and that belongs to its caller, or changes or removes a link whose owner its
caller is, or any link if the caller is an administrator, in one step that ends the call; or
it ends without effect. `ImplementsRegistry` is the refinement: a row is in
the book from its commit to the commit of its delete, and the calls are the writing requests
with their `current_user` (`Calls`). That an update may be authorised by a row that is
deleted and committed before its own UPDATE, that two updates of a row may be loaded before
either is written, that requests of several users are under way on one link, and that a
rolled back insert leaves a row behind in the model are what makes it worth checking.

### ClickPipeline and ClickLedger

The worker is one task; `wpc` is the await at which `_flush` is suspended. Popped
events are in `batch` and nowhere else. `Stop` cancels the task at its await and
begins the last flush of `stop()`; when the await was the LMPOP, Redis may or may
not have executed it (`PopUnseen`). `BulkInsert` is one flush of all events: one bad
event (its link gone or not committed, a text too long for its column) and none is
stored. From insert to commit the foreign key's locks keep the batch's links from
being deleted. `SaveRdb` and `RedisRestart` are `redis-server --save 60 1`.

`ClickLedger` forgets the queue and the worker: an accepted click is owed until it
is recorded in a whole batch, events and counters together, or given up in a whole
batch, which needs an interruption or a bad click. `ImplementsLedger` is the
refinement, with `owed` computed from queue and batch.

### Accounts

A token is identified by its user and the second it was made in, because that is
all a refresh token carries (`app/core/security.py:32-41`): two made for one user in
one second are the same token, hit the unique `token_hash`, and the later request
is answered with 500. `expires_at` comes from a later reading of the clock than the
token's own `exp` and has a fraction of a second; the fraction is abstracted, so at
the boundary second `get_by_hash` may go either way.

`parent` and `family` are history: the token that was exchanged for this one, and
the first of the chain. Two exchanges of one token that overlap both select it
before either commits; the second one waits for the row lock, updates by primary key
whatever the row says now, and succeeds, provided they fall into different seconds.
The model keeps this behaviour. The heir of an exchange that found its token
already revoked founds a family of its own, so that `OneValidTokenPerFamily` says
what does hold: without such an overlap, one login has one valid token.

### RateLimiter

A request reads the clock (`stamp`), loads the script, and runs it; `at` is a history
variable, the clock when its script ran. Redis executes scripts atomically but in
any order, so a script may run with a stamp older than the ones before it. The
`await` on SCRIPT LOAD happens on every request, since a limiter is made for every
request.

### Summaries

A summary is computed by eight statements (the row, unique visitors, five dimensions,
days), each of which sees what had been committed when it ran. A part is modelled by the
set of clicks behind the rows of its statement. The constant `Value` gives what a click has
in the columns the statements filter and group by: visitors are those of the clicks with a
`visitor_hash` (`Visits`), a breakdown has the clicks with a value in its column whose value
is among the `Limit` most frequent ones (`Top`; which ones when they tie is left open), and the
days have all clicks. As in the code, nothing records a country (`WhatIsRecorded`), so that
this breakdown is always empty. `since` and `dailySince` are the two readings of
the clock behind the period. The key of the cached result is the code alone, and nothing
invalidates it. The worker's commit, the creation and the deletion of links are single
steps here; they are modelled in full elsewhere.

### HotCache

`Links` lets a copy vanish at any time; here its time to live is the subject, and what it
holds is left out. A copy and a counter are an expiry each, and a redirect is the calls it
makes: GET, SETEX on a miss, INCR, EXPIRE of the counter, EXPIRE of the copy when the
count that INCR returned is high enough. `Fill` is the SETEX of a create, `Purge` the DEL of
both keys by an update or delete. Snapshots keep absolute expiries, so a Redis that
restarts drops what has expired since and brings back what was purged.
`kept`, `clicks`, `clicked` and `frayed` are history.

### Listing

The client asks for page after page until the response's `pages` says it has the last. A
page is two statements, and `created_at` is the time at which the creating transaction
began (`now()` of PostgreSQL), so links enter the order at places other than the top.
`listed` counts how often a link was shown in this walk; `steady`, `arrived`, `departed` and
`shifted` are history.

### Connections

A handler is a script: the sequence of resources it waits for, one definition for each
endpoint. What it computes is in the other modules. `"optional"` is the lookup
of `get_optional_user`, which goes on without a user whatever goes wrong. Rows and
keys of one link, and of one user, are one thing each with lock modes, whose conflicts
are PostgreSQL's. Only the worker's transaction locks several rows. `Fail` covers every way
in which a script ends early.

## Runs

All with two TLC workers; times are of one run on a small machine.

| run | question | bounds | distinct states |
|---|---|---|---|
| `links` | types, uniqueness, staleness, cache hits, every request ends | 2 requests, 2 links, 1 code, 1 probe | 247 k |
| `links_overlap` | staleness and hits with a clock; refinement of `LinkRegistry` | 3 requests, 1 link, 1 alias, a user and an administrator, deadlines at 1 | 2.2 M |
| `links_stale` | is updated data served at once? No: see Findings | 2 requests, 1 link, 1 code | violation |
| `clicks` | counters, copies, refinement of `ClickLedger`, every queued click is settled | 3 clicks, one oversized, 2 links, batches of 2, 2 faults, 1 Redis restart | 695 k |
| `clicks_poison` | is a bad event dropped alone? No: see Findings | 2 clicks, 2 links, no fault | violation |
| `accounts_safety` | addresses, token families, revocation | 2 requests, 2 user keys, 1 address, seconds 0-2, lifetime 1 | 338 k |
| `limiter` | admissions, denials | 5 requests, limit 2, window 2, 1 Redis restart | 810 k |
| `summaries_safety` | parts, period, fate of a deleted link's summary | 1 request, 1 link, 3 clicks, all 5 dimensions with 1 row each, period 1, time to live 2, times 0-2 | 1.3 M |
| `summaries_period` | is the default summary of 30 days? No: see Findings | 2 requests, 2 periods | violation |
| `hotcache` | are popular links kept, and only they? | 2 redirects, time to live 2, window 2, threshold 2, 3 clicks between purges, times 0-4, 1 Redis restart | 12.4 M |
| `listing` | repeats, omissions and totals of a walk | 4 links, pages of 2, times 0-3 | 2.1 M |
| `connections` | can everybody wait for everybody? | 2 requests, the worker, 2 connections, 2 things | 182 k |

Why these bounds are enough to be interesting:

- Two requests already give every pair of handlers in every interleaving; the
  staleness properties need a redirect between a purge and a commit, and
  `links_overlap` adds a second writer. Two links with one code are a collision. An instance with
  two codes and two probes, without the properties under fairness, passes too.
- The rights of callers need a link of somebody else: in `links_overlap` creates come from
  nobody, from a user or from an administrator, and updates and deletes of the link from
  either of the latter while another's request is under way. Codes are aliases there
  (`MaxRetries` is 0); two links and drawn codes are in `links`.
- A batch of 2 from 3 clicks leaves a rest in the queue, two links make a batch with
  two counters, and two faults allow a crash in the flush that `stop()` makes.
- In `accounts_safety` a lifetime of 1 within seconds 0 to 2 reaches tokens that
  expire between SELECT and UPDATE, collisions within a second, and two valid heirs
  of one token.
- Three clicks of which two have the same browser fill a breakdown of one row with one value
  or the other, depending on what has been committed; one has no `visitor_hash` and one no
  referrer. A period of 1 within times 0 to 2 lets a click leave the period between two
  statements. Requests meet in the cached summary only, and what one finds there is the same
  whoever wrote it: one request, which may find what it has written itself, is enough.
- In `hotcache` the third click is above the threshold and two redirects overlap at every
  pair of calls; 4 is long enough for a doubled time to live to pass.
- Four links in pages of two give a walk of two pages with two links to come or go; page
  size 1, which walks four pages, passes too.
- In `connections` three actors compete for two connections, so that holders of
  all of them can wait for the third; the circles the mutants close need two things.
- Limit 2 and window 2 with five requests reach a full set, its partial trimming, an
  expired key and twice the limit after a Redis restart.

`MaxNow`, `MaxFaults`, `MaxCount`, `MaxRestores` and `MaxRestarts` bound counters that the code
does not have. `MaxRetries` is `MAX_COLLISION_RETRIES`. Symmetry is used in safety runs
only. Deadlock is checked everywhere but in `limiter`, where every request is made
once and the system ends; elsewhere a slot is reused, a walk is repeated, and the worker never stops.

### Fairness

- `Links`: strong fairness of each request's own steps. The loop resumes
  a task whose await has returned, and PostgreSQL queues lock waiters in the order
  they came, so a request whose lock is free again and again gets it. Arrivals,
  faults and evictions are under no fairness: a request may fail, and need not.
- `Connections`: strong fairness of each handler's and the worker's steps, for the same
  reason; SQLAlchemy's pool serves those who wait for a connection in the order they
  came. No failure and no timeout is fair: nobody needs one to go on.
- `ClickPipeline`: weak fairness of the worker's steps and of `Restart`. The worker is
  never disabled by others (it takes no lock that a request holds for ever), and
  the container is restarted whenever it is down. Nothing is assumed of faults,
  pushes or deletes.

### What the properties say

- `CodeResolvesUniquely`: at most one live link answers to a code, although the check
  and the insert are two statements. The unique columns carry it.
- `OnlyActiveCached`: the hit path does not look at `is_active`; it may do so because no
  writer of the cache ever writes an inactive payload.
- `StaleOnlyByOverlap`: a copy that disagrees with its row was written by a create that
  has not committed, or by a redirect that overlapped the end of a writer.
- `HitsServeTheRow`: a 302 from the cache, outside that overlap, leads to a link that
  the SELECT would have found at that moment.
- `CountAgrees`, `CopiesBounded`, `ImplementsLedger`, `ClicksSettle`: see `ClickPipeline`.
- `OneAccountPerEmail`, `OneValidTokenPerFamily`, `HeirsReplaceTheirParents`,
  `RevokedByLogoutOrExchange`: see `Accounts`. The last two say that an exchange is all
  or nothing: an heir that is stored has replaced its parent, and a token is lost
  only for an heir or by a logout.
- `AdmissionsBounded`: scripts whose stamps are at most `d` old admit at most the limit
  in any `Window - d`. With prompt scripts (`d = 0`) this is the sliding window. The
  stronger bound "twice the limit in any window of stamps" is false: a script with an
  old stamp trims less but its own entry is trimmed earlier, and 5 admissions within
  one window of stamps are possible with limit 2.
- `DenialsJustified`: a denied request has left nothing in the set, so every denial is
  explained by admissions.
- `PartsGrow`, `PartsInPeriod`, `GoneLinksFade`: a summary put together from eight
  snapshots keeps to its period, and outlives its link by the time to live at most, unless
  its computation overlapped the deletion. No part misses what an earlier one counted, as
  far as its own filter lets it through: the visitors miss no click of the total that names
  one, a breakdown leaves out a value only if it is full of others with no fewer clicks than
  that value had in the earlier parts (`Shown`), and the days leave out nothing.
- `ImplementsRegistry`: to everybody else a create, update or delete is one step of one call,
  and that call's own caller has the right to it, although authorisation, statement and
  commit are awaits apart.
- `PopularLinksStay`: once a click of a popular link has been tracked to its end, the copy
  outlives the counter, and the counter lives as long as clicks come. It needs the window,
  written out as 3600 in `track_click`, not to exceed the setting `URL_CACHE_TTL`
  (assumption `TimesToLive`).
- `ProlongationEarned`: a copy outlives the single time to live only by clicks made since
  the last purge. Exceptions, kept by `frayed`: a click under way at the purge, and a
  restart of Redis that brings purged keys back.
- `CountersRoll`: INCR and EXPIRE being two calls, no counter is left without a deadline, and
  none ends within a window of its last click, unless a click was cut short in between.
- `RepeatsBounded`, `MissesBounded`, `TotalsAgree`: deletions hide at most one link each from
  a walk and never repeat one; arrivals repeat at most one each and hide none, but for
  those between the two statements of the last page, which its total did not count. Both
  need distinct times: rows of one instant may come in any order on every page.
- `NoDeadlock`: no circle of waiting through locks, keys and the pool, under any mix
  of handlers and the worker's flush. Redis has no part in it: its pool raises instead
  of waiting.
- `EveryRequestEnds` of `Links`: waiting for locks and keys ends, and the code generator
  gives up. Of `Connections`: so it does for all handlers and the worker together,
  with fewer connections than there are actors.

## Proofs

Each component has a module of proofs. All have the same shape: an invariant
`Inv` that is inductive, a lemma for each action (or group of actions) and conjunct that
it can disturb, `Invariance` (`Spec => []Inv`), and the theorems that follow from it. The
assumptions are those of the component's module; no theorem assumes more, and none bounds
the number of requests, links or tokens (`Connections` assumes finitely many requests and
things, `ClickPipeline` and `Summaries` finitely many clicks, `Listing` finitely many links,
so that they can be counted).

| module | theorem | statement |
|---|---|---|
| `LinksProofs` | `TypeCorrect` | `Spec => []TypeOK` |
| | `Invariance` | `Spec => [](TypeOK /\ IndInv)` |
| | `UniqueResolution` | `Spec => []CodeResolvesUniquely` |
| | `ActiveCopies` | `Spec => []OnlyActiveCached` |
| | `StalenessBounded` | `Spec => []StaleOnlyByOverlap` |
| | `FreshHits` | `Spec => HitsServeTheRow` |
| | `TableIsRegistry` | `Spec => ImplementsRegistry` |
| `ClickPipelineProofs` | `TypeCorrect`, `Invariance` | `Spec => []TypeOK`, `Spec => []Inv` |
| | `CountersAgree` | `Spec => []CountAgrees` |
| | `CopiesAreBounded` | `Spec => []CopiesBounded` |
| | `PipelineIsLedger` | `Spec => ImplementsLedger` |
| `AccountsProofs` | `TypeCorrect`, `Invariance` | `Spec => []TypeOK`, `Spec => []Inv` |
| | `AddressesHaveOneAccount` | `Spec => []OneAccountPerEmail` |
| | `RotationLeavesOne` | `Spec => []OneValidTokenPerFamily` |
| | `ParentsAreRevoked` | `Spec => []HeirsReplaceTheirParents` |
| | `NoTokenIsLost` | `Spec => RevokedByLogoutOrExchange` |
| `RateLimiterProofs` | `TypeCorrect`, `Invariance` | `Spec => []TypeOK`, `Spec => []Inv` |
| | `BurstsAreBounded` | `Spec => []AdmissionsBounded` |
| | `DenialsAreJustified` | `Spec => []DenialsJustified` |
| `SummariesProofs` | `TypeCorrect`, `Invariance` | `Spec => []TypeOK`, `Spec => []Inv` |
| | `PartsAreGrowing` | `Spec => []PartsGrow` |
| | `PartsAreInPeriod` | `Spec => []PartsInPeriod` |
| | `GoneLinksAreFading` | `Spec => []GoneLinksFade` |
| `HotCacheProofs` | `TypeCorrect`, `Invariance` | `Spec => []TypeOK`, `Spec => []Inv` |
| | `PopularLinksStayCached` | `Spec => []PopularLinksStay` |
| | `ProlongationIsEarned` | `Spec => []ProlongationEarned` |
| | `CountersAreRolling` | `Spec => []CountersRoll` |
| `ConnectionsProofs` | `TypeCorrect`, `Invariance` | `Spec => []TypeOK`, `Spec => []Inv` |
| | `NoCircles` | `Spec => []NoDeadlock` |
| `ListingProofs` | `TypeCorrect`, `Invariance` | `Spec => []TypeOK`, `Spec => []Inv` |
| | `RepeatsAreFew` | `Spec => []RepeatsBounded` |
| | `MissesAreFew` | `Spec => []MissesBounded` |
| | `TotalsAreTrue` | `Spec => TotalsAgree` |

### Links

From `AdminsAreUsers`, `BoundsAreNat` and `NoneIsNothing` of `Links`.

None of these is inductive by itself. `IndInv` strengthens them by what the handlers
rely on without saying so:

- `KeysUnique` extends uniqueness to rows that are inserted and not committed; without
  it the commit of a create could produce the second link of a code.
- `RequestsConsistent`, `RequestsPlaced`, `CreatorsApart`: where a request is determines
  what it holds, for instance that a create between insert and commit owns a pending
  row with its code.
- `LocksHeld`: an update that has been flushed keeps its row from being deleted or
  updated until it ends. This is why the `CommitUpdate` of an update writes to a live row.
- `ExposureCaught`: once a writer has made its last purge, whatever is cached of its link
  is marked as raced, and so is every payload on its way. This is why the commit
  may change the row.
- `PayloadsFresh`: a payload on its way to the cache that is not marked agrees with
  the row.
- `CacheWellFormed`: what is cached is active, under a code of its row.

The proof has one lemma per action and conjunct that the action can disturb, and
lemmas for the shared steps (`Answer`, `Pass`, `Begin`, `Purge`), so that an action that
only moves on is one citation. The type invariant is proved with `RequestsPlaced`
because a request's operands are typed only where it uses them.

`TableIsRegistry` needs one invariant more, `Authorised`: the caller of an update or delete
past its load is the owner of the link it works on, or an administrator, and the caller of a
create past its insert is the owner of the row. The load has checked that, awaits ago; it is
still so at the commit because no statement changes an owner (`OwnersKept`), neither of
a live row nor of one that was deleted meanwhile, and a request keeps its caller
(`SameCall`). The commits of create, update and delete are then steps of the registry
(`CreateOpens`, `UpdateChanges`, `DeleteRemoves`) by the call of that request, which ends with
them (`CallEnds`), or change nothing in its book, and of everything else only the beginnings
and ends of calls are visible there (`CallsMove`, `OthersInvisible`).

### The click pipeline

From `PipelineConstants` and `ClicksFinite`. The invariant:

- `WorkerPlaced`: popped clicks are in the worker's hands from the pop to the end of the
  flush, and never more than `BATCH_SIZE` of them.
- `OnceQueued`, `ClicksAccepted`: a queue, the snapshot included, has no click twice, and
  clicks anywhere were accepted for a link.
- `EventsNumbered`: stored events carry numbers of transactions that are past, so that the
  insert of a batch adds one event for each of its clicks and never one that was there.
- `BatchStorable`: from insert to commit the links of the batch are live. The foreign key's
  locks are what keeps a delete out, and without it the commit could orphan events.
- `CountsExact`: every link's counter is the number of its events; of a link that is not live
  both are none. `CountAgrees` alone, which speaks of live links, is not inductive.

`CopiesBounded` is part of the invariant: push and pop move a copy, the commit turns one
in the worker's hands into an event, and a restore adds at most the copy in the snapshot.
`PipelineIsLedger` maps each step: pushes are acceptances, commits are settlements with the
batch as the ledger's set, flushes that end in nothing give the batch up (the fault or the bad click
the ledger asks for is the one that ended them), restarts of Redis forget and restore
what is owed, and all other steps leave the ledger as it is.

### Accounts

From `ClockConstants` and `NoneIsNothing`. The invariant:

- `Placed`, `InsertersOwn`, `RegistrarsOwn`: the operands of each request, and that a user or
  token it has inserted and not committed is its own.
- `AddressesUnique`: the unique index covers rows that are not committed, so that the second
  of two registrations that both found the address free has to wait or fail.
- `LocksExclusive`: the row of a token is locked by one request.
- `FoundersStored`: a family is named after a token that was stored first; the name is
  fresh when the next founder commits.
- `NextOfFamily`: a token waiting for its commit is the only one waiting in its family, and
  what is valid in the family is the one it replaces. That is what makes
  `OneValidTokenPerFamily` inductive, and it rests on the lock.

### The rate limiter

From `LimiterConstants`. The invariant:

- `SetHolds`: the set holds admitted requests, `Limit` at most, and its expiry is a window
  later than the latest admission in it.
- `ClocksRead`: stamps and script times are not ahead of the clock.
- `LossesBounded`: of the admissions that a window still open counts, at most
  `Limit * restarts` are missing in the set. A script removes only what is older than
  its own window (`RecentIsKept`): its stamp is not ahead of the clock, and what is late by
  `d` at most has a stamp within the window as long as its script has run within
  `Window - d`. A restart loses `Limit` more at most.

`AdmissionsBounded` follows for open windows by adding the two bounds; a closed window
changes no more. The set of requests may be infinite: only finitely many have been
admitted at any time.

### Summaries

From `SummaryConstants`. The clicks of a live link never change (`LinksGoOn`,
`LinksMove`): a commit of the worker adds some, time passes, and only a delete takes them
away. So a part that was read stays what its link's clicks were (`Sound`), and whatever was
counted is among the clicks that a later statement sees (`CountedRecorded`), which starts
from the same beginning, or the days' one, which is no earlier. The visitors and the days then
have what passes their filters (`UniqueDone`, `DailyDone`). A breakdown has the largest groups
of all that its statement sees; a group that it leaves out was no larger in the earlier parts
than it is there (`GroupsGrow`), and so no larger than any that is shown (`TopShows`,
`NextShown`). The proofs use nothing of what clicks have in their columns. `CacheWhole` carries this to the cached
summary, whose expiry is at most the time to live after now and, unless it is marked late,
after the link's end.

### The hot cache

From `TimesToLive`, `Bounds`, `NoneIsNoNumber` and `NoneIsNoKey`. `CopiesOutlive` states that the copy
outlives a counter that was renewed by a tracked click, and says the same of the snapshot,
which a restart may bring back at any time. `CountsSincePurge`: unless `frayed`, the counter and what
redirects remember of it are no more than the clicks since the purge. `RenewalFollows`: if
no redirect is between INCR and EXPIRE, the counter ends a window after the last click or
later; the last of several overlapping redirects renews it for all of them.

### Connections

From `WorkerIsNoRequest`, `FiniteActors`, `FiniteThings` and `PoolHoldsOne`. The invariant: each actor is in the
script of its handler, a request works on one thing, whoever is behind a checkout has a
connection (`Attached`, `Placed`), and every lock was taken in a step of its holder's
script that is done, or is being done row by row by the worker (`Taken`). Three facts of the
scripts, checked script by script, do the rest: a script locks only with a connection and
ends such a session with a release (`Orderly`); a request that holds a lock and waits for
another holds `revoke` and waits for `hash` (`Parents`); the worker locks links only
(`LinksOnly`). Hence a chain of waits for locks has two links at most (`ShortChains`): who holds
`hash`, or the lock of a link that the worker waits for, waits for no lock. And who waits for
the pool waits for somebody who has a connection and so is not waiting for one.

### The listing

From `PageSize`, `ClockBound` and `FiniteLinks`. Without ties the pages before `Offset` hold the
links with fewer than `Offset` newer ones, whichever way the rows were taken (`NewestIsTop`, and
`NextPage` for the rows of a page with those before them). The invariant:

- `HistoryTrue`: while a walk goes on, the table holds links that were there when it began or
  have arrived since, so that ties among them are ties of the walk.
- `TotalTrue`: the table has outgrown the last COUNT by what has arrived since, at most, and
  agrees with it if nothing was committed.
- `Moves`: repeats, and links that were shown and are now behind the offset (`Beyond`), are
  together no more than the arrivals; links that were not shown and are now before the offset
  (`Skipped`) no more than the departures.

An arrival moves one link at most across the offset, backwards, and a departure one, forwards
(`Arrival`, `Departure`), because no two links have the same number of newer ones
(`RanksDiffer`). A page takes what it repeats out of `Beyond` (`PageMoves`). The last page ends at
or after the total (`MorePages`), so that what lies behind it arrived after the COUNT
(`LastPage`). `RepeatsBounded` and `MissesBounded` are not inductive: neither says where the
offset is among the links that were shown.

### What is not proved

Everything under fairness, which is out of the prover's reach: `EveryRequestEnds` of `Links`
and of `Connections`, `ClicksSettle`. They stay with TLC.

## Findings

Three runs check what a comment of the code says, and TLC refutes it:

1. `links_stale`. "Invalidate cache so the updated data is served immediately"
   (`app/services/url.py:124`): the purge precedes the commit. A redirect that selected
   the old row before the commit warms the cache with it after the purge, and the old
   payload is served until its entry expires.
2. `clicks_poison`. The worker "drains the Redis analytics queue and persists click events
   to PostgreSQL in batches" (`app/analytics/processor.py:21-22`), and parses each event in a
   `try` of its own (`:77-96`); but one event that fails in the database, for instance
   because its link has been deleted, fails the flush of its whole batch, which has been
   popped. Good events are lost with no fault at all.
3. `summaries_period`. "30-day analytics" (`README.md:244`): a request that names no period
   gets the cached summary of whatever period was asked for last.

Noted while modelling, without a run:

- A crash between LMPOP and the commit loses the batch: popped events are in the
  worker's memory only. (`app/cache/analytics_cache.py:32-34` prefers LMPOP to LRANGE and
  LTRIM because of crashes; with those the events would still have been in the list.)
  `ClickLedger` allows it: an interruption may give a batch up.
- `total_clicks` is of all time and read first, the breakdowns are of the period and read
  later; a percentage of an overlapped summary may exceed 100.
- `top_countries` of a summary is always empty: `_enqueue_click`
  (`app/services/redirect.py:103-111`) never sets a country.
- A deleted link's summary is served until it expires, also to those who ask for the next
  link with its code (`GoneLinksFade` bounds this).
- Overlapping exchanges of one refresh token in different seconds both succeed; two
  logins or exchanges of one user in the same second collide and one gets 500.
- A member's create that times out while its user is looked up becomes a link without an
  owner, answered with 201 (`app/dependencies/auth.py:53`); only administrators can change
  such a link.
- A copy that is stale when it is cached lives as long as its link is clicked often enough:
  every click prolongs it by two hours whatever it holds (`app/cache/url_cache.py:58-60`), and
  only a purge ends it.
- The comment "Refresh window every 1000 clicks" (`app/cache/url_cache.py:55`) is about a
  statement that runs at every click.
- A client that walks the pages while links are created is shown links twice; offsets are
  taken anew for every page, and ties in `created_at` are not broken.
- The rate limiter's `reset_after` is not the time until the window frees a place.
- `README.md:126-130` gives other limits than the endpoints; `README.md:89-90` still
  describes LRANGE and LTRIM.
- A custom alias may be a path the application serves itself (`docs`, `health`); the link
  is created and its redirect is never reached.
- `revoke_all_for_user` and the `AnalyticsSnapshot` table have no caller.

## Not modelled

- QR pictures: a pure function of the code, cached for a day; nothing they encode changes.
  Their handler's waiting is in `Connections`.
- Validation, the code generator, the user agent parser and the decoding of access tokens:
  pure reads; `Links` takes any user as the caller and any code from the generator.
- Times: `pool_timeout` may strike at any moment of a wait (`Fail`, `Anonymous`), and how long a
  wait is, is not modelled. Nor is the Redis pool: that it is exhausted is a cause of `Fail`.
- Analytics snapshots: dead code. Logging, health, settings, migration: no state.

## Plan

What is left:

- Shorter proofs where one lemma could serve several modules: counting parts of finite sets
  (`ListingProofs`, `RateLimiterProofs`, `ClickPipelineProofs`, `ConnectionsProofs`).
