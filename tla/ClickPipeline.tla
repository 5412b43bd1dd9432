--------------------------- MODULE ClickPipeline ---------------------------
(***************************************************************************)
(* Clicks on their way from a redirect to PostgreSQL: the Redis list       *)
(* analytics:queue (app/cache/analytics_cache.py) and the worker that      *)
(* drains it (app/analytics/processor.py, started and stopped by the       *)
(* lifespan of app/main.py).                                               *)
(*                                                                         *)
(* The worker is one task; every await of _flush is a step, and at every   *)
(* await the task can be cancelled by stop(), fail, or die with the        *)
(* process.  The worker's session is one transaction from the insert to    *)
(* the commit.                                                             *)
(***************************************************************************)
EXTENDS Naturals, Sequences, FiniteSets, Functions

CONSTANTS
  Clicks,      \* identities of accepted clicks
  Links,       \* identities of links
  Oversized,   \* clicks whose user agent or referrer exceeds its column
  BatchSize,   \* settings.ANALYTICS_BATCH_SIZE
  MaxFaults,   \* bound on crashes, shutdowns and failing statements
  MaxRestores, \* bound on restarts of Redis
  None         \* no link

ASSUME PipelineConstants ==
  /\ Oversized \subseteq Clicks
  /\ BatchSize \in Nat \ {0}
  /\ MaxFaults \in Nat /\ MaxRestores \in Nat
  /\ None \notin Links

ASSUME ClicksFinite == IsFiniteSet(Clicks)

VARIABLES
  dest,     \* short_url_id of each accepted click
  status,   \* the short_urls row of each link
  queue,    \* analytics:queue
  saved,    \* the queue in the last RDB snapshot of Redis
  wpc,      \* where the worker is suspended
  phase,    \* the process: serving, stopping or down
  batch,    \* events popped and not yet committed
  todo,     \* links whose counter the open transaction has still to raise
  events,   \* click_events: rows <<click, number of the transaction>>
  count,    \* short_urls.click_count
  flushes,  \* transactions committed so far
  faults,   \* crashes, shutdowns and failures so far
  restores  \* restarts of Redis so far

vars == <<dest, status, queue, saved, wpc, phase, batch, todo, events, count,
          flushes, faults, restores>>

worker == <<wpc, phase, batch, todo>>
store  == <<status, events, count, flushes>>
redis  == <<queue, saved>>
bounds == <<faults, restores>>

WorkerPcs == {"asleep", "llen", "pop", "insert", "count", "commit", "down"}

TypeOK ==
  /\ dest \in [Clicks -> Links \cup {None}]
  /\ status \in [Links -> {"uncommitted", "live", "gone"}]
  /\ queue \in Seq(Clicks)
  /\ saved \in Seq(Clicks)
  /\ wpc \in WorkerPcs
  /\ phase \in {"serving", "stopping", "down"}
  /\ batch \in SUBSET Clicks
  /\ todo \in SUBSET Links
  /\ events \in SUBSET (Clicks \X Nat)
  /\ count \in [Links -> Nat]
  /\ flushes \in Nat
  /\ faults \in 0..MaxFaults
  /\ restores \in 0..MaxRestores

Init ==
  /\ dest = [c \in Clicks |-> None]
  /\ status = [l \in Links |-> "uncommitted"]
  /\ queue = <<>>
  /\ saved = <<>>
  /\ wpc = "llen"
  /\ phase = "serving"
  /\ batch = {}
  /\ todo = {}
  /\ events = {}
  /\ count = [l \in Links |-> 0]
  /\ flushes = 0
  /\ faults = 0
  /\ restores = 0

-----------------------------------------------------------------------------
\* Redirects and links: the surroundings of the worker.

\* Background task _enqueue_click.  The redirect may have followed a cached copy
\* of a link that is not committed yet, or not there any more.
Push(c, l) ==
  /\ phase = "serving"
  /\ dest[c] = None
  /\ dest' = [dest EXCEPT ![c] = l]
  /\ queue' = Append(queue, c)
  /\ UNCHANGED <<saved, worker, store, bounds>>

CommitLink(l) ==
  /\ status[l] = "uncommitted"
  /\ status' = [status EXCEPT ![l] = "live"]
  /\ UNCHANGED <<dest, redis, worker, events, count, flushes, bounds>>

Targets(S)     == {dest[c] : c \in S}
ClicksOn(S, l) == Cardinality({c \in S : dest[c] = l})

\* From the insert to the commit the worker's transaction holds key-share locks
\* on the rows its events refer to, so a delete of those rows waits.
Locked(l) == wpc \in {"count", "commit"} /\ l \in Targets(batch)

\* The foreign key deletes the events of the link (ON DELETE CASCADE).
DeleteLink(l) ==
  /\ status[l] = "live"
  /\ ~Locked(l)
  /\ status' = [status EXCEPT ![l] = "gone"]
  /\ events' = {e \in events : dest[e[1]] # l}
  /\ count' = [count EXCEPT ![l] = 0]
  /\ UNCHANGED <<dest, redis, worker, flushes, bounds>>

-----------------------------------------------------------------------------
\* AnalyticsProcessor._flush, one step per await.

\* A flush is over: _run sleeps, stop() is done.
EndFlush ==
  /\ batch' = {}
  /\ todo' = {}
  /\ IF phase = "stopping"
     THEN wpc' = "down" /\ phase' = "down"
     ELSE wpc' = "asleep" /\ phase' = phase

\* ANALYTICS_FLUSH_INTERVAL has passed.
Wake ==
  /\ wpc = "asleep"
  /\ wpc' = "llen"
  /\ UNCHANGED <<dest, phase, batch, todo, redis, store, bounds>>

QueueLength ==
  /\ wpc = "llen"
  /\ IF queue = <<>>
     THEN EndFlush
     ELSE wpc' = "pop" /\ UNCHANGED <<phase, batch, todo>>
  /\ UNCHANGED <<dest, redis, store, bounds>>

\* Mutant: a range whose end is included.
TakenInclusive == IF Len(queue) < BatchSize + 1 THEN Len(queue) ELSE BatchSize + 1

Taken   == IF Len(queue) < BatchSize THEN Len(queue) ELSE BatchSize
Popped  == Range(SubSeq(queue, 1, Taken))
Unpopped == SubSeq(queue, Taken + 1, Len(queue))

\* Mutant: a read (LRANGE) without its trim.
PeekEvents ==
  /\ wpc = "pop"
  /\ IF queue = <<>>
     THEN EndFlush
     ELSE batch' = Popped /\ wpc' = "insert" /\ UNCHANGED <<phase, todo>>
  /\ UNCHANGED <<dest, redis, store, bounds>>

\* LMPOP; the queue may have become empty since it was measured.
PopEvents ==
  /\ wpc = "pop"
  /\ queue' = Unpopped
  /\ IF queue = <<>>
     THEN EndFlush
     ELSE batch' = Popped /\ wpc' = "insert" /\ UNCHANGED <<phase, todo>>
  /\ UNCHANGED <<dest, saved, store, bounds>>

Bad(c) == c \in Oversized \/ status[dest[c]] # "live"

\* bulk_insert is one flush: one bad event and none of the batch is stored.
BulkInsert ==
  /\ wpc = "insert"
  /\ IF \E c \in batch : Bad(c)
     THEN EndFlush
     ELSE wpc' = "count" /\ todo' = Targets(batch) /\ UNCHANGED <<phase, batch>>
  /\ UNCHANGED <<dest, redis, store, bounds>>

\* Mutant: the commit has slipped into the loop over the links.
IncrementFirstCount(l) ==
  /\ wpc = "count"
  /\ l \in todo
  /\ todo' = todo \ {l}
  /\ wpc' = "commit"
  /\ UNCHANGED <<dest, phase, batch, redis, store, bounds>>

\* One UPDATE per link; the order is that of a Counter's keys.
IncrementClickCount(l) ==
  /\ wpc = "count"
  /\ l \in todo
  /\ todo' = todo \ {l}
  /\ wpc' = IF todo' = {} THEN "commit" ELSE "count"
  /\ UNCHANGED <<dest, phase, batch, redis, store, bounds>>

\* Mutant: the sign of the increment.
CommitDecrement ==
  /\ wpc = "commit"
  /\ events' = events \cup (batch \X {flushes})
  /\ count' = [l \in Links |-> count[l] - ClicksOn(batch, l)]
  /\ flushes' = flushes + 1
  /\ EndFlush
  /\ UNCHANGED <<dest, status, redis, bounds>>

\* The events and the increments of every link not in todo become visible.
Commit ==
  /\ wpc = "commit"
  /\ events' = events \cup (batch \X {flushes})
  /\ count' = [l \in Links |-> IF l \in Targets(batch) \ todo
                               THEN count[l] + ClicksOn(batch, l) ELSE count[l]]
  /\ flushes' = flushes + 1
  /\ EndFlush
  /\ UNCHANGED <<dest, status, redis, bounds>>

-----------------------------------------------------------------------------
\* Faults.

Fault == faults < MaxFaults /\ faults' = faults + 1 /\ restores' = restores

\* LMPOP is executed by Redis, and whoever sent it never sees the reply.
PopUnseen == wpc = "pop" /\ queue' = Unpopped /\ saved' = saved

\* Mutant: _run without its except, so that the task ends with the error.
FlushErrorUncaught ==
  /\ Fault
  /\ wpc \in {"llen", "pop", "insert", "count", "commit"}
  /\ wpc' = "down"
  /\ batch' = {}
  /\ todo' = {}
  /\ PopUnseen \/ UNCHANGED redis
  /\ UNCHANGED <<dest, phase, store>>

\* An await raises: _run logs it (after stop() it ends the shutdown instead) and
\* what had been popped is nobody's.
FlushError ==
  /\ Fault
  /\ wpc \in {"llen", "pop", "insert", "count", "commit"}
  /\ EndFlush
  /\ PopUnseen \/ UNCHANGED redis
  /\ UNCHANGED <<dest, store>>

\* stop(): the task is cancelled at its await, then one last flush begins.
Stop ==
  /\ Fault
  /\ phase = "serving"
  /\ phase' = "stopping"
  /\ wpc' = "llen"
  /\ batch' = {}
  /\ todo' = {}
  /\ PopUnseen \/ UNCHANGED redis
  /\ UNCHANGED <<dest, store>>

Crash ==
  /\ Fault
  /\ phase # "down"
  /\ phase' = "down"
  /\ wpc' = "down"
  /\ batch' = {}
  /\ todo' = {}
  /\ PopUnseen \/ UNCHANGED redis
  /\ UNCHANGED <<dest, store>>

\* restart: unless-stopped; start() begins with a flush.
Restart ==
  /\ phase = "down"
  /\ phase' = "serving"
  /\ wpc' = "llen"
  /\ UNCHANGED <<dest, batch, todo, redis, store, bounds>>

\* redis-server --save 60 1
SaveRdb ==
  /\ saved # queue
  /\ saved' = queue
  /\ UNCHANGED <<dest, queue, worker, store, bounds>>

RedisRestart ==
  /\ restores < MaxRestores
  /\ restores' = restores + 1
  /\ queue' = saved
  /\ UNCHANGED <<dest, saved, worker, store, faults>>

-----------------------------------------------------------------------------
Flush == \/ Wake \/ QueueLength \/ PopEvents \/ BulkInsert
         \/ \E l \in Links : IncrementClickCount(l)
         \/ Commit

Surroundings == \/ \E c \in Clicks, l \in Links : Push(c, l)
                \/ \E l \in Links : CommitLink(l) \/ DeleteLink(l)

Faults == FlushError \/ Stop \/ Crash \/ Restart \/ SaveRdb \/ RedisRestart

Next == Flush \/ Surroundings \/ Faults

Spec == Init /\ [][Next]_vars

\* The loop resumes the worker whenever its await returns; the container is
\* restarted when it is down.
FairSpec == Spec /\ WF_vars(Flush) /\ WF_vars(Restart)

-----------------------------------------------------------------------------
\* Properties.

Pending(c)  == c \in Range(queue) \/ c \in batch
Recorded(c) == \E e \in events : e[1] = c

\* "Stats (denormalized for fast reads; authoritative count is in click_events)"
\* (app/models/short_url.py:40): whatever is interrupted, the counter of a link
\* is the number of its click events.
CountAgrees ==
  \A l \in Links : status[l] = "live" =>
    count[l] = Cardinality({e \in events : dest[e[1]] = l})

\* A click is queued, in the worker's hands and recorded once at most, and once
\* more for every time Redis came back with an older queue.
Copies(c) == (IF c \in Range(queue) THEN 1 ELSE 0) + (IF c \in batch THEN 1 ELSE 0)
             + Cardinality({e \in events : e[1] = c})

CopiesBounded == \A c \in Clicks : Copies(c) <= 1 + restores

\* The pipeline implements the ledger: batches are recorded whole, or given up
\* whole on an interruption or because of an event that cannot be stored.
owed == [c \in Clicks |-> (IF c \in Range(queue) THEN 1 ELSE 0)
                          + (IF c \in batch THEN 1 ELSE 0)]

Ledger == INSTANCE ClickLedger WITH
  dest <- dest, status <- status, owed <- owed, events <- events,
  count <- count, flushes <- flushes, faults <- faults, restores <- restores

ImplementsLedger == Ledger!LedgerSpec

\* Whatever the worker, Redis and the process go through, a click that waits is
\* settled one day.
ClicksSettle == \A c \in Clicks : Pending(c) ~> ~Pending(c)

Dropped(c) == c \in batch \ batch' /\ ~Recorded(c)' /\ c \notin Range(queue')

\* "drains the Redis analytics queue and persists click events to PostgreSQL"
\* (app/analytics/processor.py:21-22), and guards each event's parsing on its own:
\* with no fault, only an event that cannot be stored is dropped.
BadEventsDroppedAlone ==
  [][\A c \in Clicks : Dropped(c) /\ UNCHANGED faults => Bad(c)]_vars

=============================================================================
