------------------------------ MODULE HotCache ------------------------------
(***************************************************************************)
(* Times to live of the two Redis keys of one code: "url:<code>", the copy *)
(* of a link's row, and "hot:<code>", the counter of its recent clicks     *)
(* (app/cache/url_cache.py), as creates, the background tasks of redirects  *)
(* and the purges of updates and deletes use them.                         *)
(*                                                                         *)
(* Every call on Redis is a step, so a click is counted, its counter       *)
(* renewed and its link's copy prolonged by three steps between which the  *)
(* keys may expire, be purged or come back from a snapshot.  A Redis key   *)
(* is gone at the instant its deadline is reached, and EXPIRE on a key     *)
(* that is gone does nothing.  What a copy holds is left to Links: nothing *)
(* here looks at it, which is why a stale copy may be prolonged.           *)
(***************************************************************************)
EXTENDS Naturals

CONSTANTS
  Reqs,        \* concurrent redirects; a slot is reused when it is free
  Ttl,         \* settings.URL_CACHE_TTL
  Window,      \* the time to live of the counter, 3600 in track_click
  Threshold,   \* settings.HOT_URL_CLICK_THRESHOLD
  MaxCount,    \* bound on clicks between two purges
  MaxNow,      \* the clock stops here (bound)
  MaxRestores, \* bound on restarts of Redis
  None         \* no key, no deadline

\* The window is written out in track_click and the time to live is a setting; a
\* copy outlives its counter only as long as the window is not the longer one.
ASSUME TimesToLive == Ttl \in Nat \ {0} /\ Window \in 1..Ttl
ASSUME Bounds == /\ Threshold \in Nat \ {0}
                 /\ MaxCount \in Nat /\ MaxNow \in Nat /\ MaxRestores \in Nat
ASSUME NoneIsNoNumber == None \notin Nat

VARIABLES
  now,      \* wall clock
  entry,    \* the key "url:<code>"
  hot,      \* the key "hot:<code>"
  saved,    \* both keys in the last RDB snapshot of Redis
  pc,       \* where each redirect is suspended
  seen,     \* what INCR returned to a redirect
  clicks,   \* history: INCRs since the last purge
  clicked,  \* history: when the last of them ran
  frayed,   \* history: since the last purge a click was not counted and renewed in one go
  restores  \* restarts of Redis so far

vars == <<now, entry, hot, saved, pc, seen, clicks, clicked, frayed, restores>>

keys    == <<entry, hot>>
history == <<clicks, clicked, frayed>>
rest    == <<saved, restores>>

Latest  == MaxNow + 2 * Ttl
\* written: when SETEX ran.  kept: the click that last renewed the counter has ended,
\* was one of the Threshold-th or later and found the copy in the cache.
Copy    == [written : 0..MaxNow, until : 0..Latest]
Counter == [count : 1..MaxCount, until : (0..Latest) \cup {None}, kept : BOOLEAN]
Pcs     == {"idle", "warm", "incr", "renew", "prolong"}

ASSUME NoneIsNoKey == None \notin Copy \cup Counter

TypeOK ==
  /\ now \in 0..MaxNow
  /\ entry \in Copy \cup {None}
  /\ hot \in Counter \cup {None}
  /\ saved \in [entry : Copy \cup {None}, hot : Counter \cup {None}]
  /\ pc \in [Reqs -> Pcs]
  /\ seen \in [Reqs -> 0..MaxCount]
  /\ clicks \in 0..MaxCount
  /\ clicked \in (0..MaxNow) \cup {None}
  /\ frayed \in BOOLEAN
  /\ restores \in 0..MaxRestores

Init ==
  /\ now = 0
  /\ entry = None
  /\ hot = None
  /\ saved = [entry |-> None, hot |-> None]
  /\ pc = [r \in Reqs |-> "idle"]
  /\ seen = [r \in Reqs |-> 0]
  /\ clicks = 0
  /\ clicked = None
  /\ frayed = FALSE
  /\ restores = 0

-----------------------------------------------------------------------------
\* RedirectService.resolve and its background tasks.

\* GET: a hit leaves only the click to be tracked, a miss selects the row and caches
\* it first.
Get(r) ==
  /\ pc[r] = "idle"
  /\ pc' = [pc EXCEPT ![r] = IF entry = None THEN "warm" ELSE "incr"]
  /\ UNCHANGED <<now, keys, seen, history, rest>>

\* URLCache.set: SETEX writes the copy and its deadline, whatever was there.
Warm(r) ==
  /\ pc[r] = "warm"
  /\ entry' = [written |-> now, until |-> now + Ttl]
  /\ pc' = [pc EXCEPT ![r] = "incr"]
  /\ UNCHANGED <<now, hot, seen, history, rest>>

\* The copy that URLService.create writes: no click comes with it.
Fill ==
  /\ entry' = [written |-> now, until |-> now + Ttl]
  /\ UNCHANGED <<now, hot, pc, seen, history, rest>>

\* track_click: INCR makes a counter without a deadline or leaves the deadline be.
Incr(r) ==
  /\ pc[r] = "incr"
  /\ clicks < MaxCount
  /\ hot # None => hot.count < MaxCount
  /\ hot' = IF hot = None THEN [count |-> 1, until |-> None, kept |-> FALSE]
                          ELSE [hot EXCEPT !.count = @ + 1]
  /\ seen' = [seen EXCEPT ![r] = hot'.count]
  /\ pc' = [pc EXCEPT ![r] = "renew"]
  /\ clicks' = clicks + 1
  /\ clicked' = now
  /\ UNCHANGED <<now, entry, frayed, rest>>

\* Mutant: only the click that crosses the threshold prolongs the copy.
Crossing(r) == seen[r] = Threshold

Popular(r) == seen[r] >= Threshold

\* The end of a click: next is enqueue_click, which is not about these keys.
EndTrack(r) == /\ pc' = [pc EXCEPT ![r] = "idle"]
               /\ seen' = [seen EXCEPT ![r] = 0]

\* Mutants may end a click at Renew that the code lets go on.
Kept(r) == seen[r] >= Threshold /\ entry # None

\* Mutant: EXPIRE ... NX, a window that is fixed by its first click.
RenewOnce(r) ==
  /\ pc[r] = "renew"
  /\ hot' = IF hot = None \/ hot.until # None THEN hot
            ELSE [hot EXCEPT !.until = now + Window, !.kept = ~Popular(r) /\ Kept(r)]
  /\ frayed' = (frayed \/ hot = None)
  /\ IF Popular(r) THEN pc' = [pc EXCEPT ![r] = "prolong"] /\ UNCHANGED seen
                   ELSE EndTrack(r)
  /\ UNCHANGED <<now, entry, clicks, clicked, rest>>

\* EXPIRE hot:<code>
Renew(r) ==
  /\ pc[r] = "renew"
  /\ hot' = IF hot = None THEN None
            ELSE [hot EXCEPT !.until = now + Window, !.kept = ~Popular(r) /\ Kept(r)]
  /\ frayed' = (frayed \/ hot = None)
  /\ IF Popular(r) THEN pc' = [pc EXCEPT ![r] = "prolong"] /\ UNCHANGED seen
                   ELSE EndTrack(r)
  /\ UNCHANGED <<now, entry, clicks, clicked, rest>>

\* Mutant: the deadline moves by the doubled time to live at every click.
ProlongFurther(r) ==
  /\ pc[r] = "prolong"
  /\ entry' = IF entry = None THEN None ELSE [entry EXCEPT !.until = @ + 2 * Ttl]
  /\ hot' = IF hot = None THEN None ELSE [hot EXCEPT !.kept = Kept(r) /\ hot.until # None]
  /\ EndTrack(r)
  /\ UNCHANGED <<now, history, rest>>

\* EXPIRE url:<code>
Prolong(r) ==
  /\ pc[r] = "prolong"
  /\ entry' = IF entry = None THEN None ELSE [entry EXCEPT !.until = now + 2 * Ttl]
  /\ hot' = IF hot = None THEN None ELSE [hot EXCEPT !.kept = Kept(r) /\ hot.until # None]
  /\ EndTrack(r)
  /\ UNCHANGED <<now, history, rest>>

\* An await raises or the SELECT finds no row: the tasks after it are dropped.
Fail(r) ==
  /\ pc[r] # "idle"
  /\ pc' = [pc EXCEPT ![r] = "idle"]
  /\ seen' = [seen EXCEPT ![r] = 0]
  /\ frayed' = (frayed \/ pc[r] = "renew")
  /\ UNCHANGED <<now, keys, clicks, clicked, rest>>

\* Mutant: the counter stays.
PurgeCopy ==
  /\ entry' = None
  /\ hot' = hot
  /\ clicks' = 0
  /\ clicked' = None
  /\ frayed' = (\E r \in Reqs : pc[r] \in {"renew", "prolong"})
  /\ UNCHANGED <<now, pc, seen, rest>>

\* URLCache.delete, on behalf of an update or a delete: one DEL of both keys.
Purge ==
  /\ entry' = None
  /\ hot' = None
  /\ clicks' = 0
  /\ clicked' = None
  /\ frayed' = (\E r \in Reqs : pc[r] \in {"renew", "prolong"})
  /\ UNCHANGED <<now, pc, seen, rest>>

-----------------------------------------------------------------------------
\* Redis and the clock.

Alive(key, t) == key = None \/ key.until = None \/ t < key.until
Present(key, t) == IF Alive(key, t) THEN key ELSE None

Tick ==
  /\ now < MaxNow
  /\ now' = now + 1
  /\ entry' = Present(entry, now')
  /\ hot' = Present(hot, now')
  /\ UNCHANGED <<pc, seen, history, rest>>

\* redis-server --save 60 1
SaveRdb ==
  /\ saved # [entry |-> entry, hot |-> hot]
  /\ saved' = [entry |-> entry, hot |-> hot]
  /\ UNCHANGED <<now, keys, pc, seen, history, restores>>

\* Deadlines in a snapshot are absolute: what has expired since is not loaded,
\* what has been purged since comes back.
RedisRestart ==
  /\ restores < MaxRestores
  /\ restores' = restores + 1
  /\ entry' = Present(saved.entry, now)
  /\ hot' = Present(saved.hot, now)
  /\ frayed' = TRUE
  /\ UNCHANGED <<now, saved, pc, seen, clicks, clicked>>

-----------------------------------------------------------------------------
Redirect == \E r \in Reqs : \/ Get(r) \/ Warm(r) \/ Incr(r)
                            \/ Renew(r) \/ Prolong(r) \/ Fail(r)
Next == Redirect \/ Fill \/ Purge \/ Tick \/ SaveRdb \/ RedisRestart

Spec == Init /\ [][Next]_vars

-----------------------------------------------------------------------------
\* Properties.

\* "its Redis TTL is doubled automatically, preventing popular links from ever
\* expiring from cache" (README.md:110): once a click of a popular link has been
\* tracked to its end with the copy in the cache, the copy outlives the counter,
\* whoever rewrites it with the single time to live meanwhile.  The counter is renewed
\* by clicks, so a popular link is in the cache for as long as it is clicked.
PopularLinksStay == hot # None /\ hot.kept => entry # None /\ entry.until >= hot.until

\* A copy lives longer than the single time to live only if Threshold clicks came
\* after the last purge: the popularity of what was purged is not inherited by what
\* is cached next, be it stale, unless a click was under way at the purge or Redis
\* brought the purged keys back.
ProlongationEarned ==
  entry # None /\ entry.until > entry.written + Ttl => clicks >= Threshold \/ frayed

InTrack == \E r \in Reqs : pc[r] = "renew"

\* The counter rolls (README.md:104): it lives for a whole Window after each click
\* and no counter is left without a deadline, although INCR and EXPIRE are two calls,
\* unless a click was cut short between them.
CountersRoll ==
  ~InTrack /\ ~frayed =>
    /\ hot # None => hot.until # None
    /\ clicked # None /\ now < clicked + Window => hot # None

=============================================================================
