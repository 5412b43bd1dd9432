---------------------------- MODULE RateLimiter ----------------------------
(***************************************************************************)
(* SlidingWindowRateLimiter.is_allowed (app/cache/rate_limiter.py) for one *)
(* identifier and endpoint, that is, for one sorted set in Redis.          *)
(*                                                                         *)
(* A request reads the clock, then awaits SCRIPT LOAD (a limiter is made   *)
(* for every request, so its _script_sha is always None) and EVALSHA.  The *)
(* script is atomic; what passes between the reading of the clock and the  *)
(* script is not, and requests may overtake one another there.             *)
(***************************************************************************)
EXTENDS Integers, FiniteSets

CONSTANTS
  Reqs,       \* every request there will be; each is made once
  Limit,      \* limit
  Window,     \* window, in ticks of the clock
  MaxNow,     \* the clock stops here (bound)
  MaxRestarts \* bound on restarts of Redis

ASSUME LimiterConstants ==
  /\ Limit \in Nat /\ Window \in Nat \ {0}
  /\ MaxNow \in Nat /\ MaxRestarts \in Nat

VARIABLES
  now,      \* the clock of the host and of Redis
  pc,       \* where each request is, and the verdict it got
  stamp,    \* ARGV[1]: the clock when is_allowed was called
  at,       \* history: the clock when the script ran
  zset,     \* the sorted set: the requests in it, with score stamp
  deadline, \* when the key expires
  loaded,   \* Redis knows the script
  restarts  \* restarts of Redis so far

vars == <<now, pc, stamp, at, zset, deadline, loaded, restarts>>

\* What the script decided, and "failed" if it did not run.  Whether the caller
\* hears of a decision makes no difference to the set: when the reply is lost the
\* answer is 500, and an entry the script made stays.
Verdicts == {"admitted", "denied", "failed"}

TypeOK ==
  /\ now \in 0..MaxNow
  /\ pc \in [Reqs -> {"unsent", "script_load", "evalsha"} \cup Verdicts]
  /\ stamp \in [Reqs -> 0..MaxNow]
  /\ at \in [Reqs -> 0..MaxNow]
  /\ zset \in SUBSET Reqs
  /\ deadline \in 0..(MaxNow + Window)
  /\ loaded \in BOOLEAN
  /\ restarts \in 0..MaxRestarts

Init ==
  /\ now = 0
  /\ pc = [r \in Reqs |-> "unsent"]
  /\ stamp = [r \in Reqs |-> 0]
  /\ at = [r \in Reqs |-> 0]
  /\ zset = {}
  /\ deadline = 0
  /\ loaded = FALSE
  /\ restarts = 0

-----------------------------------------------------------------------------
Goto(r, there) == pc' = [pc EXCEPT ![r] = there]

\* Mutant: the clock rounded up.
CallRoundedUp(r) ==
  /\ pc[r] = "unsent"
  /\ stamp' = [stamp EXCEPT ![r] = now + 1]
  /\ Goto(r, "script_load")
  /\ UNCHANGED <<now, at, zset, deadline, loaded, restarts>>

Call(r) ==
  /\ pc[r] = "unsent"
  /\ stamp' = [stamp EXCEPT ![r] = now]
  /\ Goto(r, "script_load")
  /\ UNCHANGED <<now, at, zset, deadline, loaded, restarts>>

ScriptLoad(r) ==
  /\ pc[r] = "script_load"
  /\ loaded' = TRUE
  /\ Goto(r, "evalsha")
  /\ UNCHANGED <<now, stamp, at, zset, deadline, restarts>>

\* The key as the script finds it.
Present == IF now < deadline THEN zset ELSE {}

\* ZREMRANGEBYSCORE key -inf window_start
Kept(r) == {q \in Present : stamp[q] > stamp[r] - Window}

\* Mutants: a key whose expiry is set by its first entry only (a fixed window),
\* and an entry that is made before the count and left there when denied.
EvalFixedWindow(r) ==
  /\ pc[r] = "evalsha"
  /\ loaded
  /\ at' = [at EXCEPT ![r] = now]
  /\ IF Cardinality(Kept(r)) >= Limit
     THEN /\ zset' = Kept(r)
          /\ deadline' = deadline
          /\ Goto(r, "denied")
     ELSE /\ zset' = Kept(r) \cup {r}
          /\ deadline' = IF Kept(r) = {} THEN now + Window ELSE deadline
          /\ Goto(r, "admitted")
  /\ UNCHANGED <<now, stamp, loaded, restarts>>

EvalDeniedCounts(r) ==
  /\ pc[r] = "evalsha"
  /\ loaded
  /\ at' = [at EXCEPT ![r] = now]
  /\ zset' = Kept(r) \cup {r}
  /\ deadline' = now + Window
  /\ Goto(r, IF Cardinality(Kept(r)) >= Limit THEN "denied" ELSE "admitted")
  /\ UNCHANGED <<now, stamp, loaded, restarts>>

\* The script of a request that is admitted or denied; ZREMRANGEBYSCORE is
\* executed in both cases.
EvalSha(r) ==
  /\ pc[r] = "evalsha"
  /\ loaded
  /\ at' = [at EXCEPT ![r] = now]
  /\ IF Cardinality(Kept(r)) >= Limit
     THEN /\ zset' = Kept(r)
          /\ deadline' = deadline
          /\ Goto(r, "denied")
     ELSE /\ zset' = Kept(r) \cup {r}
          /\ deadline' = now + Window
          /\ Goto(r, "admitted")
  /\ UNCHANGED <<now, stamp, loaded, restarts>>

\* The connection is lost before the script runs, or Redis has forgotten the
\* script (NOSCRIPT): answered with 500.
Fail(r) ==
  /\ \/ pc[r] = "script_load"
     \/ pc[r] = "evalsha"
  /\ Goto(r, "failed")
  /\ UNCHANGED <<now, stamp, at, zset, deadline, loaded, restarts>>

-----------------------------------------------------------------------------
Tick ==
  /\ now < MaxNow
  /\ now' = now + 1
  /\ UNCHANGED <<pc, stamp, at, zset, deadline, loaded, restarts>>

\* Redis comes back with a snapshot, in which some entries are missing.
RedisRestart ==
  /\ restarts < MaxRestarts
  /\ restarts' = restarts + 1
  /\ zset' \in SUBSET zset
  /\ loaded' = FALSE
  /\ UNCHANGED <<now, pc, stamp, at, deadline>>

Next ==
  \/ \E r \in Reqs : Call(r) \/ ScriptLoad(r) \/ EvalSha(r) \/ Fail(r)
  \/ Tick
  \/ RedisRestart

Spec == Init /\ [][Next]_vars

-----------------------------------------------------------------------------
\* Properties.

Admitted == {r \in Reqs : pc[r] = "admitted"}

\* A sliding window has no burst at a boundary: of the requests whose clock is at
\* most d old when their script runs, the scripts that run in any Window - d
\* admit Limit at most, however they are overtaken by one another and by later
\* or older ones.  (A restart of Redis forgets entries and opens another Limit.)
AdmissionsBounded ==
  \A d \in 0..(Window - 1), t \in 0..MaxNow :
    Cardinality({r \in Admitted : /\ at[r] - stamp[r] <= d
                                  /\ at[r] > t - (Window - d) /\ at[r] <= t})
      <= Limit * (1 + restarts)

\* "a rejected request could remove a concurrent request's zadd entry"
\* (app/cache/rate_limiter.py:14-16) and "without modifying the set" (:48): a
\* denied request does not count against others, so every denial is accounted
\* for by Limit admissions later than the start of its window.
DenialsJustified ==
  \A r \in Reqs : pc[r] = "denied" =>
    Cardinality({q \in Admitted : stamp[q] > stamp[r] - Window}) >= Limit

=============================================================================
