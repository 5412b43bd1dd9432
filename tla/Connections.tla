---------------------------- MODULE Connections ----------------------------
(***************************************************************************)
(* Who waits for whom: every request and the analytics worker compete for  *)
(* the connections of one SQLAlchemy pool (app/db/session.py) and, once    *)
(* they have one, for row locks and unique keys in PostgreSQL.             *)
(*                                                                         *)
(* A handler is reduced to the resources it waits for, in its order.  What *)
(* it does with them is in Links, Accounts, ClickPipeline, Summaries and   *)
(* Listing.  A session takes its connection at its first statement and     *)
(* keeps it, calls of Redis included, until it is committed, rolled back   *)
(* or closed.  The Redis client has a pool too (app/cache/client.py), but  *)
(* it raises when it is exhausted: that is one of the causes of Fail.      *)
(***************************************************************************)
EXTENDS Naturals, Sequences, FiniteSets, Functions

CONSTANTS
  Reqs,     \* requests being served; a slot is reused when it is free
  worker,   \* the analytics worker
  Things,   \* links with their codes; users with their addresses and tokens
  PoolSize, \* DATABASE_POOL_SIZE + DATABASE_MAX_OVERFLOW
  None      \* no handler

ASSUME WorkerIsNoRequest == worker \notin Reqs
ASSUME FiniteActors      == IsFiniteSet(Reqs)
ASSUME FiniteThings      == IsFiniteSet(Things)
ASSUME PoolHoldsOne      == PoolSize \in Nat \ {0}

Actors == Reqs \cup {worker}

VARIABLES
  kind,  \* the handler of each actor
  step,  \* the index in its script
  order, \* the rows it works on, in the order it comes to them
  row,   \* the index in order
  conn,  \* actors that hold a connection
  locks  \* locks held in PostgreSQL: <<actor, mode, thing>>

vars == <<kind, step, order, row, conn, locks>>

-----------------------------------------------------------------------------
\* "checkout": the first statement of a session waits for a connection, unless the
\* session has one.  "optional": the same in get_optional_user, which takes any
\* exception for an anonymous caller.  "release": commit, rollback or close.
\* The other steps are calls of Redis and statements that lock.  A script is the
\* longest way through its handler; /me is like list_urls.
create_url            == <<"optional", "redis", "checkout", "insert", "redis", "release">>
update_url            == <<"checkout", "update", "redis", "release">>
delete_url            == <<"checkout", "redis", "delete", "release">>
list_urls             == <<"checkout", "release">>
get_url               == <<"optional", "checkout", "release">>
redirect              == <<"redis", "checkout", "release", "redis">>
get_analytics_summary == <<"checkout", "redis", "release">>
get_qr_code           == <<"redis", "checkout", "redis", "release">>
register              == <<"redis", "checkout", "email", "release">>
login                 == <<"redis", "checkout", "hash", "release">>
refresh_token         == <<"checkout", "revoke", "hash", "release">>
logout                == <<"checkout", "revoke", "release">>
flush                 == <<"redis", "checkout", "share", "update", "release">>

Script == [
  create |-> create_url, update |-> update_url, delete |-> delete_url,
  list |-> list_urls, get |-> get_url, redirect |-> redirect,
  summary |-> get_analytics_summary, qr |-> get_qr_code, register |-> register,
  login |-> login, refresh |-> refresh_token, logout |-> logout,
  flush |-> flush]

Kinds     == DOMAIN Script
LockModes == {"insert", "update", "delete", "share", "email", "hash", "revoke"}

\* An insert holds its unique key, and so does a delete; the foreign key of
\* click_events shares the link's row, which bars a delete and lets updates pass.
\* All tokens of a user count as one row and one key: more waiting than there is.
Conflicts == {{"insert"}, {"insert", "delete"}, {"delete"}, {"update", "delete"},
              {"update"}, {"share", "delete"}, {"email"}, {"hash"}, {"revoke"}}

Busy(a) == kind[a] # None
At(a)   == IF Busy(a) THEN Script[kind[a]][step[a]] ELSE "idle"

\* Whose locks keep a from taking the one it has come to; its own do not.
Blockers(a) ==
  {b \in Actors \ {a} : \E m \in LockModes :
     <<b, m, order[a][row[a]]>> \in locks /\ {m, At(a)} \in Conflicts}

TypeOK ==
  /\ kind \in [Actors -> Kinds \cup {None}]
  /\ step \in [Actors -> 1..6]
  /\ order \in [Actors -> Seq(Things)]
  /\ row \in [Actors -> Nat \ {0}]
  /\ conn \in SUBSET Actors /\ Cardinality(conn) <= PoolSize
  /\ locks \in SUBSET (conn \X LockModes \X Things)

Init ==
  /\ kind = [a \in Actors |-> None]
  /\ step = [a \in Actors |-> 1]
  /\ order = [a \in Actors |-> <<>>]
  /\ row = [a \in Actors |-> 1]
  /\ conn = {}
  /\ locks = {}

-----------------------------------------------------------------------------
\* One after the other, without repetition.
Orders(S) == {s \in UNION {[1..n -> Things] : n \in 1..Cardinality(S)} : IsInjective(s)}

Begin(a, k, s) ==
  /\ ~Busy(a)
  /\ kind' = [kind EXCEPT ![a] = k]
  /\ order' = [order EXCEPT ![a] = s]
  /\ UNCHANGED <<step, row, conn, locks>>

\* Mutant: requests for several links at once.
BulkRequest(r) == \E k \in Kinds \ {"flush"}, s \in Orders(Things) : Begin(r, k, s)

Request(r) == \E k \in Kinds \ {"flush"}, x \in Things : Begin(r, k, <<x>>)

\* The worker wakes up and finds clicks on some links, in the order of the queue.
Wake == \E s \in Orders(Things) : Begin(worker, "flush", s)

Ended(a) == /\ kind' = [kind EXCEPT ![a] = None]
            /\ step' = [step EXCEPT ![a] = 1]
            /\ order' = [order EXCEPT ![a] = <<>>]
            /\ row' = [row EXCEPT ![a] = 1]

Advance(a) ==
  IF step[a] = Len(Script[kind[a]])
  THEN Ended(a)
  ELSE /\ step' = [step EXCEPT ![a] = @ + 1]
       /\ row' = [row EXCEPT ![a] = 1]
       /\ UNCHANGED <<kind, order>>

CallRedis(a) ==
  /\ At(a) = "redis"
  /\ Advance(a)
  /\ UNCHANGED <<conn, locks>>

\* Mutant: the overflow allows one more.
CheckoutOverflow(a) ==
  /\ At(a) \in {"checkout", "optional"}
  /\ a \in conn \/ Cardinality(conn) <= PoolSize
  /\ conn' = conn \cup {a}
  /\ Advance(a)
  /\ UNCHANGED locks

\* Mutant: a second session for the statements after the first.
CheckoutAnother(a) ==
  /\ At(a) \in {"checkout", "optional"}
  /\ Cardinality(conn) < PoolSize
  /\ conn' = conn \cup {a}
  /\ Advance(a)
  /\ UNCHANGED locks

Checkout(a) ==
  /\ At(a) \in {"checkout", "optional"}
  /\ a \in conn \/ Cardinality(conn) < PoolSize
  /\ conn' = conn \cup {a}
  /\ Advance(a)
  /\ UNCHANGED locks

\* get_optional_user without a token, or with one and an exception of any kind, a
\* pool_timeout among them: the caller is anonymous.
Anonymous(a) ==
  /\ At(a) = "optional"
  /\ Advance(a)
  /\ UNCHANGED <<conn, locks>>

Lock(a) ==
  /\ At(a) \in LockModes
  /\ Blockers(a) = {}
  /\ locks' = locks \cup {<<a, At(a), order[a][row[a]]>>}
  /\ IF row[a] < Len(order[a])
     THEN row' = [row EXCEPT ![a] = @ + 1] /\ UNCHANGED <<kind, step, order>>
     ELSE Advance(a)
  /\ UNCHANGED conn

Unlock(a) == locks' = {l \in locks : l[1] # a}

Release(a) ==
  /\ At(a) = "release"
  /\ conn' = conn \ {a}
  /\ Unlock(a)
  /\ Advance(a)

\* A handler stops early: it refuses the request, finds what it needs in the cache, or
\* an await raises, a wait for the pool that takes pool_timeout among others.  Its
\* session is closed.
Fail(a) ==
  /\ Busy(a)
  /\ Ended(a)
  /\ Unlock(a)
  /\ conn' = conn \ {a}

-----------------------------------------------------------------------------
Step(a) == CallRedis(a) \/ Checkout(a) \/ Lock(a) \/ Release(a)

Next ==
  \/ \E r \in Reqs : Request(r)
  \/ Wake
  \/ \E a \in Actors : Step(a) \/ Anonymous(a) \/ Fail(a)

Spec == Init /\ [][Next]_vars

\* The pool serves its waiters in the order they came, and so does PostgreSQL.
FairSpec == Spec /\ \A a \in Actors : SF_vars(Step(a))

-----------------------------------------------------------------------------
\* Properties.

\* a waits for a lock that one of S holds, or for the pool, all of which S holds.
StuckIn(a, S) ==
  \/ At(a) \in LockModes /\ Blockers(a) \cap S # {}
  \/ /\ At(a) \in {"checkout", "optional"} /\ a \notin conn
     /\ Cardinality(conn) = PoolSize /\ conn \subseteq S

\* No circle of requests and the worker, through locks, keys and the pool: neither
\* PostgreSQL's deadlock detector nor pool_timeout is ever needed to break one.
NoDeadlock == \A S \in SUBSET Actors : S # {} => \E a \in S : ~StuckIn(a, S)

\* Every request and every flush ends, although none has to fail and no wait for a
\* connection has to time out.
EveryRequestEnds == \A a \in Actors : Busy(a) ~> ~Busy(a)

=============================================================================
