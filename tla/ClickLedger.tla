---------------------------- MODULE ClickLedger ----------------------------
(***************************************************************************)
(* What the analytics pipeline promises about clicks, without the queue,   *)
(* the worker and its transaction: a click that was accepted is owed until *)
(* a whole batch of owed clicks is recorded at once, events and counters   *)
(* together, or is given up at once.  A batch is given up only when an     *)
(* interruption strikes or when it holds a click that cannot be stored.    *)
(***************************************************************************)
EXTENDS Naturals, FiniteSets

CONSTANTS
  Clicks,     \* identities of accepted clicks
  Links,      \* identities of links
  Oversized,  \* clicks with a value longer than its column
  BatchSize,  \* settings.ANALYTICS_BATCH_SIZE
  None        \* no link

VARIABLES
  dest,     \* the link of each accepted click
  status,   \* the row of each link: "uncommitted", "live" or "gone"
  owed,     \* how many copies of a click wait to be recorded
  events,   \* click_events: rows <<click, number of the transaction>>
  count,    \* short_urls.click_count
  flushes,  \* batches recorded so far, the number of the next transaction
  faults,   \* interruptions so far
  restores  \* restarts of Redis from its snapshot so far

ledger == <<dest, status, owed, events, count, flushes, faults, restores>>

Accepted == {c \in Clicks : dest[c] # None}
Owed     == {c \in Clicks : owed[c] > 0}
Bad(c)   == c \in Oversized \/ status[dest[c]] # "live"

\* The links that a set of clicks leads to, and how many of them lead to l.
Targets(S)   == {dest[c] : c \in S}
ClicksOn(S, l) == Cardinality({c \in S : dest[c] = l})

LedgerInit ==
  /\ dest = [c \in Clicks |-> None]
  /\ status = [l \in Links |-> "uncommitted"]
  /\ owed = [c \in Clicks |-> 0]
  /\ events = {}
  /\ count = [l \in Links |-> 0]
  /\ flushes = 0
  /\ faults = 0
  /\ restores = 0

Accept(c, l) ==
  /\ dest[c] = None
  /\ dest' = [dest EXCEPT ![c] = l]
  /\ owed' = [owed EXCEPT ![c] = 1]
  /\ UNCHANGED <<status, events, count, flushes, faults, restores>>

Settle(S) ==
  /\ S \subseteq Owed
  /\ Cardinality(S) \in 1..BatchSize
  /\ owed' = [c \in Clicks |-> IF c \in S THEN owed[c] - 1 ELSE owed[c]]

\* All of a batch, in one transaction that no other transaction has used.
Record(S) ==
  /\ Settle(S)
  /\ \A c \in S : ~Bad(c)
  /\ events' = events \cup (S \X {flushes})
  /\ flushes' = flushes + 1
  /\ count' = [l \in Links |-> count[l] + ClicksOn(S, l)]
  /\ UNCHANGED <<dest, status, faults, restores>>

Forgo(S) ==
  /\ Settle(S)
  /\ \/ faults' = faults + 1
     \/ faults' = faults /\ \E c \in S : Bad(c)
  /\ UNCHANGED <<dest, status, events, count, flushes, restores>>

Interrupt ==
  /\ faults' = faults + 1
  /\ UNCHANGED <<dest, status, owed, events, count, flushes, restores>>

\* Redis comes back with an older queue: copies may return, copies may be lost.
Restore ==
  /\ restores' = restores + 1
  /\ owed' \in [Clicks -> Nat]
  /\ \A c \in Clicks : owed'[c] <= (IF c \in Accepted THEN owed[c] + 1 ELSE 0)
  /\ UNCHANGED <<dest, status, events, count, flushes, faults>>

Open(l) ==
  /\ status[l] = "uncommitted"
  /\ status' = [status EXCEPT ![l] = "live"]
  /\ UNCHANGED <<dest, owed, events, count, flushes, faults, restores>>

\* Deleting a link deletes its click events with it.
Close(l) ==
  /\ status[l] = "live"
  /\ status' = [status EXCEPT ![l] = "gone"]
  /\ events' = {e \in events : dest[e[1]] # l}
  /\ count' = [count EXCEPT ![l] = 0]
  /\ UNCHANGED <<dest, owed, flushes, faults, restores>>

LedgerNext ==
  \/ \E c \in Clicks, l \in Links : Accept(c, l)
  \/ \E S \in SUBSET Owed : Forgo(S) \/ Record(S)
  \/ Interrupt
  \/ Restore
  \/ \E l \in Links : Open(l) \/ Close(l)

LedgerSpec == LedgerInit /\ [][LedgerNext]_ledger

=============================================================================
