------------------------ MODULE ClickPipelineProofs ------------------------
(***************************************************************************)
(* Theorems about ClickPipeline, for every finite set of clicks, every set *)
(* of links, every size of a batch and any number of faults and restores,  *)
(* and the proof that it implements ClickLedger.                           *)
(***************************************************************************)
EXTENDS ClickPipeline, FiniteSetTheorems, SequenceTheorems, TLAPS

\* Where the worker has popped a batch.
HoldingPcs == {"insert", "count", "commit"}

EventsOn(l) == {e \in events : dest[e[1]] = l}
EventsOf(c) == {e \in events : e[1] = c}

-----------------------------------------------------------------------------
\* A batch is in the worker's hands from the pop to the end of the flush.
WorkerPlaced ==
  /\ wpc = "down" <=> phase = "down"
  /\ batch # {} <=> wpc \in HoldingPcs
  /\ wpc # "count" => todo = {}
  /\ Cardinality(batch) <= BatchSize

\* Only accepted clicks are anywhere.
ClicksAccepted ==
  /\ \A c \in Range(queue) \cup Range(saved) \cup batch : dest[c] \in Links
  /\ \A e \in events : dest[e[1]] \in Links

\* No click is in a queue twice.
OnceQueued == IsInjective(queue) /\ IsInjective(saved)

\* No transaction to come has stored anything yet.
EventsNumbered == \A e \in events : e[2] < flushes

\* Once it is inserted a batch can be committed: its links are locked.
BatchStorable == wpc \in {"count", "commit"} => \A c \in batch : ~Bad(c)

\* The foreign key.
EventsLive == \A e \in events : status[dest[e[1]]] = "live"

\* CountAgrees of every link: one that is not live has no events and counts none.
CountsExact == \A l \in Links : count[l] = Cardinality(EventsOn(l))

Stores == IsFiniteSet(events) /\ EventsNumbered /\ EventsLive /\ CountsExact

Inv == /\ TypeOK /\ WorkerPlaced /\ ClicksAccepted /\ OnceQueued /\ BatchStorable
       /\ Stores /\ CopiesBounded

-----------------------------------------------------------------------------
\* What the operators on the queue return.

\* A queue holds clicks, and finitely many of them.
LEMMA QueueRange ==
  ASSUME NEW q \in Seq(Clicks)
  PROVE  /\ Range(q) \in SUBSET Clicks
         /\ Range(q) = {q[i] : i \in 1..Len(q)}
         /\ Len(q) \in Nat
         /\ (q = <<>>) <=> (Range(q) = {})
<1>1. Range(q) \in SUBSET Clicks
  BY RangeOfSeq
<1>2. Range(q) = {q[i] : i \in 1..Len(q)}
  BY RangeEquality
<1>3. Len(q) \in Nat
  BY LenProperties
<1>4. ASSUME q = <<>> PROVE Range(q) = {}
  <2>1. Len(q) = 0
    BY <1>4, EmptySeq
  <2>. QED
    BY <1>2, <2>1
<1>5. ASSUME q # <<>> PROVE Range(q) # {}
  <2>1. Len(q) \in Nat \ {0}
    BY <1>5, EmptySeq
  <2>2. q[1] \in Range(q)
    BY <1>2, <2>1
  <2>. QED
    BY <2>2
<1>. QED
  BY <1>1, <1>2, <1>3, <1>4, <1>5

\* RPUSH of a click that is not in the list.
LEMMA Pushed ==
  ASSUME NEW q \in Seq(Clicks), NEW c \in Clicks
  PROVE  /\ Append(q, c) \in Seq(Clicks)
         /\ Range(Append(q, c)) = Range(q) \cup {c}
         /\ IsInjective(q) /\ c \notin Range(q) => IsInjective(Append(q, c))
<1>. DEFINE p == Append(q, c)
<1>1. /\ p \in Seq(Clicks) /\ Len(p) = Len(q) + 1
      /\ \A i \in 1..Len(q) : p[i] = q[i]
      /\ p[Len(q) + 1] = c
  BY AppendProperties
<1>2. /\ Len(q) \in Nat
      /\ Range(q) = {q[i] : i \in 1..Len(q)}
      /\ Range(p) = {p[i] : i \in 1..Len(p)}
  BY <1>1, QueueRange
<1>3. DOMAIN p = 1..(Len(q) + 1) /\ DOMAIN q = 1..Len(q)
  BY <1>1, LenProperties
<1>. HIDE DEF p
<1>4. Range(p) = Range(q) \cup {c}
  <2>1. \A i \in 1..Len(p) : i \in 1..Len(q) \/ i = Len(q) + 1
    BY <1>1, <1>2
  <2>2. 1..Len(q) \subseteq 1..Len(p) /\ Len(q) + 1 \in 1..Len(p)
    BY <1>1, <1>2
  <2>. QED
    BY <1>1, <1>2, <2>1, <2>2
<1>5. ASSUME IsInjective(q), c \notin Range(q) PROVE IsInjective(p)
  <2>1. SUFFICES ASSUME NEW i \in 1..(Len(q) + 1), NEW j \in 1..(Len(q) + 1), p[i] = p[j]
                 PROVE  i = j
    BY <1>3 DEF IsInjective
  <2>2. CASE i \in 1..Len(q) /\ j \in 1..Len(q)
    BY <2>1, <2>2, <1>1, <1>3, <1>5 DEF IsInjective
  <2>3. \A k \in 1..Len(q) : p[k] # c
    BY <1>1, <1>2, <1>5
  <2>4. CASE i = Len(q) + 1 \/ j = Len(q) + 1
    BY <2>1, <2>3, <2>4, <1>1, <1>2
  <2>. QED
    BY <2>2, <2>4, <1>2
<1>. QED
  BY <1>1, <1>4, <1>5 DEF p

\* LMPOP takes the first clicks, as many as a batch may have, and leaves the others.
LEMMA PoppedClicks ==
  ASSUME queue \in Seq(Clicks), IsInjective(queue)
  PROVE  /\ Unpopped \in Seq(Clicks) /\ IsInjective(Unpopped)
         /\ Popped \subseteq Range(queue)
         /\ Range(Unpopped) = Range(queue) \ Popped
         /\ (queue = <<>>) <=> (Popped = {})
         /\ IsFiniteSet(Popped) /\ Cardinality(Popped) <= BatchSize
<1>. DEFINE n == Len(queue)
            p == SubSeq(queue, 1, Taken)
            u == Unpopped
<1>1. n \in Nat /\ Taken \in 0..n /\ Taken <= BatchSize /\ (n = 0 <=> Taken = 0)
  BY QueueRange, PipelineConstants DEF Taken
<1>2. \A i \in 1..n : queue[i] \in Clicks
  BY ElementOfSeq
<1>3. DOMAIN queue = 1..n
  BY LenProperties
<1>4. /\ p \in Seq(Clicks) /\ Len(p) = Taken
      /\ \A i \in 1..Taken : p[i] = queue[i]
  <2>1. \A i \in 1..Taken : queue[i] \in Clicks
    BY <1>1, <1>2
  <2>2. /\ p \in Seq(Clicks) /\ Len(p) = (IF 1 <= Taken THEN Taken - 1 + 1 ELSE 0)
        /\ \A i \in 1..(Taken - 1 + 1) : p[i] = queue[1 + i - 1]
    BY <2>1, <1>1, SubSeqProperties
  <2>. QED
    BY <2>2, <1>1
<1>5. /\ u \in Seq(Clicks) /\ Len(u) = n - Taken
      /\ \A i \in 1..(n - Taken) : u[i] = queue[Taken + i]
  <2>1. \A i \in (Taken + 1)..n : queue[i] \in Clicks
    BY <1>1, <1>2
  <2>2. /\ u \in Seq(Clicks) /\ Len(u) = (IF Taken + 1 <= n THEN n - (Taken + 1) + 1 ELSE 0)
        /\ \A i \in 1..(n - (Taken + 1) + 1) : u[i] = queue[Taken + 1 + i - 1]
    BY <2>1, <1>1, SubSeqProperties DEF Unpopped
  <2>. QED
    BY <2>2, <1>1
<1>6. /\ Popped = {p[i] : i \in 1..Taken}
      /\ Range(u) = {u[i] : i \in 1..(n - Taken)}
      /\ Range(queue) = {queue[i] : i \in 1..n}
  <2>1. Range(p) = {p[i] : i \in 1..Len(p)} /\ Range(u) = {u[i] : i \in 1..Len(u)}
    BY <1>4, <1>5, RangeEquality
  <2>2. Range(queue) = {queue[i] : i \in 1..n}
    BY RangeEquality
  <2>. QED
    BY <1>4, <1>5, <2>1, <2>2 DEF Popped
<1>7. DOMAIN u = 1..(n - Taken)
  BY <1>5, LenProperties
<1>. HIDE DEF n, p, u
<1>8. Popped = {queue[i] : i \in 1..Taken}
  BY <1>4, <1>6
<1>9. Range(u) = {queue[i] : i \in (Taken + 1)..n}
  <2>1. \A i \in 1..(n - Taken) : Taken + i \in (Taken + 1)..n
    BY <1>1
  <2>2. \A i \in (Taken + 1)..n : i - Taken \in 1..(n - Taken) /\ Taken + (i - Taken) = i
    BY <1>1
  <2>3. \A x : x \in Range(u) <=> \E i \in (Taken + 1)..n : x = queue[i]
    BY <2>1, <2>2, <1>5, <1>6
  <2>. QED
    BY <2>3
<1>10. IsInjective(u)
  <2>1. SUFFICES ASSUME NEW i \in 1..(n - Taken), NEW j \in 1..(n - Taken), u[i] = u[j]
                 PROVE  i = j
    BY <1>7 DEF IsInjective
  <2>2. Taken + i \in 1..n /\ Taken + j \in 1..n
    BY <1>1
  <2>3. Taken + i = Taken + j
    BY <2>1, <2>2, <1>3, <1>5 DEF IsInjective
  <2>. QED
    BY <2>3, <1>1
<1>11. Popped \subseteq Range(queue)
  <2>1. \A i \in 1..Taken : i \in 1..n
    BY <1>1
  <2>. QED
    BY <2>1, <1>6, <1>8
<1>12. Range(u) = Range(queue) \ Popped
  <2>1. \A i \in 1..Taken, j \in (Taken + 1)..n : queue[i] # queue[j]
    BY <1>1, <1>3 DEF IsInjective
  <2>2. \A i \in 1..n : i \in 1..Taken \/ i \in (Taken + 1)..n
    BY <1>1
  <2>3. (Taken + 1)..n \subseteq 1..n
    BY <1>1
  <2>. QED
    BY <2>1, <2>2, <2>3, <1>6, <1>8, <1>9
<1>13. (queue = <<>>) <=> (Popped = {})
  <2>1. (queue = <<>>) <=> (n = 0)
    BY EmptySeq DEF n
  <2>2. (Taken = 0) <=> (Popped = {})
    <3>1. CASE Taken = 0
      BY <3>1, <1>8
    <3>2. CASE Taken # 0
      <4>1. 1 \in 1..Taken
        BY <3>2, <1>1
      <4>. QED
        BY <4>1, <3>2, <1>8
    <3>. QED
      BY <3>1, <3>2
  <2>. QED
    BY <1>1, <2>1, <2>2
<1>14. IsFiniteSet(Popped) /\ Cardinality(Popped) <= BatchSize
  <2>. DEFINE f == [i \in 1..Taken |-> queue[i]]
  <2>1. f \in Surjection(1..Taken, Popped)
    BY <1>8 DEF Surjection
  <2>2. IsFiniteSet(1..Taken) /\ Cardinality(1..Taken) = Taken
    <3>1. 1 \in Int /\ Taken \in Int
      BY <1>1
    <3>2. /\ IsFiniteSet(1..Taken)
          /\ Cardinality(1..Taken) = IF 1 > Taken THEN 0 ELSE Taken - 1 + 1
      BY <3>1, FS_Interval
    <3>. QED
      BY <3>2, <1>1
  <2>3. IsFiniteSet(Popped) /\ Cardinality(Popped) <= Taken
    BY <2>1, <2>2, FS_Surjection
  <2>4. Cardinality(Popped) \in Nat
    BY <2>3, FS_CardinalityType
  <2>. QED
    BY <2>3, <2>4, <1>1, PipelineConstants
<1>. QED
  BY <1>5, <1>10, <1>11, <1>12, <1>13, <1>14 DEF u

-----------------------------------------------------------------------------
\* How many copies of a click wait, and how a batch is settled.

\* A click is owed a copy for the queue and one for the batch.
LEMMA OwedCopies ==
  /\ \A c \in Clicks : owed[c] = (IF c \in Range(queue) THEN 1 ELSE 0) + (IF c \in batch THEN 1 ELSE 0)
  /\ \A c \in Clicks : owed[c] \in 0..2
  /\ \A c \in Clicks : owed[c] > 0 <=> c \in Range(queue) \cup batch
  /\ \A c \in Clicks : Copies(c) = owed[c] + Cardinality(EventsOf(c))
BY DEF owed, Copies, EventsOf

\* owed after the clicks of S have lost a copy each.
Less(S) == [c \in Clicks |-> IF c \in S THEN owed[c] - 1 ELSE owed[c]]

\* What is settled at once: clicks that wait, one at least and a batch at most.
Settleable(S) == S \in SUBSET Clicks /\ (\A c \in S : owed[c] > 0) /\ Cardinality(S) \in 1..BatchSize

\* A batch that is taken from the worker is settled.
LEMMA BatchGone ==
  ASSUME TypeOK, WorkerPlaced, batch # {}, batch' = {}, queue' = queue
  PROVE  Settleable(batch) /\ owed' = Less(batch)
<1>1. batch \subseteq Clicks /\ IsFiniteSet(batch)
  BY ClicksFinite, FS_Subset DEF TypeOK
<1>2. Cardinality(batch) \in Nat /\ Cardinality(batch) # 0
  BY <1>1, FS_CardinalityType, FS_EmptySet
<1>3. Cardinality(batch) \in 1..BatchSize
  BY <1>2, PipelineConstants DEF WorkerPlaced
<1>4. owed' = Less(batch)
  BY DEF owed, Less
<1>. QED
  BY <1>1, <1>3, <1>4, OwedCopies DEF Settleable

\* Popped clicks that nobody holds are settled.
LEMMA PoppedGone ==
  ASSUME TypeOK, OnceQueued, Popped # {}, batch = {}, batch' = {}, queue' = Unpopped
  PROVE  Settleable(Popped) /\ owed' = Less(Popped)
<1>1. /\ Popped \subseteq Clicks /\ Popped \subseteq Range(queue)
      /\ IsFiniteSet(Popped) /\ Cardinality(Popped) <= BatchSize
      /\ Range(queue') = Range(queue) \ Popped
  BY PoppedClicks, QueueRange DEF TypeOK, OnceQueued
<1>2. Cardinality(Popped) \in Nat /\ Cardinality(Popped) # 0
  BY <1>1, FS_CardinalityType, FS_EmptySet
<1>3. Cardinality(Popped) \in 1..BatchSize
  BY <1>1, <1>2, PipelineConstants
<1>4. owed' = Less(Popped)
  BY <1>1 DEF owed, Less
<1>. QED
  BY <1>1, <1>3, <1>4, OwedCopies DEF Settleable

\* What the pop moves to the worker is owed as before.
LEMMA PoppedKept ==
  ASSUME TypeOK, OnceQueued, batch = {}, batch' = Popped, queue' = Unpopped
  PROVE  owed' = owed
<1>1. Popped \subseteq Range(queue) /\ Range(queue') = Range(queue) \ Popped
  BY PoppedClicks DEF TypeOK, OnceQueued
<1>. QED
  BY <1>1 DEF owed

\* An interruption settles what is in the worker's hands, be it popped unseen, or nothing.
LEMMA Interrupted ==
  ASSUME TypeOK, WorkerPlaced, OnceQueued, FlushError \/ Stop \/ Crash
  PROVE  /\ UNCHANGED store /\ dest' = dest /\ restores' = restores /\ faults' = faults + 1
         /\ batch' = {} /\ todo' = {} /\ wpc' \notin HoldingPcs
         /\ saved' = saved /\ (queue' = queue \/ queue' = Unpopped)
         /\ owed' = owed \/ \E S \in SUBSET Clicks : Settleable(S) /\ owed' = Less(S)
<1>1. /\ UNCHANGED store /\ dest' = dest /\ restores' = restores /\ faults' = faults + 1
      /\ batch' = {} /\ todo' = {} /\ wpc' \notin HoldingPcs
      /\ PopUnseen \/ UNCHANGED redis
  BY DEF FlushError, Stop, Crash, Fault, EndFlush, HoldingPcs
<1>2. saved' = saved /\ (queue' = queue \/ queue' = Unpopped)
  BY <1>1 DEF PopUnseen, redis
<1>3. CASE UNCHANGED redis
  <2>1. CASE batch = {}
    BY <1>1, <1>3, <2>1 DEF owed, redis
  <2>2. CASE batch # {}
    BY <1>1, <1>3, <2>2, BatchGone DEF Settleable, redis
  <2>. QED
    BY <1>1, <1>2, <2>1, <2>2
<1>4. CASE PopUnseen
  <2>1. batch = {} /\ queue' = Unpopped
    BY <1>4 DEF PopUnseen, WorkerPlaced, HoldingPcs
  <2>2. CASE Popped = {}
    BY <1>1, <1>2, <2>1, <2>2, PoppedKept
  <2>3. CASE Popped # {}
    BY <1>1, <1>2, <2>1, <2>3, PoppedGone DEF Settleable
  <2>. QED
    BY <1>1, <1>2, <2>2, <2>3
<1>. QED
  BY <1>1, <1>3, <1>4

-----------------------------------------------------------------------------
\* The invariant, conjunct by conjunct.

\* Every action keeps the variables in their types.
LEMMA TypeStep == TypeOK /\ OnceQueued /\ ClicksAccepted /\ [Next]_vars => TypeOK'
<1>. SUFFICES ASSUME TypeOK, OnceQueued, ClicksAccepted, [Next]_vars PROVE TypeOK'
  OBVIOUS
<1>1. ASSUME NEW c \in Clicks, NEW l \in Links, Push(c, l) PROVE TypeOK'
  <2>1. queue' \in Seq(Clicks)
    BY <1>1, Pushed DEF Push, TypeOK
  <2>. QED
    BY <1>1, <2>1 DEF Push, TypeOK, worker, store, bounds
<1>2. ASSUME NEW l \in Links, CommitLink(l) \/ DeleteLink(l) PROVE TypeOK'
  <2>1. /\ status' \in [Links -> {"uncommitted", "live", "gone"}]
        /\ UNCHANGED <<dest, redis, worker, bounds>>
    BY <1>2 DEF CommitLink, DeleteLink, TypeOK
  <2>2. flushes' = flushes
    BY <1>2 DEF CommitLink, DeleteLink
  <2>3. CASE CommitLink(l)
    BY <2>1, <2>2, <2>3 DEF CommitLink, TypeOK, worker, redis, bounds
  <2>4. CASE DeleteLink(l)
    <3>1. events' \subseteq events
      BY <2>4 DEF DeleteLink
    <3>2. count' \in [Links -> Nat]
      BY <2>4 DEF DeleteLink, TypeOK
    <3>. QED
      BY <2>1, <2>2, <3>1, <3>2 DEF TypeOK, worker, redis, bounds
  <2>. QED
    BY <1>2, <2>3, <2>4
<1>3. Unpopped \in Seq(Clicks) /\ Popped \in SUBSET Clicks
  BY PoppedClicks, QueueRange DEF TypeOK, OnceQueued
<1>4. CASE PopEvents
  BY <1>3, <1>4 DEF PopEvents, EndFlush, TypeOK, WorkerPcs, store, bounds
<1>5. CASE Wake \/ QueueLength
  BY <1>5 DEF Wake, QueueLength, EndFlush, TypeOK, WorkerPcs, redis, store, bounds
<1>6. CASE BulkInsert
  <2>1. Targets(batch) \in SUBSET Links
    BY DEF ClicksAccepted, Targets
  <2>. QED
    BY <1>6, <2>1 DEF BulkInsert, EndFlush, TypeOK, WorkerPcs, redis, store, bounds
<1>7. ASSUME NEW l \in Links, IncrementClickCount(l) PROVE TypeOK'
  BY <1>7 DEF IncrementClickCount, TypeOK, WorkerPcs, redis, store, bounds
<1>8. CASE Commit
  <2>1. \A l \in Links : ClicksOn(batch, l) \in Nat
    <3>1. ASSUME NEW l \in Links PROVE {c \in batch : dest[c] = l} \in SUBSET Clicks
      BY DEF TypeOK
    <3>. QED
      BY <3>1, ClicksFinite, FS_Subset, FS_CardinalityType DEF ClicksOn
  <2>2. count' \in [Links -> Nat]
    BY <1>8, <2>1 DEF Commit, TypeOK
  <2>3. events' \in SUBSET (Clicks \X Nat) /\ flushes' \in Nat
    BY <1>8 DEF Commit, TypeOK
  <2>. QED
    BY <1>8, <2>2, <2>3 DEF Commit, EndFlush, TypeOK, WorkerPcs, redis, bounds
<1>9. CASE FlushError \/ Stop \/ Crash
  <2>1. /\ faults' \in 0..MaxFaults /\ restores' = restores
    BY <1>9, PipelineConstants DEF FlushError, Stop, Crash, Fault, TypeOK
  <2>2. queue' \in Seq(Clicks) /\ saved' \in Seq(Clicks)
    BY <1>3, <1>9 DEF FlushError, Stop, Crash, PopUnseen, TypeOK, redis
  <2>3. wpc' \in WorkerPcs /\ phase' \in {"serving", "stopping", "down"} /\ batch' = {} /\ todo' = {}
    BY <1>9 DEF FlushError, Stop, Crash, EndFlush, TypeOK, WorkerPcs
  <2>. QED
    BY <1>9, <2>1, <2>2, <2>3 DEF FlushError, Stop, Crash, TypeOK, store
<1>10. CASE Restart \/ SaveRdb
  BY <1>10 DEF Restart, SaveRdb, TypeOK, WorkerPcs, redis, worker, store, bounds
<1>11. CASE RedisRestart
  BY <1>11, PipelineConstants DEF RedisRestart, TypeOK, worker, store
<1>12. CASE UNCHANGED vars
  BY <1>12 DEF TypeOK, vars
<1>. QED
  BY <1>1, <1>2, <1>4, <1>5, <1>6, <1>7, <1>8, <1>9, <1>10, <1>11, <1>12
     DEF Next, Flush, Surroundings, Faults

\* The worker has a batch from the pop to the end of its flush, and stop() or a crash
\* take it away.
LEMMA WorkerStep == TypeOK /\ OnceQueued /\ WorkerPlaced /\ [Next]_vars => WorkerPlaced'
<1>. SUFFICES ASSUME TypeOK, OnceQueued, WorkerPlaced, [Next]_vars PROVE WorkerPlaced'
  OBVIOUS
<1>. USE DEF WorkerPlaced, HoldingPcs
<1>1. Cardinality({}) <= BatchSize
  BY FS_EmptySet, PipelineConstants
<1>2. CASE Wake \/ QueueLength \/ BulkInsert \/ \E l \in Links : IncrementClickCount(l)
  BY <1>1, <1>2 DEF Wake, QueueLength, BulkInsert, IncrementClickCount, EndFlush, TypeOK
<1>3. CASE PopEvents
  <2>1. Cardinality(Popped) <= BatchSize /\ (queue = <<>> <=> Popped = {})
    BY PoppedClicks DEF TypeOK, OnceQueued
  <2>. QED
    BY <1>1, <1>3, <2>1 DEF PopEvents, EndFlush, TypeOK
<1>4. CASE Commit
  BY <1>1, <1>4 DEF Commit, EndFlush, TypeOK
<1>5. CASE FlushError \/ Stop \/ Crash
  BY <1>1, <1>5 DEF FlushError, Stop, Crash, EndFlush, TypeOK
<1>6. CASE Surroundings
  BY <1>6 DEF Surroundings, Push, CommitLink, DeleteLink, worker
<1>7. CASE Restart \/ SaveRdb \/ RedisRestart \/ UNCHANGED vars
  BY <1>7 DEF Restart, SaveRdb, RedisRestart, worker, vars
<1>. QED
  BY <1>2, <1>3, <1>4, <1>5, <1>6, <1>7 DEF Next, Flush, Faults

\* Queues gain a click by a push only, and only accepted ones.
LEMMA QueuesStep ==
  TypeOK /\ WorkerPlaced /\ OnceQueued /\ ClicksAccepted /\ [Next]_vars
    => OnceQueued' /\ ClicksAccepted'
<1>. SUFFICES ASSUME TypeOK, WorkerPlaced, OnceQueued, ClicksAccepted, [Next]_vars
              PROVE  OnceQueued' /\ ClicksAccepted'
  OBVIOUS
<1>1. /\ IsInjective(Unpopped) /\ Range(Unpopped) \subseteq Range(queue) /\ Popped \subseteq Range(queue)
  BY PoppedClicks DEF TypeOK, OnceQueued
<1>2. ASSUME NEW c \in Clicks, NEW l \in Links, Push(c, l) PROVE OnceQueued' /\ ClicksAccepted'
  <2>1. None \notin Links
    BY PipelineConstants
  <2>2. c \notin Range(queue)
    BY <1>2, <2>1 DEF Push, ClicksAccepted
  <2>3. IsInjective(queue') /\ Range(queue') = Range(queue) \cup {c}
    BY <1>2, <2>2, Pushed DEF Push, TypeOK, OnceQueued
  <2>4. dest'[c] = l /\ \A d : dest[d] \in Links /\ d \in Clicks => dest'[d] = dest[d]
    BY <1>2, <2>1 DEF Push, TypeOK
  <2>5. saved' = saved /\ batch' = batch /\ events' = events
    BY <1>2 DEF Push, worker, store
  <2>6. Range(queue) \subseteq Clicks /\ Range(saved) \subseteq Clicks /\ batch \subseteq Clicks
    BY QueueRange DEF TypeOK
  <2>7. \A d \in Range(queue') \cup Range(saved') \cup batch' : dest'[d] \in Links
    BY <2>3, <2>4, <2>5, <2>6 DEF ClicksAccepted
  <2>8. \A e \in events' : dest'[e[1]] \in Links
    BY <2>4, <2>5 DEF ClicksAccepted, TypeOK
  <2>. QED
    BY <2>3, <2>5, <2>7, <2>8 DEF OnceQueued, ClicksAccepted
<1>3. ASSUME dest' = dest, events' \subseteq events, batch' \subseteq batch \cup Range(queue),
             queue' \in {queue, Unpopped, saved}, saved' \in {queue, saved}
      PROVE  OnceQueued' /\ ClicksAccepted'
  BY <1>1, <1>3 DEF OnceQueued, ClicksAccepted
<1>4. CASE Commit
  <2>1. dest' = dest /\ queue' = queue /\ saved' = saved /\ batch' = {}
    BY <1>4 DEF Commit, EndFlush, redis
  <2>2. \A e \in events' : e \in events \/ e[1] \in batch
    BY <1>4 DEF Commit
  <2>. QED
    BY <2>1, <2>2 DEF OnceQueued, ClicksAccepted
<1>5. CASE FlushError \/ Stop \/ Crash
  BY <1>3, <1>5, Interrupted DEF store
<1>6. CASE Flush /\ ~Commit
  BY <1>1, <1>3, <1>6 DEF Flush, Wake, QueueLength, PopEvents, BulkInsert, IncrementClickCount, EndFlush,
                          redis, store
<1>7. ASSUME NEW l \in Links, CommitLink(l) \/ DeleteLink(l) PROVE OnceQueued' /\ ClicksAccepted'
  BY <1>3, <1>7 DEF CommitLink, DeleteLink, redis, worker
<1>8. CASE Restart \/ SaveRdb \/ RedisRestart \/ UNCHANGED vars
  BY <1>3, <1>8 DEF Restart, SaveRdb, RedisRestart, redis, worker, store, vars
<1>. QED
  BY <1>2, <1>4, <1>5, <1>6, <1>7, <1>8 DEF Next, Surroundings, Faults

\* The locks of the transaction keep what has been inserted fit for the commit.
LEMMA StorableStep == TypeOK /\ ClicksAccepted /\ BatchStorable /\ [Next]_vars => BatchStorable'
<1>. SUFFICES ASSUME TypeOK, ClicksAccepted, BatchStorable, [Next]_vars PROVE BatchStorable'
  OBVIOUS
<1>. USE DEF BatchStorable, Bad
<1>1. None \notin Links
  BY PipelineConstants
<1>2. ASSUME NEW c \in Clicks, NEW l \in Links, Push(c, l) PROVE BatchStorable'
  <2>1. \A d \in batch : dest'[d] = dest[d]
    BY <1>1, <1>2 DEF Push, ClicksAccepted, TypeOK
  <2>. QED
    BY <1>2, <2>1 DEF Push, worker, store
<1>3. ASSUME NEW l \in Links, CommitLink(l) PROVE BatchStorable'
  BY <1>3 DEF CommitLink, TypeOK, worker
<1>4. ASSUME NEW l \in Links, DeleteLink(l) PROVE BatchStorable'
  BY <1>4 DEF DeleteLink, Locked, Targets, TypeOK, worker
<1>5. CASE BulkInsert
  BY <1>5 DEF BulkInsert, EndFlush, redis, store
<1>6. CASE Flush /\ ~BulkInsert
  BY <1>6 DEF Flush, Wake, QueueLength, PopEvents, IncrementClickCount, Commit, EndFlush, redis, store
<1>7. CASE FlushError \/ Stop \/ Crash
  BY <1>7 DEF FlushError, Stop, Crash, EndFlush
<1>8. CASE Restart \/ SaveRdb \/ RedisRestart \/ UNCHANGED vars
  BY <1>8 DEF Restart, SaveRdb, RedisRestart, worker, store, vars
<1>. QED
  BY <1>2, <1>3, <1>4, <1>5, <1>6, <1>7, <1>8 DEF Next, Surroundings, Faults

-----------------------------------------------------------------------------
\* The events and the counters.

\* An event for every click of a finite set: as many events as clicks.
LEMMA EventsOfBatch ==
  ASSUME NEW S, IsFiniteSet(S), NEW n
  PROVE  IsFiniteSet(S \X {n}) /\ Cardinality(S \X {n}) = Cardinality(S)
<1>1. IsFiniteSet({n}) /\ Cardinality({n}) = 1
  BY FS_Singleton
<1>2. IsFiniteSet(S \X {n}) /\ Cardinality(S \X {n}) = Cardinality(S) * Cardinality({n})
  BY <1>1, FS_Product
<1>3. Cardinality(S) \in Nat
  BY FS_CardinalityType
<1>. QED
  BY <1>1, <1>2, <1>3

\* Disjoint finite sets add up.
LEMMA DisjointSum ==
  ASSUME NEW A, NEW B, IsFiniteSet(A), IsFiniteSet(B), A \cap B = {}
  PROVE  /\ IsFiniteSet(A \cup B)
         /\ Cardinality(A) \in Nat /\ Cardinality(B) \in Nat
         /\ Cardinality(A \cup B) = Cardinality(A) + Cardinality(B)
<1>1. IsFiniteSet(A \cup B)
      /\ Cardinality(A \cup B) = Cardinality(A) + Cardinality(B) - Cardinality(A \cap B)
  BY FS_Union
<1>2. Cardinality(A) \in Nat /\ Cardinality(B) \in Nat /\ Cardinality(A \cap B) = 0
  BY FS_CardinalityType, FS_EmptySet
<1>. QED
  BY <1>1, <1>2

\* What a commit stores: an event for each click, and for no other.
LEMMA Committed ==
  ASSUME TypeOK, EventsNumbered, IsFiniteSet(events), Commit
  PROVE  /\ IsFiniteSet(events')
         /\ \A l \in Links :
              Cardinality(EventsOn(l)') = Cardinality(EventsOn(l)) + ClicksOn(batch, l)
         /\ \A c \in Clicks :
              Cardinality(EventsOf(c)') = Cardinality(EventsOf(c)) + (IF c \in batch THEN 1 ELSE 0)
<1>1. events' = events \cup (batch \X {flushes}) /\ dest' = dest
  BY DEF Commit
<1>2. IsFiniteSet(batch)
  BY ClicksFinite, FS_Subset DEF TypeOK
<1>3. IsFiniteSet(batch \X {flushes})
  BY <1>2, EventsOfBatch
<1>4. \A S \in SUBSET batch : (S \X {flushes}) \cap events = {}
  BY DEF TypeOK, EventsNumbered
<1>5. IsFiniteSet(events')
  BY <1>1, <1>3, FS_Union
<1>6. ASSUME NEW l \in Links
      PROVE  Cardinality(EventsOn(l)') = Cardinality(EventsOn(l)) + ClicksOn(batch, l)
  <2>. DEFINE S == {c \in batch : dest[c] = l}
  <2>1. EventsOn(l)' = EventsOn(l) \cup (S \X {flushes})
    BY <1>1 DEF EventsOn
  <2>2. IsFiniteSet(EventsOn(l)) /\ IsFiniteSet(S)
    BY <1>2, FS_Subset DEF EventsOn
  <2>3. IsFiniteSet(S \X {flushes}) /\ Cardinality(S \X {flushes}) = Cardinality(S)
    BY <2>2, EventsOfBatch
  <2>4. EventsOn(l) \cap (S \X {flushes}) = {}
    <3>1. EventsOn(l) \subseteq events /\ S \in SUBSET batch
      BY DEF EventsOn
    <3>. QED
      BY <3>1, <1>4
  <2>5. Cardinality(EventsOn(l) \cup (S \X {flushes})) = Cardinality(EventsOn(l)) + Cardinality(S \X {flushes})
    BY <2>2, <2>3, <2>4, DisjointSum
  <2>. QED
    BY <2>1, <2>3, <2>5 DEF ClicksOn
<1>7. ASSUME NEW c \in Clicks
      PROVE  Cardinality(EventsOf(c)') = Cardinality(EventsOf(c)) + (IF c \in batch THEN 1 ELSE 0)
  <2>1. IsFiniteSet(EventsOf(c))
    BY FS_Subset DEF EventsOf
  <2>2. Cardinality(EventsOf(c)) \in Nat
    BY <2>1, FS_CardinalityType
  <2>3. CASE c \in batch
    <3>1. EventsOf(c)' = EventsOf(c) \cup {<<c, flushes>>}
      BY <1>1, <2>3 DEF EventsOf
    <3>2. <<c, flushes>> \notin EventsOf(c)
      BY DEF EventsOf, EventsNumbered, TypeOK
    <3>3. Cardinality(EventsOf(c) \cup {<<c, flushes>>}) = Cardinality(EventsOf(c)) + 1
      BY <2>1, <3>2, FS_AddElement
    <3>. QED
      BY <2>3, <3>1, <3>3
  <2>4. CASE c \notin batch
    <3>1. EventsOf(c)' = EventsOf(c)
      BY <1>1, <2>4 DEF EventsOf
    <3>. QED
      BY <2>2, <2>4, <3>1
  <2>. QED
    BY <2>3, <2>4
<1>. QED
  BY <1>5, <1>6, <1>7

\* Events, counters and rows change together: at a commit, and when a link is deleted.
LEMMA StoresStep ==
  TypeOK /\ WorkerPlaced /\ OnceQueued /\ ClicksAccepted /\ BatchStorable /\ Stores /\ [Next]_vars
    => Stores'
<1>. SUFFICES ASSUME TypeOK, WorkerPlaced, OnceQueued, ClicksAccepted, BatchStorable, Stores, [Next]_vars
              PROVE  Stores'
  OBVIOUS
<1>1. ASSUME NEW c \in Clicks, NEW l \in Links, Push(c, l) PROVE Stores'
  <2>1. \A e \in events : dest'[e[1]] = dest[e[1]]
    BY <1>1, PipelineConstants DEF Push, ClicksAccepted, TypeOK
  <2>2. UNCHANGED store
    BY <1>1 DEF Push
  <2>3. \A k \in Links : EventsOn(k)' = EventsOn(k)
    BY <2>1, <2>2 DEF EventsOn, store
  <2>. QED
    BY <2>1, <2>2, <2>3 DEF Stores, EventsNumbered, EventsLive, CountsExact, store
<1>2. ASSUME NEW l \in Links, CommitLink(l) PROVE Stores'
  <2>1. UNCHANGED <<dest, events, count, flushes>>
    BY <1>2 DEF CommitLink
  <2>2. \A k \in Links : status[k] = "live" => status'[k] = "live"
    BY <1>2 DEF CommitLink, TypeOK
  <2>3. \A k \in Links : EventsOn(k)' = EventsOn(k)
    BY <2>1 DEF EventsOn
  <2>. QED
    BY <2>1, <2>2, <2>3 DEF Stores, EventsNumbered, EventsLive, CountsExact, ClicksAccepted
<1>3. ASSUME NEW l \in Links, DeleteLink(l) PROVE Stores'
  <2>1. /\ dest' = dest /\ flushes' = flushes
        /\ events' = {e \in events : dest[e[1]] # l}
        /\ count' = [count EXCEPT ![l] = 0]
        /\ status' = [status EXCEPT ![l] = "gone"]
    BY <1>3 DEF DeleteLink
  <2>2. IsFiniteSet(events')
    BY <2>1, FS_Subset DEF Stores
  <2>3. EventsOn(l)' = {} /\ \A k \in Links \ {l} : EventsOn(k)' = EventsOn(k)
    BY <2>1 DEF EventsOn
  <2>4. CountsExact'
    BY <2>1, <2>3, FS_EmptySet DEF CountsExact, Stores, TypeOK
  <2>5. EventsNumbered' /\ EventsLive'
    BY <2>1 DEF EventsNumbered, EventsLive, Stores, TypeOK, ClicksAccepted
  <2>. QED
    BY <2>2, <2>4, <2>5 DEF Stores
<1>4. CASE Commit
  <2>1. /\ events' = events \cup (batch \X {flushes}) /\ flushes' = flushes + 1
        /\ dest' = dest /\ status' = status /\ wpc = "commit"
    BY <1>4 DEF Commit
  <2>2. EventsNumbered'
    BY <2>1 DEF EventsNumbered, Stores, TypeOK
  <2>3. EventsLive'
    BY <2>1 DEF EventsLive, Stores, BatchStorable, Bad
  <2>4. \A l \in Links : count'[l] = count[l] + ClicksOn(batch, l)
    <3>1. ASSUME NEW l \in Links, l \notin Targets(batch) PROVE ClicksOn(batch, l) = 0
      <4>1. {c \in batch : dest[c] = l} = {}
        BY <3>1 DEF Targets
      <4>. QED
        BY <4>1, FS_EmptySet DEF ClicksOn
    <3>2. todo = {}
      BY <2>1 DEF WorkerPlaced
    <3>. QED
      BY <1>4, <3>1, <3>2 DEF Commit, TypeOK
  <2>. QED
    BY <1>4, <2>2, <2>3, <2>4, Committed DEF Stores, CountsExact
<1>5. ASSUME UNCHANGED store, dest' = dest PROVE Stores'
  BY <1>5 DEF Stores, EventsNumbered, EventsLive, CountsExact, EventsOn, store
<1>6. CASE FlushError \/ Stop \/ Crash
  BY <1>5, <1>6, Interrupted
<1>7. CASE Flush /\ ~Commit
  BY <1>5, <1>7 DEF Flush, Wake, QueueLength, PopEvents, BulkInsert, IncrementClickCount
<1>8. CASE Restart \/ SaveRdb \/ RedisRestart \/ UNCHANGED vars
  BY <1>5, <1>8 DEF Restart, SaveRdb, RedisRestart, store, vars
<1>. QED
  BY <1>1, <1>2, <1>3, <1>4, <1>6, <1>7, <1>8 DEF Next, Surroundings, Faults

-----------------------------------------------------------------------------
\* The copies of a click.

\* The steps that neither accept nor settle a click.
Carries ==
  \/ Wake \/ QueueLength \/ PopEvents \/ \E l \in Links : IncrementClickCount(l)
  \/ \E l \in Links : CommitLink(l) \/ DeleteLink(l)
  \/ Restart \/ SaveRdb \/ UNCHANGED vars

\* What is owed moves from the queue to the worker and is owed as before.
LEMMA Carried ==
  ASSUME TypeOK, WorkerPlaced, OnceQueued, Carries
  PROVE  owed' = owed
<1>1. CASE PopEvents
  <2>1. batch = {} /\ queue' = Unpopped
    BY <1>1 DEF PopEvents, WorkerPlaced, HoldingPcs
  <2>2. batch' = Popped
    <3>1. CASE queue = <<>>
      BY <1>1, <3>1, PoppedClicks DEF PopEvents, EndFlush, TypeOK, OnceQueued
    <3>2. CASE queue # <<>>
      BY <1>1, <3>2 DEF PopEvents
    <3>. QED
      BY <3>1, <3>2
  <2>. QED
    BY <2>1, <2>2, PoppedKept
<1>2. CASE Wake \/ QueueLength
  BY <1>2 DEF Wake, QueueLength, EndFlush, WorkerPlaced, HoldingPcs, owed, redis
<1>3. ASSUME NEW l \in Links, IncrementClickCount(l) \/ CommitLink(l) \/ DeleteLink(l) PROVE owed' = owed
  BY <1>3 DEF IncrementClickCount, CommitLink, DeleteLink, owed, redis, worker
<1>4. CASE Restart \/ SaveRdb \/ UNCHANGED vars
  BY <1>4 DEF Restart, SaveRdb, owed, redis, worker, vars
<1>. QED
  BY <1>1, <1>2, <1>3, <1>4 DEF Carries

\* A click that nobody has accepted is nowhere, and an accepted one is owed once.
LEMMA Accepts ==
  ASSUME TypeOK, ClicksAccepted, NEW c \in Clicks, NEW l \in Links, Push(c, l)
  PROVE  /\ owed[c] = 0 /\ owed' = [owed EXCEPT ![c] = 1]
         /\ EventsOf(c) = {} /\ UNCHANGED <<store, bounds>>
<1>1. None \notin Links
  BY PipelineConstants
<1>2. c \notin Range(queue) /\ c \notin batch
  BY <1>1 DEF Push, ClicksAccepted
<1>3. Range(queue') = Range(queue) \cup {c} /\ batch' = batch
  BY Pushed DEF Push, worker, TypeOK
<1>4. owed[c] = 0 /\ owed' = [owed EXCEPT ![c] = 1]
  <2>1. owed[c] = 0 /\ owed'[c] = 1
    BY <1>2, <1>3 DEF owed
  <2>2. \A d \in Clicks \ {c} : owed'[d] = owed[d]
    BY <1>3 DEF owed
  <2>. QED
    BY <2>1, <2>2 DEF owed
<1>5. EventsOf(c) = {}
  BY <1>1 DEF Push, ClicksAccepted, EventsOf
<1>. QED
  BY <1>4, <1>5 DEF Push

\* The end of a batch that holds a click which cannot be stored, or is interrupted, and
\* the end of one that is stored.
LEMMA BatchEnds ==
  ASSUME TypeOK, WorkerPlaced, Commit \/ (BulkInsert /\ \E c \in batch : Bad(c))
  PROVE  Settleable(batch) /\ owed' = Less(batch)
<1>1. batch # {} /\ batch' = {} /\ queue' = queue
  BY DEF Commit, BulkInsert, EndFlush, WorkerPlaced, HoldingPcs, redis
<1>. QED
  BY <1>1, BatchGone

\* Redis brings a copy of a click back at most, and of none that was not accepted.
LEMMA Restored ==
  ASSUME TypeOK, ClicksAccepted, RedisRestart
  PROVE  /\ \A c \in Clicks : owed'[c] <= (IF dest[c] # None THEN owed[c] + 1 ELSE 0)
         /\ owed' \in [Clicks -> Nat]
<1>1. queue' = saved /\ batch' = batch
  BY DEF RedisRestart, worker
<1>2. \A c \in Clicks : owed'[c] = (IF c \in Range(saved) THEN 1 ELSE 0) + (IF c \in batch THEN 1 ELSE 0)
  BY <1>1 DEF owed
<1>3. \A c \in Range(saved) \cup batch : dest[c] # None
  BY PipelineConstants DEF ClicksAccepted
<1>4. owed' \in [Clicks -> Nat]
  BY <1>1 DEF owed
<1>. QED
  BY <1>2, <1>3, <1>4, OwedCopies

\* No step adds a copy of a click but its acceptance and a restart of Redis.
LEMMA CopiesStep ==
  TypeOK /\ WorkerPlaced /\ OnceQueued /\ ClicksAccepted /\ Stores /\ CopiesBounded /\ [Next]_vars
    => CopiesBounded'
<1>. SUFFICES ASSUME TypeOK, WorkerPlaced, OnceQueued, ClicksAccepted, Stores, CopiesBounded, [Next]_vars,
                     NEW c \in Clicks
              PROVE  Copies(c)' <= 1 + restores'
  BY DEF CopiesBounded
<1>. DEFINE n  == Cardinality(EventsOf(c))
            n1 == Cardinality(EventsOf(c)')
<1>1. /\ Copies(c) = owed[c] + n /\ Copies(c) <= 1 + restores
      /\ Copies(c)' = owed'[c] + n1
  <2>1. Copies(c)' = owed'[c] + n1
    BY DEF Copies, owed, EventsOf
  <2>. QED
    BY <2>1, OwedCopies DEF CopiesBounded
<1>2. /\ IsFiniteSet(EventsOf(c)) /\ n \in Nat
      /\ owed[c] \in 0..2 /\ restores \in Nat
  <2>1. IsFiniteSet(EventsOf(c))
    BY FS_Subset DEF Stores, EventsOf
  <2>. QED
    BY <2>1, FS_CardinalityType, OwedCopies DEF TypeOK
<1>3. ASSUME events' \subseteq events PROVE n1 \in Nat /\ n1 <= n
  <2>1. EventsOf(c)' \subseteq EventsOf(c)
    BY <1>3 DEF EventsOf
  <2>. QED
    BY <1>2, <2>1, FS_Subset, FS_CardinalityType
<1>. HIDE DEF n, n1
<1>4. ASSUME owed'[c] \in {owed[c], owed[c] - 1}, events' \subseteq events, restores' = restores
      PROVE  Copies(c)' <= 1 + restores'
  BY <1>1, <1>2, <1>3, <1>4
<1>5. ASSUME NEW d \in Clicks, NEW l \in Links, Push(d, l) PROVE Copies(c)' <= 1 + restores'
  <2>1. /\ owed[d] = 0 /\ owed' = [owed EXCEPT ![d] = 1] /\ EventsOf(d) = {}
        /\ events' = events /\ restores' = restores
    BY <1>5, Accepts DEF store, bounds
  <2>2. CASE c = d
    <3>1. n1 = 0
      BY <2>1, <2>2, FS_EmptySet DEF n1, EventsOf
    <3>2. owed'[c] = 1
      BY <2>1, <2>2 DEF owed
    <3>. QED
      BY <1>1, <1>2, <2>1, <3>1, <3>2
  <2>3. CASE c # d
    BY <1>4, <2>1, <2>3 DEF owed
  <2>. QED
    BY <2>2, <2>3
<1>6. CASE Commit
  <2>1. owed'[c] = IF c \in batch THEN owed[c] - 1 ELSE owed[c]
    BY <1>6, BatchEnds DEF Less
  <2>2. n1 = n + (IF c \in batch THEN 1 ELSE 0) /\ restores' = restores
    BY <1>6, Committed DEF n, n1, Stores, Commit, bounds
  <2>. QED
    BY <1>1, <1>2, <2>1, <2>2
<1>7. CASE BulkInsert
  <2>1. events' = events /\ restores' = restores
    BY <1>7 DEF BulkInsert, store, bounds
  <2>2. owed'[c] \in {owed[c], owed[c] - 1}
    <3>1. CASE \E d \in batch : Bad(d)
      BY <1>7, <3>1, BatchEnds DEF Less
    <3>2. CASE ~\E d \in batch : Bad(d)
      BY <1>7, <3>2 DEF BulkInsert, owed, redis
    <3>. QED
      BY <3>1, <3>2
  <2>. QED
    BY <1>4, <2>1, <2>2
<1>8. CASE FlushError \/ Stop \/ Crash
  BY <1>4, <1>8, Interrupted DEF Less, store
<1>9. CASE RedisRestart
  <2>1. owed'[c] <= owed[c] + 1 /\ owed'[c] \in Nat
    BY <1>2, <1>9, Restored
  <2>2. events' = events /\ restores' = restores + 1
    BY <1>9 DEF RedisRestart, store
  <2>. QED
    BY <1>1, <1>2, <1>3, <2>1, <2>2
<1>10. CASE Carries
  <2>1. events' \subseteq events /\ restores' = restores
    BY <1>10 DEF Carries, Wake, QueueLength, PopEvents, IncrementClickCount, CommitLink, DeleteLink,
                 Restart, SaveRdb, store, bounds, vars
  <2>. QED
    BY <1>4, <1>10, <2>1, Carried
<1>. QED
  BY <1>5, <1>6, <1>7, <1>8, <1>9, <1>10 DEF Next, Flush, Surroundings, Faults, Carries

-----------------------------------------------------------------------------
\* The invariant holds initially.
LEMMA InvInit == Init => Inv
<1>. SUFFICES ASSUME Init PROVE Inv
  OBVIOUS
<1>1. /\ Range(queue) = {} /\ Range(saved) = {}
      /\ IsInjective(queue) /\ IsInjective(saved)
      /\ queue \in Seq(Clicks) /\ saved \in Seq(Clicks)
  <2>1. queue = <<>> /\ saved = <<>> /\ queue \in Seq(Clicks) /\ saved \in Seq(Clicks)
    BY EmptySeq DEF Init
  <2>2. Range(queue) = {} /\ Range(saved) = {}
    BY <2>1, QueueRange
  <2>3. DOMAIN queue = {} /\ DOMAIN saved = {}
    BY <2>2 DEF Range
  <2>. QED
    BY <2>1, <2>2, <2>3 DEF IsInjective
<1>2. TypeOK
  BY <1>1, PipelineConstants DEF Init, TypeOK, WorkerPcs
<1>3. WorkerPlaced
  BY FS_EmptySet, PipelineConstants DEF Init, WorkerPlaced, HoldingPcs
<1>4. ClicksAccepted /\ OnceQueued /\ BatchStorable
  BY <1>1 DEF Init, ClicksAccepted, OnceQueued, BatchStorable
<1>5. Stores
  BY FS_EmptySet DEF Init, Stores, EventsNumbered, EventsLive, CountsExact, EventsOn
<1>6. CopiesBounded
  <2>1. ASSUME NEW c \in Clicks PROVE Copies(c) = 0
    <3>1. EventsOf(c) = {}
      BY DEF Init, EventsOf
    <3>2. owed[c] = 0
      BY <1>1 DEF Init, owed
    <3>3. Cardinality(EventsOf(c)) = 0
      BY <3>1, FS_EmptySet
    <3>4. Copies(c) = owed[c] + Cardinality(EventsOf(c))
      BY OwedCopies
    <3>. QED
      BY <3>2, <3>3, <3>4
  <2>. QED
    BY <2>1 DEF Init, CopiesBounded
<1>. QED
  BY <1>2, <1>3, <1>4, <1>5, <1>6 DEF Inv

\* Every step preserves the invariant.
LEMMA InvStep == Inv /\ [Next]_vars => Inv'
BY TypeStep, WorkerStep, QueuesStep, StorableStep, StoresStep, CopiesStep DEF Inv

\* The inductive invariant of the pipeline.
THEOREM Invariance == Spec => []Inv
BY InvInit, InvStep, PTL DEF Spec

\* Every variable of the pipeline keeps its type.
THEOREM TypeCorrect == Spec => []TypeOK
<1>1. Inv => TypeOK
  BY DEF Inv
<1>. QED
  BY <1>1, Invariance, PTL

\* The counter of a link that exists is the number of its click events, whatever is
\* interrupted, restored or deleted (bulk_insert, increment_click_count and the commit of
\* _flush, the cascade of a delete).
THEOREM CountersAgree == Spec => []CountAgrees
<1>1. Inv => CountAgrees
  BY DEF Inv, Stores, CountsExact, CountAgrees, EventsOn
<1>. QED
  BY <1>1, Invariance, PTL

\* A click is queued, in the worker's hands and recorded once in all, and once more for
\* every restart of Redis, for any batch size and any interruptions.
THEOREM CopiesAreBounded == Spec => []CopiesBounded
<1>1. Inv => CopiesBounded
  BY DEF Inv
<1>. QED
  BY <1>1, Invariance, PTL

-----------------------------------------------------------------------------
\* The pipeline implements the ledger.

\* The ledger counts as the pipeline does.
LEMMA LedgerCounts ==
  ASSUME NEW S
  PROVE  Ledger!Cardinality(S) = Cardinality(S)
BY DEF Ledger!Cardinality, Cardinality

\* What Settleable says in the ledger's words.
LEMMA LedgerSettles ==
  ASSUME NEW S, Settleable(S), owed' = Less(S)
  PROVE  S \in SUBSET Ledger!Owed /\ Ledger!Settle(S)
<1>1. Ledger!Cardinality(S) \in 1..BatchSize
  BY LedgerCounts DEF Settleable
<1>. QED
  BY <1>1 DEF Settleable, Less, Ledger!Owed, Ledger!Settle

\* A step of the pipeline is a step of the ledger or none.
LEMMA LedgerStep == Inv /\ [Next]_vars => [Ledger!LedgerNext]_(Ledger!ledger)
<1>. SUFFICES ASSUME Inv, [Next]_vars PROVE Ledger!LedgerNext \/ UNCHANGED Ledger!ledger
  OBVIOUS
<1>. USE DEF Inv
<1>1. ASSUME NEW c \in Clicks, NEW l \in Links, Push(c, l) PROVE Ledger!Accept(c, l)
  BY <1>1, Accepts DEF Push, Ledger!Accept, store, bounds
<1>2. ASSUME NEW l \in Links, CommitLink(l) PROVE Ledger!Open(l)
  BY <1>2, Carried DEF Carries, CommitLink, Ledger!Open, bounds
<1>3. ASSUME NEW l \in Links, DeleteLink(l) PROVE Ledger!Close(l)
  BY <1>3, Carried DEF Carries, DeleteLink, Ledger!Close, bounds
<1>4. CASE Commit
  <2>1. batch \in SUBSET Ledger!Owed /\ Ledger!Settle(batch)
    BY <1>4, BatchEnds, LedgerSettles
  <2>2. \A c \in batch : ~Ledger!Bad(c)
    BY <1>4 DEF Commit, BatchStorable, Bad, Ledger!Bad
  <2>3. count' = [l \in Links |-> count[l] + Ledger!ClicksOn(batch, l)]
    <3>1. ASSUME NEW l \in Links, l \notin Targets(batch) PROVE ClicksOn(batch, l) = 0
      <4>1. {c \in batch : dest[c] = l} = {}
        BY <3>1 DEF Targets
      <4>. QED
        BY <4>1, FS_EmptySet DEF ClicksOn
    <3>2. todo = {} /\ \A l \in Links : count[l] \in Nat
      BY <1>4 DEF Commit, WorkerPlaced, TypeOK
    <3>3. \A l \in Links : Ledger!ClicksOn(batch, l) = ClicksOn(batch, l)
      BY LedgerCounts DEF ClicksOn, Ledger!ClicksOn
    <3>4. \A l \in Links : count[l] + Ledger!ClicksOn(batch, l) =
            IF l \in Targets(batch) \ todo THEN count[l] + ClicksOn(batch, l) ELSE count[l]
      BY <3>1, <3>2, <3>3
    <3>. QED
      BY <1>4, <3>4 DEF Commit
  <2>4. Ledger!Record(batch)
    BY <1>4, <2>1, <2>2, <2>3 DEF Commit, Ledger!Record, bounds
  <2>. QED
    BY <2>1, <2>4 DEF Ledger!LedgerNext
<1>5. CASE BulkInsert
  <2>1. UNCHANGED <<dest, store, bounds>>
    BY <1>5 DEF BulkInsert
  <2>2. CASE \E c \in batch : Bad(c)
    <3>1. batch \in SUBSET Ledger!Owed /\ Ledger!Settle(batch)
      BY <1>5, <2>2, BatchEnds, LedgerSettles
    <3>2. Ledger!Forgo(batch)
      BY <2>1, <2>2, <3>1 DEF Ledger!Forgo, Bad, Ledger!Bad, store, bounds
    <3>. QED
      BY <3>1, <3>2 DEF Ledger!LedgerNext
  <2>3. CASE ~\E c \in batch : Bad(c)
    <3>1. owed' = owed
      BY <1>5, <2>3 DEF BulkInsert, owed, redis
    <3>. QED
      BY <2>1, <3>1 DEF Ledger!ledger, store, bounds
  <2>. QED
    BY <2>2, <2>3
<1>6. CASE FlushError \/ Stop \/ Crash
  <2>1. UNCHANGED store /\ dest' = dest /\ restores' = restores /\ faults' = faults + 1
    BY <1>6, Interrupted
  <2>2. CASE owed' = owed
    BY <2>1, <2>2 DEF Ledger!LedgerNext, Ledger!Interrupt, store
  <2>3. ASSUME NEW S \in SUBSET Clicks, Settleable(S), owed' = Less(S) PROVE Ledger!LedgerNext
    <3>1. S \in SUBSET Ledger!Owed /\ Ledger!Settle(S)
      BY <2>3, LedgerSettles
    <3>2. Ledger!Forgo(S)
      BY <2>1, <3>1 DEF Ledger!Forgo, store
    <3>. QED
      BY <3>1, <3>2 DEF Ledger!LedgerNext
  <2>. QED
    BY <1>6, <2>2, <2>3, Interrupted
<1>7. CASE RedisRestart
  <2>1. /\ owed' \in [Clicks -> Nat]
        /\ \A c \in Clicks : owed'[c] <= (IF c \in Ledger!Accepted THEN owed[c] + 1 ELSE 0)
    BY <1>7, Restored DEF Ledger!Accepted
  <2>2. Ledger!Restore
    BY <1>7, <2>1 DEF RedisRestart, Ledger!Restore, store
  <2>. QED
    BY <2>2 DEF Ledger!LedgerNext
<1>8. CASE Carries /\ ~\E l \in Links : CommitLink(l) \/ DeleteLink(l)
  <2>1. UNCHANGED <<dest, status, events, count, flushes, faults, restores>>
    BY <1>8 DEF Carries, Wake, QueueLength, PopEvents, IncrementClickCount, Restart, SaveRdb,
                store, bounds, vars
  <2>. QED
    BY <1>8, <2>1, Carried DEF Ledger!ledger
<1>. QED
  BY <1>1, <1>2, <1>3, <1>4, <1>5, <1>6, <1>7, <1>8
     DEF Next, Flush, Surroundings, Faults, Carries, Ledger!LedgerNext

\* Whatever the worker, Redis and the process go through, clicks are recorded or given up
\* in whole batches, events and counters together, and none is given up without an
\* interruption or a click that cannot be stored.
THEOREM PipelineIsLedger == Spec => ImplementsLedger
<1>1. Init => Ledger!LedgerInit
  <2>1. ASSUME Init PROVE owed = [c \in Clicks |-> 0]
    <3>1. Range(queue) = {}
      BY <2>1, QueueRange, EmptySeq DEF Init
    <3>. QED
      BY <2>1, <3>1 DEF Init, owed
  <2>. QED
    BY <2>1 DEF Init, Ledger!LedgerInit
<1>. QED
  BY <1>1, LedgerStep, Invariance, PTL DEF Spec, ImplementsLedger, Ledger!LedgerSpec

=============================================================================
