------------------------- MODULE ConnectionsProofs -------------------------
(***************************************************************************)
(* Theorems about Connections, for any number of requests and things and   *)
(* every size of the pool.                                                 *)
(***************************************************************************)
EXTENDS Connections, FiniteSetTheorems, TLAPS

\* The session has had its connection since before step s of script p.
Attached(p, s) ==
  \E i \in 1..(s - 1) : p[i] = "checkout" /\ \A j \in i..(s - 1) : p[j] # "release"

\* An actor is in the script of its handler, with the rows of it; a request works on one.
Placed(a) ==
  IF Busy(a)
  THEN /\ step[a] \in 1..Len(Script[kind[a]])
       /\ row[a] \in 1..Len(order[a])
       /\ kind[a] = "flush" <=> a = worker
       /\ a # worker => Len(order[a]) = 1
       /\ Attached(Script[kind[a]], step[a]) => a \in conn
  ELSE step[a] = 1 /\ row[a] = 1

\* A lock was taken in a step that its holder has done, or is doing row by row.
Taken(b, m) ==
  /\ Busy(b)
  /\ \E i \in 1..step[b] : Script[kind[b]][i] = m /\ (i = step[b] => b = worker)

Inv == /\ TypeOK
       /\ \A a \in Actors : Placed(a)
       /\ \A l \in locks : Taken(l[1], l[2])

-----------------------------------------------------------------------------
\* What the proof uses of the scripts.

\* A script locks only while its session has a connection, and ends it if it has locked.
Orderly(p) ==
  /\ Len(p) \in 1..6
  /\ \A s \in 1..Len(p) : p[s] \in LockModes => Attached(p, s) /\ p[Len(p)] = "release"

\* Whoever waits for a lock and holds one holds a revoked token and waits for the hash of
\* its heir.
Parents(p) ==
  \A i, s \in 1..Len(p) :
    i < s /\ p[i] \in LockModes /\ p[s] \in LockModes => p[i] = "revoke" /\ p[s] = "hash"

\* The worker only ever locks links.
LinksOnly(p) == \A s \in 1..Len(p) : p[s] \in LockModes => p[s] \in {"share", "update"}

\* The handlers by name.
LEMMA Handlers ==
  /\ Kinds = {"create", "update", "delete", "list", "get", "redirect", "summary", "qr",
              "register", "login", "refresh", "logout", "flush"}
  /\ Script["create"] = create_url /\ Script["update"] = update_url
  /\ Script["delete"] = delete_url /\ Script["list"] = list_urls
  /\ Script["get"] = get_url /\ Script["redirect"] = redirect
  /\ Script["summary"] = get_analytics_summary /\ Script["qr"] = get_qr_code
  /\ Script["register"] = register /\ Script["login"] = login
  /\ Script["refresh"] = refresh_token /\ Script["logout"] = logout
  /\ Script["flush"] = flush
BY DEF Kinds, Script

\* The scripts of requests about links that change them.
LEMMA WritingScripts ==
  \A p \in {create_url, update_url, delete_url} : Orderly(p) /\ Parents(p)
<1>1. Orderly(create_url) /\ Parents(create_url)
  BY DEF Orderly, Parents, Attached, LockModes, create_url
<1>2. Orderly(update_url) /\ Parents(update_url)
  BY DEF Orderly, Parents, Attached, LockModes, update_url
<1>3. Orderly(delete_url) /\ Parents(delete_url)
  BY DEF Orderly, Parents, Attached, LockModes, delete_url
<1>. QED
  BY <1>1, <1>2, <1>3

\* The scripts of requests that read.
LEMMA ReadingScripts ==
  \A p \in {list_urls, get_url, redirect, get_analytics_summary, get_qr_code} :
    Orderly(p) /\ Parents(p)
<1>1. Orderly(list_urls) /\ Parents(list_urls)
  BY DEF Orderly, Parents, LockModes, list_urls
<1>2. Orderly(get_url) /\ Parents(get_url)
  BY DEF Orderly, Parents, LockModes, get_url
<1>3. Orderly(redirect) /\ Parents(redirect)
  BY DEF Orderly, Parents, LockModes, redirect
<1>4. Orderly(get_analytics_summary) /\ Parents(get_analytics_summary)
  BY DEF Orderly, Parents, LockModes, get_analytics_summary
<1>5. Orderly(get_qr_code) /\ Parents(get_qr_code)
  BY DEF Orderly, Parents, LockModes, get_qr_code
<1>. QED
  BY <1>1, <1>2, <1>3, <1>4, <1>5

\* The scripts of requests about accounts.
LEMMA AccountScripts ==
  \A p \in {register, login, refresh_token, logout} : Orderly(p) /\ Parents(p)
<1>1. Orderly(register) /\ Parents(register)
  BY DEF Orderly, Parents, Attached, LockModes, register
<1>2. Orderly(login) /\ Parents(login)
  BY DEF Orderly, Parents, Attached, LockModes, login
<1>3. Orderly(refresh_token) /\ Parents(refresh_token)
  BY DEF Orderly, Parents, Attached, LockModes, refresh_token
<1>4. Orderly(logout) /\ Parents(logout)
  BY DEF Orderly, Parents, Attached, LockModes, logout
<1>. QED
  BY <1>1, <1>2, <1>3, <1>4

\* The script of the worker.
LEMMA WorkerScript == Orderly(flush) /\ LinksOnly(flush)
BY DEF Orderly, LinksOnly, Attached, LockModes, flush

\* Every script.
LEMMA Scripts ==
  ASSUME NEW k \in Kinds
  PROVE  /\ Orderly(Script[k])
         /\ k # "flush" => Parents(Script[k])
         /\ k = "flush" => LinksOnly(Script[k])
BY Handlers, WritingScripts, ReadingScripts, AccountScripts, WorkerScript

\* A session that has its connection after a step had it before or got it there.
LEMMA AttachedNext ==
  ASSUME NEW p, NEW s \in Nat \ {0}, Attached(p, s + 1)
  PROVE  p[s] # "release" /\ (p[s] = "checkout" \/ Attached(p, s))
<1>1. PICK i \in 1..s : p[i] = "checkout" /\ \A j \in i..s : p[j] # "release"
  BY DEF Attached
<1>2. p[s] # "release"
  BY <1>1
<1>3. CASE i = s
  BY <1>1, <1>2, <1>3
<1>4. CASE i # s
  <2>1. i \in 1..(s - 1) /\ \A j \in i..(s - 1) : p[j] # "release"
    BY <1>1, <1>4
  <2>. QED
    BY <1>1, <1>2, <2>1 DEF Attached
<1>. QED
  BY <1>3, <1>4

\* Nobody has a connection before the first step.
LEMMA AttachedFirst == ASSUME NEW p PROVE ~Attached(p, 1)
BY DEF Attached

\* Modes that exclude each other, as far as somebody holds them and waits.
LEMMA Conflicting ==
  ASSUME NEW m \in LockModes, NEW n \in LockModes, {m, n} \in Conflicts
  PROVE  /\ m = "revoke" => n = "revoke"
         /\ n = "hash" => m = "hash"
         /\ n \in {"share", "update"} => m \in {"update", "delete"}
BY DEF LockModes, Conflicts

-----------------------------------------------------------------------------
\* Who may be waiting.

\* A request that waits for a lock and holds one has revoked a token and waits for a hash;
\* the worker holds links and waits for links.
LEMMA HoldersWait ==
  ASSUME Inv, NEW b \in Actors, NEW m \in LockModes, NEW x \in Things, <<b, m, x>> \in locks,
         At(b) \in LockModes
  PROVE  IF b = worker THEN {m, At(b)} \subseteq {"share", "update"}
                       ELSE m = "revoke" /\ At(b) = "hash"
<1>1. Busy(b) /\ Placed(b) /\ Taken(b, m)
  BY DEF Inv, Taken
<1>2. kind[b] \in Kinds
  BY <1>1 DEF Inv, TypeOK, Busy
<1>3. /\ At(b) = Script[kind[b]][step[b]] /\ step[b] \in 1..Len(Script[kind[b]])
      /\ kind[b] = "flush" <=> b = worker
  BY <1>1 DEF Placed, At
<1>4. PICK i \in 1..step[b] : Script[kind[b]][i] = m /\ (i = step[b] => b = worker)
  BY <1>1 DEF Taken
<1>5. Len(Script[kind[b]]) \in Nat
  BY <1>2, Scripts DEF Orderly
<1>6. i \in 1..Len(Script[kind[b]]) /\ (i < step[b] \/ i = step[b])
  BY <1>3, <1>4, <1>5
<1>7. CASE b = worker
  BY <1>2, <1>3, <1>4, <1>6, <1>7, Scripts DEF LinksOnly
<1>8. CASE b # worker
  BY <1>2, <1>3, <1>4, <1>6, <1>8, Scripts DEF Parents
<1>. QED
  BY <1>7, <1>8

\* A blocker is somebody who has a lock that excludes the one that is waited for.
LEMMA Blocker ==
  ASSUME Inv, NEW a \in Actors, At(a) \in LockModes, NEW b \in Blockers(a)
  PROVE  /\ b \in Actors /\ b # a /\ b \in conn
         /\ \E m \in LockModes, x \in Things : <<b, m, x>> \in locks /\ {m, At(a)} \in Conflicts
BY DEF Blockers, Inv, TypeOK

\* Of two who wait, one for the other, the latter does not wait for a third who waits.
LEMMA ShortChains ==
  ASSUME Inv, NEW a \in Actors, NEW b \in Blockers(a), NEW c \in Blockers(b),
         At(a) \in LockModes, At(b) \in LockModes, At(c) \in LockModes
  PROVE  FALSE
<1>1. /\ b \in Actors
      /\ \E m \in LockModes, x \in Things : <<b, m, x>> \in locks /\ {m, At(a)} \in Conflicts
  BY Blocker
<1>2. PICK m \in LockModes, x \in Things : <<b, m, x>> \in locks /\ {m, At(a)} \in Conflicts
  BY <1>1
<1>3. /\ c \in Actors /\ c # b
      /\ \E n \in LockModes, y \in Things : <<c, n, y>> \in locks /\ {n, At(b)} \in Conflicts
  BY <1>1, Blocker
<1>4. PICK n \in LockModes, y \in Things : <<c, n, y>> \in locks /\ {n, At(b)} \in Conflicts
  BY <1>3
<1>5. IF b = worker THEN At(b) \in {"share", "update"} ELSE At(b) = "hash"
  BY <1>1, <1>2, HoldersWait
<1>6. IF c = worker THEN n \in {"share", "update"} ELSE n = "revoke"
  BY <1>3, <1>4, HoldersWait
<1>7. /\ n = "revoke" => At(b) = "revoke"
      /\ At(b) = "hash" => n = "hash"
      /\ At(b) \in {"share", "update"} => n \in {"update", "delete"}
  BY <1>4, Conflicting
<1>. QED
  BY <1>3, <1>5, <1>6, <1>7

\* A set of actors that are all stuck in it has one that waits for a lock and is blocked in
\* the set by another such.
LEMMA StuckTogether ==
  ASSUME Inv, NEW S \in SUBSET Actors, \A a \in S : StuckIn(a, S)
  PROVE  /\ \A a \in S : At(a) \in LockModes =>
              \E b \in S : b \in Blockers(a) /\ At(b) \in LockModes
         /\ S # {} => \E a \in S : At(a) \in LockModes
<1>1. \A b \in S : b \in conn => At(b) \in LockModes
  BY DEF StuckIn
<1>2. \A a \in S : At(a) \in LockModes => \E b \in S : b \in Blockers(a) /\ At(b) \in LockModes
  <2>. SUFFICES ASSUME NEW a \in S, At(a) \in LockModes
                PROVE  \E b \in S : b \in Blockers(a) /\ At(b) \in LockModes
    OBVIOUS
  <2>1. At(a) \notin {"checkout", "optional"}
    BY DEF LockModes
  <2>2. PICK b \in S : b \in Blockers(a)
    BY <2>1 DEF StuckIn
  <2>3. b \in conn
    BY <2>2, Blocker
  <2>. QED
    BY <1>1, <2>2, <2>3
<1>3. ASSUME NEW a \in S, At(a) \notin LockModes PROVE \E b \in S : At(b) \in LockModes
  <2>1. Cardinality(conn) = PoolSize /\ conn \subseteq S
    BY <1>3 DEF StuckIn
  <2>2. conn # {}
    BY <2>1, PoolHoldsOne, FS_EmptySet
  <2>. QED
    BY <1>1, <2>1, <2>2
<1>. QED
  BY <1>2, <1>3

\* Nobody is stuck.
LEMMA NobodyStuck == Inv => NoDeadlock
<1>. SUFFICES ASSUME Inv, NEW S \in SUBSET Actors, S # {}, \A a \in S : StuckIn(a, S)
              PROVE  FALSE
  BY DEF NoDeadlock
<1>1. PICK a \in S : At(a) \in LockModes
  BY StuckTogether
<1>2. PICK b \in S : b \in Blockers(a) /\ At(b) \in LockModes
  BY <1>1, StuckTogether
<1>3. PICK c \in S : c \in Blockers(b) /\ At(c) \in LockModes
  BY <1>2, StuckTogether
<1>. QED
  BY <1>1, <1>2, <1>3, ShortChains

-----------------------------------------------------------------------------
\* The pool.

\* One more holder of a connection, if there is room.
LEMMA PoolAfterCheckout ==
  ASSUME TypeOK, NEW a \in Actors, a \in conn \/ Cardinality(conn) < PoolSize
  PROVE  conn \cup {a} \in SUBSET Actors /\ Cardinality(conn \cup {a}) <= PoolSize
<1>1. IsFiniteSet(Actors) /\ conn \in SUBSET Actors /\ Cardinality(conn) <= PoolSize
  BY FiniteActors, FS_AddElement DEF Actors, TypeOK
<1>2. IsFiniteSet(conn) /\ Cardinality(conn) \in Nat
  BY <1>1, FS_Subset, FS_CardinalityType
<1>3. Cardinality(conn \cup {a}) = IF a \in conn THEN Cardinality(conn) ELSE Cardinality(conn) + 1
  BY <1>2, FS_AddElement
<1>. QED
  BY <1>1, <1>2, <1>3, PoolHoldsOne

\* One less.
LEMMA PoolAfterRelease ==
  ASSUME TypeOK, NEW a \in Actors
  PROVE  conn \ {a} \in SUBSET Actors /\ Cardinality(conn \ {a}) <= PoolSize
<1>1. IsFiniteSet(Actors) /\ conn \in SUBSET Actors /\ Cardinality(conn) <= PoolSize
  BY FiniteActors, FS_AddElement DEF Actors, TypeOK
<1>2. IsFiniteSet(conn) /\ Cardinality(conn) \in Nat
  BY <1>1, FS_Subset, FS_CardinalityType
<1>3. Cardinality(conn \ {a}) \in Nat /\ Cardinality(conn \ {a}) <= Cardinality(conn)
  BY <1>2, FS_Subset, FS_CardinalityType
<1>. QED
  BY <1>1, <1>2, <1>3, PoolHoldsOne

-----------------------------------------------------------------------------
\* Steps of one actor.

\* Where an actor is in its script.
LEMMA InScript ==
  ASSUME Inv, NEW a \in Actors, Busy(a)
  PROVE  /\ kind[a] \in Kinds /\ At(a) = Script[kind[a]][step[a]]
         /\ Len(Script[kind[a]]) \in 1..6 /\ step[a] \in 1..Len(Script[kind[a]])
         /\ Orderly(Script[kind[a]])
BY Scripts DEF Inv, TypeOK, Placed, Busy, At, Orderly

\* Who has come to a step is busy.
LEMMA AtStep == ASSUME NEW a, At(a) # "idle" PROVE Busy(a)
BY DEF At

\* The other actors stay where they are, in the same rows.
Alone(a) ==
  \A b \in Actors \ {a} : /\ kind'[b] = kind[b] /\ step'[b] = step[b]
                          /\ order'[b] = order[b] /\ row'[b] = row[b]

\* The types of where the actors are.
Positions ==
  /\ kind \in [Actors -> Kinds \cup {None}]
  /\ step \in [Actors -> 1..6]
  /\ order \in [Actors -> Seq(Things)]
  /\ row \in [Actors -> Nat \ {0}]

\* The end of a handler leaves its actor free.
LEMMA EndedPlaces ==
  ASSUME Inv, NEW a \in Actors, Ended(a)
  PROVE  Positions' /\ Alone(a) /\ ~Busy(a)' /\ Placed(a)'
<1>1. Positions
  BY DEF Inv, TypeOK, Positions
<1>2. <<>> \in Seq(Things) /\ 1 \in 1..6 /\ 1 \in Nat \ {0}
  OBVIOUS
<1>3. Positions' /\ Alone(a)
  BY <1>1, <1>2 DEF Ended, Positions, Alone
<1>4. kind'[a] = None /\ step'[a] = 1 /\ row'[a] = 1
  BY <1>1 DEF Ended, Positions
<1>. QED
  BY <1>3, <1>4 DEF Busy, Placed

\* The next step of a script, if the actor has its connection where the script needs it.
LEMMA AdvancePlaces ==
  ASSUME Inv, NEW a \in Actors, Busy(a), Advance(a),
         At(a) = "checkout" => a \in conn',
         At(a) # "release" /\ a \in conn => a \in conn'
  PROVE  /\ Positions' /\ Alone(a) /\ Placed(a)'
         /\ \/ ~Busy(a)' /\ step[a] = Len(Script[kind[a]])
            \/ kind'[a] = kind[a] /\ step'[a] = step[a] + 1
<1>1. Positions /\ Placed(a)
  BY DEF Inv, TypeOK, Positions
<1>2. /\ kind[a] \in Kinds /\ At(a) = Script[kind[a]][step[a]]
      /\ Len(Script[kind[a]]) \in 1..6 /\ step[a] \in 1..Len(Script[kind[a]])
  BY InScript
<1>3. CASE step[a] = Len(Script[kind[a]])
  <2>1. Ended(a)
    BY <1>3 DEF Advance
  <2>. QED
    BY <1>3, <2>1, EndedPlaces
<1>4. CASE step[a] # Len(Script[kind[a]])
  <2>1. /\ step' = [step EXCEPT ![a] = step[a] + 1] /\ row' = [row EXCEPT ![a] = 1]
        /\ kind' = kind /\ order' = order
    BY <1>4 DEF Advance
  <2>2. step[a] + 1 \in 1..Len(Script[kind[a]]) /\ step[a] + 1 \in 1..6 /\ step[a] \in Nat \ {0}
    <3>1. \A n \in 1..6 : \A i \in 1..n : i # n =>
            i + 1 \in 1..n /\ i + 1 \in 1..6 /\ i \in Nat \ {0}
      OBVIOUS
    <3>. QED
      BY <1>2, <1>4, <3>1
  <2>3. Positions' /\ Alone(a) /\ step'[a] = step[a] + 1 /\ row'[a] = 1
    BY <1>1, <2>1, <2>2 DEF Positions, Alone
  <2>4. Attached(Script[kind[a]], step[a] + 1) => a \in conn'
    <3>. SUFFICES ASSUME Attached(Script[kind[a]], step[a] + 1) PROVE a \in conn'
      OBVIOUS
    <3>1. At(a) # "release" /\ (At(a) = "checkout" \/ Attached(Script[kind[a]], step[a]))
      BY <1>2, <2>2, AttachedNext
    <3>. QED
      BY <1>1, <3>1 DEF Placed
  <2>5. row[a] \in 1..Len(order[a]) /\ Len(order[a]) \in Nat
    BY <1>1 DEF Placed, Positions
  <2>6. Placed(a)'
    BY <1>1, <2>1, <2>2, <2>3, <2>4, <2>5 DEF Placed, Busy
  <2>. QED
    BY <2>1, <2>3, <2>6
<1>. QED
  BY <1>3, <1>4

\* Locks in the steps that are done stay there, and one that is left over at the end of a
\* script has been released.
LEMMA TakenNext ==
  ASSUME Inv, NEW a \in Actors, NEW m \in LockModes, Taken(a, m) \/ At(a) = m,
         kind'[a] = kind[a], step'[a] = step[a] + 1, Busy(a)
  PROVE  Taken(a, m)'
<1>1. At(a) = Script[kind[a]][step[a]] /\ step[a] \in Nat \ {0}
  BY InScript
<1>2. PICK i \in 1..step[a] : Script[kind[a]][i] = m
  BY <1>1 DEF Taken
<1>3. i \in 1..(step[a] + 1) /\ i # step[a] + 1
  BY <1>1, <1>2
<1>. QED
  BY <1>2, <1>3 DEF Taken, Busy

\* Who has locked, or is about to, does not end but by releasing.
LEMMA LocksEnd ==
  ASSUME Inv, NEW a \in Actors, NEW m \in LockModes, Busy(a), Taken(a, m) \/ At(a) = m,
         step[a] = Len(Script[kind[a]])
  PROVE  At(a) = "release"
<1>1. /\ At(a) = Script[kind[a]][step[a]] /\ step[a] \in Nat \ {0}
      /\ Orderly(Script[kind[a]])
  BY InScript
<1>2. PICK i \in 1..step[a] : Script[kind[a]][i] = m
  BY <1>1 DEF Taken
<1>. QED
  BY <1>1, <1>2 DEF Orderly

\* The locks of those who do not move.
LEMMA OthersKeep ==
  ASSUME Inv, NEW a \in Actors, Alone(a), conn' \ {a} = conn \ {a}
  PROVE  /\ \A b \in Actors \ {a} : Placed(b)'
         /\ \A l \in locks : l[1] # a => Taken(l[1], l[2])'
<1>1. \A b \in Actors \ {a} : Placed(b) /\ (b \in conn' <=> b \in conn)
  BY DEF Inv
<1>2. \A l \in locks : l[1] \in Actors /\ Taken(l[1], l[2])
  BY DEF Inv, TypeOK
<1>3. \A b \in Actors \ {a} : Placed(b)'
  BY <1>1 DEF Alone, Placed, Busy
<1>4. \A l \in locks : l[1] # a => Taken(l[1], l[2])'
  BY <1>2 DEF Alone, Taken, Busy
<1>. QED
  BY <1>3, <1>4

-----------------------------------------------------------------------------
\* The actions.

\* A sequence of things that is not empty is in place of an order.
LEMMA BeginStep ==
  ASSUME Inv, NEW a \in Actors, NEW k \in Kinds, NEW s \in Seq(Things), Begin(a, k, s),
         k = "flush" <=> a = worker, Len(s) \in Nat \ {0}, a # worker => Len(s) = 1
  PROVE  Inv'
<1>1. /\ ~Busy(a) /\ kind' = [kind EXCEPT ![a] = k] /\ order' = [order EXCEPT ![a] = s]
      /\ UNCHANGED <<step, row, conn, locks>>
  BY DEF Begin
<1>2. Positions /\ TypeOK
  BY DEF Inv, TypeOK, Positions
<1>3. Positions' /\ Alone(a) /\ kind'[a] = k /\ order'[a] = s
  BY <1>1, <1>2 DEF Positions, Alone
<1>4. step'[a] = 1 /\ row'[a] = 1
  BY <1>1 DEF Inv, Placed
<1>5. Len(Script[k]) \in 1..6 /\ ~Attached(Script[k], 1)
  BY Scripts, AttachedFirst DEF Orderly
<1>6. 1 \in 1..Len(Script[k]) /\ 1 \in 1..Len(s)
  <2>1. \A n \in Nat \ {0} : 1 \in 1..n
    OBVIOUS
  <2>2. \A n \in 1..6 : n \in Nat \ {0}
    OBVIOUS
  <2>3. Len(Script[k]) \in Nat \ {0}
    BY <1>5, <2>2
  <2>. QED
    BY <2>1, <2>3
<1>7. Placed(a)'
  BY <1>3, <1>4, <1>5, <1>6 DEF Placed, Busy
<1>8. \A l \in locks : l[1] # a
  BY <1>1 DEF Inv, Taken
<1>9. TypeOK'
  BY <1>1, <1>2, <1>3 DEF TypeOK, Positions
<1>. QED
  BY <1>1, <1>3, <1>7, <1>8, <1>9, OthersKeep DEF Inv

\* A request is for one thing.
LEMMA RequestStep ==
  ASSUME Inv, NEW r \in Reqs, Request(r)
  PROVE  Inv'
<1>1. PICK k \in Kinds \ {"flush"}, x \in Things : Begin(r, k, <<x>>)
  BY DEF Request
<1>2. <<x>> \in Seq(Things) /\ Len(<<x>>) = 1 /\ Len(<<x>>) \in Nat \ {0}
  OBVIOUS
<1>3. r \in Actors /\ r # worker
  BY WorkerIsNoRequest DEF Actors
<1>. QED
  BY <1>1, <1>2, <1>3, BeginStep

\* A batch is about one thing at least.
LEMMA WakeStep ==
  ASSUME Inv, Wake
  PROVE  Inv'
<1>1. PICK s \in Orders(Things) : Begin(worker, "flush", s)
  BY DEF Wake
<1>2. PICK n \in 1..Cardinality(Things) : s \in [1..n -> Things]
  BY DEF Orders
<1>3. Cardinality(Things) \in Nat
  BY FiniteThings, FS_CardinalityType
<1>4. n \in Nat \ {0} /\ s \in Seq(Things) /\ Len(s) = n
  BY <1>2, <1>3
<1>5. worker \in Actors /\ "flush" \in Kinds
  BY Handlers DEF Actors
<1>. QED
  BY <1>1, <1>4, <1>5, BeginStep

\* A step that takes or gives no lock.
LEMMA UnlockedStep ==
  ASSUME Inv, NEW a \in Actors, Busy(a), Advance(a), locks' = locks,
         At(a) \in {"redis", "checkout", "optional"},
         conn' = conn \/ conn' = conn \cup {a},
         At(a) = "checkout" => a \in conn',
         conn' \in SUBSET Actors, Cardinality(conn') <= PoolSize
  PROVE  Inv'
<1>1. /\ Positions' /\ Alone(a) /\ Placed(a)'
      /\ \/ ~Busy(a)' /\ step[a] = Len(Script[kind[a]])
         \/ kind'[a] = kind[a] /\ step'[a] = step[a] + 1
  BY AdvancePlaces
<1>2. \A l \in locks : l = <<l[1], l[2], l[3]>> /\ l[2] \in LockModes /\ l[1] \in conn /\ Taken(l[1], l[2])
  BY DEF Inv, TypeOK
<1>3. \A l \in locks : l[1] = a => Taken(l[1], l[2])'
  <2>. SUFFICES ASSUME NEW l \in locks, l[1] = a PROVE Taken(a, l[2])'
    OBVIOUS
  <2>1. step[a] # Len(Script[kind[a]])
    BY <1>2, LocksEnd
  <2>. QED
    BY <1>1, <1>2, <2>1, TakenNext
<1>4. locks \in SUBSET (conn' \X LockModes \X Things)
  BY DEF Inv, TypeOK
<1>5. TypeOK'
  BY <1>1, <1>4 DEF TypeOK, Positions
<1>6. conn' \ {a} = conn \ {a}
  OBVIOUS
<1>. QED
  BY <1>1, <1>3, <1>5, <1>6, OthersKeep DEF Inv

\* A call of Redis.
LEMMA CallRedisStep ==
  ASSUME Inv, NEW a \in Actors, CallRedis(a)
  PROVE  Inv'
<1>1. Busy(a)
  BY AtStep DEF CallRedis
<1>. QED
  BY <1>1, UnlockedStep DEF CallRedis, Inv, TypeOK

\* A connection is taken from the pool, or is already there.
LEMMA CheckoutStep ==
  ASSUME Inv, NEW a \in Actors, Checkout(a)
  PROVE  Inv'
<1>1. Busy(a)
  BY AtStep DEF Checkout
<1>2. conn \cup {a} \in SUBSET Actors /\ Cardinality(conn \cup {a}) <= PoolSize
  BY PoolAfterCheckout DEF Checkout, Inv
<1>. QED
  BY <1>1, <1>2, UnlockedStep DEF Checkout

\* A caller without a token.
LEMMA AnonymousStep ==
  ASSUME Inv, NEW a \in Actors, Anonymous(a)
  PROVE  Inv'
<1>1. Busy(a)
  BY AtStep DEF Anonymous
<1>. QED
  BY <1>1, UnlockedStep DEF Anonymous, Inv, TypeOK

\* A statement that locks; one row after the other, if it is the worker's.
LEMMA LockStep ==
  ASSUME Inv, NEW a \in Actors, Lock(a)
  PROVE  Inv'
<1>1. At(a) \in LockModes /\ conn' = conn /\ locks' = locks \cup {<<a, At(a), order[a][row[a]]>>}
  BY DEF Lock
<1>2. Busy(a) /\ At(a) \notin {"release", "checkout"}
  BY <1>1, AtStep DEF LockModes
<1>3. /\ kind[a] \in Kinds /\ At(a) = Script[kind[a]][step[a]]
      /\ step[a] \in 1..Len(Script[kind[a]]) /\ Len(Script[kind[a]]) \in 1..6
      /\ Orderly(Script[kind[a]])
  BY <1>2, InScript
<1>4. Placed(a) /\ Positions
  BY DEF Inv, TypeOK, Positions
<1>5. a \in conn
  BY <1>1, <1>2, <1>3, <1>4 DEF Orderly, Placed
<1>6. row[a] \in 1..Len(order[a]) /\ order[a] \in Seq(Things) /\ order[a][row[a]] \in Things
  BY <1>2, <1>4 DEF Placed, Positions
<1>7. locks' \in SUBSET (conn' \X LockModes \X Things)
  BY <1>1, <1>5, <1>6 DEF Inv, TypeOK
<1>8. \A l \in locks' : /\ l[2] \in LockModes
                        /\ l[1] = a => Taken(a, l[2]) \/ At(a) = l[2]
                        /\ l[1] # a => l \in locks
  BY <1>1, <1>7 DEF Inv
<1>9. CASE row[a] < Len(order[a])
  <2>1. row' = [row EXCEPT ![a] = row[a] + 1] /\ UNCHANGED <<kind, step, order>>
    BY <1>9 DEF Lock
  <2>2. Len(order[a]) \in Nat /\ row[a] + 1 \in 1..Len(order[a]) /\ row[a] + 1 \in Nat \ {0}
    BY <1>6, <1>9
  <2>3. Positions' /\ Alone(a) /\ row'[a] = row[a] + 1
    BY <1>4, <2>1, <2>2 DEF Positions, Alone
  <2>4. Placed(a)'
    BY <1>1, <1>2, <1>4, <2>1, <2>2, <2>3 DEF Placed, Busy
  <2>5. a = worker
    <3>1. \A i \in 1..1 : ~(i < 1)
      OBVIOUS
    <3>2. a # worker => Len(order[a]) = 1
      BY <1>2, <1>4 DEF Placed
    <3>. QED
      BY <1>6, <1>9, <3>1, <3>2
  <2>6. step[a] \in 1..step[a]
    BY <1>3
  <2>7. \A l \in locks' : l[1] = a => Taken(l[1], l[2])'
    BY <1>2, <1>3, <1>8, <2>1, <2>5, <2>6 DEF Taken, Busy
  <2>8. TypeOK'
    BY <1>1, <1>7, <2>3 DEF TypeOK, Positions, Inv
  <2>9. /\ \A b \in Actors \ {a} : Placed(b)'
        /\ \A l \in locks : l[1] # a => Taken(l[1], l[2])'
    BY <1>1, <2>3, OthersKeep
  <2>. QED
    BY <1>8, <2>4, <2>7, <2>8, <2>9 DEF Inv
<1>10. CASE ~(row[a] < Len(order[a]))
  <2>1. Advance(a)
    BY <1>10 DEF Lock
  <2>2. step[a] # Len(Script[kind[a]])
    BY <1>1, <1>2, LocksEnd
  <2>3. /\ Positions' /\ Alone(a) /\ Placed(a)'
        /\ kind'[a] = kind[a] /\ step'[a] = step[a] + 1
    BY <1>1, <1>2, <2>1, <2>2, AdvancePlaces
  <2>4. \A l \in locks' : l[1] = a => Taken(l[1], l[2])'
    BY <1>2, <1>8, <2>3, TakenNext
  <2>5. TypeOK'
    BY <1>1, <1>7, <2>3 DEF TypeOK, Positions, Inv
  <2>6. /\ \A b \in Actors \ {a} : Placed(b)'
        /\ \A l \in locks : l[1] # a => Taken(l[1], l[2])'
    BY <1>1, <2>3, OthersKeep
  <2>. QED
    BY <1>8, <2>3, <2>4, <2>5, <2>6 DEF Inv
<1>. QED
  BY <1>9, <1>10

\* A session that is closed leaves no lock.
LEMMA ClosedStep ==
  ASSUME Inv, NEW a \in Actors, Unlock(a), conn' = conn \ {a}, Positions', Alone(a), Placed(a)'
  PROVE  Inv'
<1>1. \A l \in locks' : l \in locks /\ l[1] # a
  BY DEF Unlock
<1>2. conn' \in SUBSET Actors /\ Cardinality(conn') <= PoolSize
  BY PoolAfterRelease DEF Inv
<1>3. locks' \in SUBSET (conn' \X LockModes \X Things)
  BY <1>1 DEF Inv, TypeOK
<1>4. TypeOK'
  BY <1>2, <1>3 DEF TypeOK, Positions
<1>5. /\ \A b \in Actors \ {a} : Placed(b)'
      /\ \A l \in locks : l[1] # a => Taken(l[1], l[2])'
  BY OthersKeep
<1>. QED
  BY <1>1, <1>4, <1>5 DEF Inv

\* Commit, rollback or close.
LEMMA ReleaseStep ==
  ASSUME Inv, NEW a \in Actors, Release(a)
  PROVE  Inv'
<1>1. At(a) = "release" /\ conn' = conn \ {a} /\ Unlock(a) /\ Advance(a)
  BY DEF Release
<1>2. Busy(a)
  BY <1>1, AtStep
<1>3. Positions' /\ Alone(a) /\ Placed(a)'
  BY <1>1, <1>2, AdvancePlaces
<1>. QED
  BY <1>1, <1>3, ClosedStep

\* An early end.
LEMMA FailStep ==
  ASSUME Inv, NEW a \in Actors, Fail(a)
  PROVE  Inv'
BY EndedPlaces, ClosedStep DEF Fail

-----------------------------------------------------------------------------
\* The invariant holds initially.
LEMMA InvInit == Init => Inv
<1>. SUFFICES ASSUME Init PROVE Inv
  OBVIOUS
<1>1. /\ <<>> \in Seq(Things) /\ 1 \in 1..6 /\ 1 \in Nat \ {0}
      /\ Cardinality({}) <= PoolSize
  BY FS_EmptySet, PoolHoldsOne
<1>2. TypeOK
  BY <1>1 DEF Init, TypeOK
<1>3. \A a \in Actors : Placed(a)
  BY DEF Init, Placed, Busy
<1>. QED
  BY <1>2, <1>3 DEF Init, Inv

\* Every step preserves the invariant.
LEMMA InvStep == Inv /\ [Next]_vars => Inv'
<1>. SUFFICES ASSUME Inv, [Next]_vars PROVE Inv'
  OBVIOUS
<1>1. CASE UNCHANGED vars
  BY <1>1 DEF vars, Inv, TypeOK, Placed, Taken, Busy
<1>2. ASSUME NEW r \in Reqs, Request(r) PROVE Inv'
  BY <1>2, RequestStep
<1>3. CASE Wake
  BY <1>3, WakeStep
<1>4. ASSUME NEW a \in Actors, Step(a) \/ Anonymous(a) \/ Fail(a) PROVE Inv'
  BY <1>4, CallRedisStep, CheckoutStep, LockStep, ReleaseStep, AnonymousStep, FailStep DEF Step
<1>. QED
  BY <1>1, <1>2, <1>3, <1>4 DEF Next

\* The inductive invariant of connections and locks.
THEOREM Invariance == Spec => []Inv
BY InvInit, InvStep, PTL DEF Spec

\* Every variable keeps its type: the pool is never overdrawn, and only who has a connection
\* has locks (app/db/session.py).
THEOREM TypeCorrect == Spec => []TypeOK
<1>1. Inv => TypeOK
  BY DEF Inv
<1>. QED
  BY <1>1, Invariance, PTL

\* However many requests compete for a pool of whatever size, there is no circle of waits
\* through locks, keys and connections: a chain of waits for locks has two links at most.
THEOREM NoCircles == Spec => []NoDeadlock
BY NobodyStuck, Invariance, PTL

=============================================================================
