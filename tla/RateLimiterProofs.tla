------------------------- MODULE RateLimiterProofs -------------------------
(***************************************************************************)
(* Theorems about RateLimiter, for every set of requests, finite or not,   *)
(* every limit and window, and any number of restarts of Redis.            *)
(***************************************************************************)
EXTENDS RateLimiter, FiniteSetTheorems, TLAPS

\* The admissions that AdmissionsBounded counts.
Burst(d, t) == {r \in Admitted : /\ at[r] - stamp[r] <= d
                                 /\ at[r] > t - (Window - d) /\ at[r] <= t}

\* Admissions since a clock.
Later(s) == {q \in Admitted : stamp[q] > s}

\* A clock that was read is never ahead, nor is a script that ran.
ClocksRead == \A r \in Reqs : stamp[r] <= now /\ at[r] <= now

\* The set holds admitted requests, Limit at most, and outlives each by a window.
SetHolds ==
  /\ zset \subseteq Admitted
  /\ Cardinality(zset) <= Limit
  /\ \A q \in zset : at[q] + Window <= deadline

\* An admission that a window still open has to count is in the set, unless a restart
\* lost it; each restart lost Limit at most.
LossesBounded ==
  \A d \in 0..(Window - 1), t \in 0..MaxNow :
    t >= now => Cardinality(Burst(d, t) \ zset) <= Limit * restarts

Inv == /\ TypeOK /\ IsFiniteSet(Admitted) /\ ClocksRead /\ SetHolds
       /\ LossesBounded /\ AdmissionsBounded /\ DenialsJustified

-----------------------------------------------------------------------------
\* Counting a part of a finite set.
LEMMA Fewer ==
  ASSUME NEW S, IsFiniteSet(S), NEW T, T \subseteq S
  PROVE  /\ IsFiniteSet(T) /\ Cardinality(T) \in Nat /\ Cardinality(S) \in Nat
         /\ Cardinality(T) <= Cardinality(S)
BY FS_Subset, FS_CardinalityType

\* A set that is covered by two finite ones.
LEMMA Covered ==
  ASSUME NEW S, NEW T, IsFiniteSet(S), IsFiniteSet(T), NEW U, U \subseteq S \cup T
  PROVE  /\ Cardinality(U) \in Nat /\ Cardinality(S) \in Nat /\ Cardinality(T) \in Nat
         /\ Cardinality(U) <= Cardinality(S) + Cardinality(T)
<1>1. /\ IsFiniteSet(S \cup T)
      /\ Cardinality(S \cup T) = Cardinality(S) + Cardinality(T) - Cardinality(S \cap T)
  BY FS_Union
<1>2. IsFiniteSet(S \cap T) /\ Cardinality(S \cap T) \in Nat
  BY Fewer
<1>3. Cardinality(U) \in Nat /\ Cardinality(U) <= Cardinality(S \cup T)
  BY <1>1, Fewer
<1>. QED
  BY <1>1, <1>2, <1>3, FS_CardinalityType

\* One restart more allows Limit admissions more.
LEMMA Allowances ==
  ASSUME NEW n \in Nat
  PROVE  /\ Limit * n \in Nat /\ Limit * (1 + n) = Limit * n + Limit
         /\ Limit * (n + 1) = Limit * n + Limit
BY LimiterConstants

\* The constants and variables are numbers.
LEMMA Numbers ==
  ASSUME TypeOK
  PROVE  /\ now \in Nat /\ now <= MaxNow /\ MaxNow \in Nat /\ deadline \in Nat
         /\ Window \in Nat /\ Window > 0 /\ Limit \in Nat /\ restarts \in Nat
         /\ \A r \in Reqs : stamp[r] \in Nat /\ at[r] \in Nat /\ at[r] <= MaxNow
BY LimiterConstants DEF TypeOK

\* A burst is a set of admitted requests, all of them recent enough for any script that
\* runs before its window closes.
LEMMA BurstIsRecent ==
  ASSUME TypeOK, NEW d \in 0..(Window - 1), NEW t \in 0..MaxNow, NEW q \in Burst(d, t)
  PROVE  /\ q \in Admitted /\ stamp[q] > t - Window /\ at[q] + Window > t
BY Numbers DEF Burst, Admitted

-----------------------------------------------------------------------------
\* A step that admits nobody and does not touch the set, the restarts and what was
\* recorded of those admitted keeps the bounds.
LEMMA NobodyAdmitted ==
  ASSUME Inv, TypeOK', Admitted' = Admitted, ClocksRead',
         now <= now', restarts' = restarts, zset' = zset, deadline' = deadline,
         \A q \in Admitted : stamp'[q] = stamp[q] /\ at'[q] = at[q]
  PROVE  SetHolds' /\ LossesBounded' /\ AdmissionsBounded' /\ IsFiniteSet(Admitted')
<1>1. \A d \in 0..(Window - 1), t \in 0..MaxNow : Burst(d, t)' = Burst(d, t)
  BY DEF Burst, Admitted
<1>2. LossesBounded'
  <2>. SUFFICES ASSUME NEW d \in 0..(Window - 1), NEW t \in 0..MaxNow, t >= now'
                PROVE  Cardinality(Burst(d, t)' \ zset') <= Limit * restarts'
    BY DEF LossesBounded
  <2>1. t >= now
    BY Numbers DEF Inv, TypeOK
  <2>2. Cardinality(Burst(d, t) \ zset) <= Limit * restarts
    BY <2>1 DEF Inv, LossesBounded
  <2>. QED
    BY <1>1, <2>2
<1>3. AdmissionsBounded'
  BY <1>1 DEF Inv, AdmissionsBounded, Burst
<1>4. SetHolds'
  BY DEF Inv, SetHolds
<1>. QED
  BY <1>2, <1>3, <1>4 DEF Inv

\* A denial stays justified as long as nobody admitted is forgotten.
LEMMA StillJustified ==
  ASSUME Inv, IsFiniteSet(Admitted'), Admitted \subseteq Admitted',
         \A q \in Admitted : stamp'[q] = stamp[q],
         \A r \in Reqs : pc'[r] = "denied" => stamp'[r] = stamp[r]
                           /\ (pc[r] = "denied" \/ Cardinality(Later(stamp[r] - Window)') >= Limit)
  PROVE  DenialsJustified'
<1>. SUFFICES ASSUME NEW r \in Reqs, pc'[r] = "denied"
              PROVE  Cardinality(Later(stamp[r] - Window)') >= Limit
  BY DEF DenialsJustified, Later
<1>1. CASE pc[r] = "denied"
  <2>1. Cardinality(Later(stamp[r] - Window)) >= Limit
    BY <1>1 DEF Inv, DenialsJustified, Later
  <2>2. Later(stamp[r] - Window) \subseteq Later(stamp[r] - Window)'
    BY DEF Later
  <2>3. Later(stamp[r] - Window)' \subseteq Admitted'
    BY DEF Later
  <2>. QED
    BY <2>1, <2>2, <2>3, Fewer, LimiterConstants
<1>. QED
  BY <1>1

-----------------------------------------------------------------------------
\* The script of one request: what it keeps.

\* What a script removes is out of every window that is still open.
LEMMA RecentIsKept ==
  ASSUME Inv, NEW r \in Reqs,
         NEW d \in 0..(Window - 1), NEW t \in 0..MaxNow, t >= now
  PROVE  Burst(d, t) \cap zset \subseteq Kept(r)
<1>. SUFFICES ASSUME NEW q \in Burst(d, t), q \in zset
              PROVE  q \in Kept(r)
  OBVIOUS
<1>1. TypeOK /\ stamp[r] <= now /\ at[q] + Window <= deadline
  BY DEF Inv, ClocksRead, SetHolds
<1>2. q \in Admitted /\ stamp[q] > t - Window /\ at[q] + Window > t
  BY <1>1, BurstIsRecent
<1>3. q \in Reqs
  BY <1>2 DEF Admitted
<1>4. now < deadline /\ stamp[q] > stamp[r] - Window
  BY <1>1, <1>2, <1>3, Numbers
<1>. QED
  BY <1>4 DEF Kept, Present

\* Present entries are entries.
LEMMA KeptEntries ==
  ASSUME Inv, NEW r \in Reqs
  PROVE  /\ Kept(r) \subseteq zset /\ Kept(r) \subseteq Admitted
         /\ Kept(r) \subseteq Later(stamp[r] - Window)
         /\ IsFiniteSet(Kept(r)) /\ Cardinality(Kept(r)) \in Nat
         /\ Cardinality(Kept(r)) <= Limit
<1>1. Kept(r) \subseteq zset
  BY DEF Kept, Present
<1>2. zset \subseteq Admitted /\ IsFiniteSet(Admitted) /\ Cardinality(zset) <= Limit
  BY DEF Inv, SetHolds
<1>3. Kept(r) \subseteq Later(stamp[r] - Window)
  BY <1>1, <1>2 DEF Later, Kept
<1>4. IsFiniteSet(zset) /\ Cardinality(zset) \in Nat
  BY <1>2, Fewer
<1>5. /\ IsFiniteSet(Kept(r)) /\ Cardinality(Kept(r)) \in Nat
      /\ Cardinality(Kept(r)) <= Cardinality(zset)
  BY <1>1, <1>4, Fewer
<1>. QED
  BY <1>1, <1>2, <1>3, <1>4, <1>5, LimiterConstants

\* The losses and the admissions after a script that makes r admitted or leaves everybody
\* as admitted as before.
LEMMA BurstsAfterScript ==
  ASSUME Inv, NEW r \in Reqs, TypeOK', r \notin Admitted,
         now' = now, restarts' = restarts, stamp' = stamp,
         at' = [at EXCEPT ![r] = now],
         \/ Admitted' = Admitted /\ zset' = Kept(r)
         \/ Admitted' = Admitted \cup {r} /\ zset' = Kept(r) \cup {r},
         IsFiniteSet(Admitted'), zset' \subseteq Admitted', Cardinality(zset') <= Limit
  PROVE  LossesBounded' /\ AdmissionsBounded'
<1>1. Admitted \subseteq Reqs /\ \A q \in Admitted : at'[q] = at[q]
  BY DEF Admitted, Inv, TypeOK
<1>2. at'[r] = now
  BY DEF Inv, TypeOK
<1>3. TypeOK /\ now \in Nat /\ Window \in Nat /\ \A d \in 0..(Window - 1) : d \in Nat /\ d < Window
  BY Numbers DEF Inv
<1>4. ASSUME NEW d \in 0..(Window - 1), NEW t \in 0..MaxNow
      PROVE  IsFiniteSet(Burst(d, t)') /\ IsFiniteSet(Burst(d, t))
  <2>1. Burst(d, t) \subseteq Admitted /\ Burst(d, t)' \subseteq Admitted'
    BY DEF Burst
  <2>. QED
    BY <2>1, Fewer DEF Inv
<1>5. ASSUME NEW d \in 0..(Window - 1), NEW t \in 0..MaxNow, t >= now
      PROVE  /\ Cardinality(Burst(d, t)' \ zset') <= Limit * restarts
             /\ Cardinality(Burst(d, t)') <= Limit * (1 + restarts)
  <2>1. Burst(d, t) \cap zset \subseteq Kept(r)
    BY <1>5, RecentIsKept
  <2>2. Burst(d, t)' \subseteq Burst(d, t) \cup {r} /\ (r \in Burst(d, t)' => r \in zset')
    BY <1>1 DEF Burst
  <2>3. Burst(d, t)' \ zset' \subseteq Burst(d, t) \ zset
    BY <2>1, <2>2
  <2>4. Cardinality(Burst(d, t) \ zset) <= Limit * restarts
    BY <1>5 DEF Inv, LossesBounded
  <2>5. IsFiniteSet(Burst(d, t) \ zset) /\ Burst(d, t) \ zset \subseteq Burst(d, t)
    BY <1>4, Fewer
  <2>6. /\ Cardinality(Burst(d, t)' \ zset') \in Nat
        /\ Cardinality(Burst(d, t) \ zset) \in Nat
        /\ Cardinality(Burst(d, t)' \ zset') <= Cardinality(Burst(d, t) \ zset)
    BY <2>3, <2>5, Fewer
  <2>7. IsFiniteSet(zset')
    BY Fewer
  <2>8. Burst(d, t)' \subseteq (Burst(d, t) \ zset) \cup zset'
    BY <2>3
  <2>9. /\ Cardinality(Burst(d, t)') \in Nat /\ Cardinality(zset') \in Nat
        /\ Cardinality(Burst(d, t)') <= Cardinality(Burst(d, t) \ zset) + Cardinality(zset')
    BY <2>5, <2>7, <2>8, Covered
  <2>10. /\ Limit * restarts \in Nat /\ Limit \in Nat
         /\ Limit * (1 + restarts) = Limit * restarts + Limit
    BY <1>3, Numbers, Allowances
  <2>. QED
    BY <2>4, <2>6, <2>9, <2>10
<1>6. ASSUME NEW d \in 0..(Window - 1), NEW t \in 0..MaxNow, ~(t >= now)
      PROVE  Burst(d, t)' = Burst(d, t)
  <2>1. r \notin Burst(d, t)'
    BY <1>2, <1>3, <1>6 DEF Burst
  <2>. QED
    BY <1>1, <2>1 DEF Burst
<1>7. LossesBounded'
  BY <1>5 DEF LossesBounded
<1>8. AdmissionsBounded'
  <2>. SUFFICES ASSUME NEW d \in 0..(Window - 1), NEW t \in 0..MaxNow
                PROVE  Cardinality(Burst(d, t)') <= Limit * (1 + restarts)
    BY DEF AdmissionsBounded, Burst
  <2>1. Cardinality(Burst(d, t)) <= Limit * (1 + restarts)
    BY DEF Inv, AdmissionsBounded, Burst
  <2>. QED
    BY <1>5, <1>6, <2>1
<1>. QED
  BY <1>7, <1>8

\* A denial leaves the set without what is too old: Limit admissions justify it.
LEMMA Denied ==
  ASSUME Inv, NEW r \in Reqs, EvalSha(r), Cardinality(Kept(r)) >= Limit
  PROVE  Inv'
<1>1. /\ pc[r] = "evalsha" /\ pc' = [pc EXCEPT ![r] = "denied"]
      /\ zset' = Kept(r) /\ deadline' = deadline /\ at' = [at EXCEPT ![r] = now]
      /\ now' = now /\ stamp' = stamp /\ restarts' = restarts /\ loaded' = loaded
  BY DEF EvalSha, Goto
<1>2. TypeOK /\ zset \subseteq Reqs
  BY DEF Inv, TypeOK
<1>3. TypeOK'
  BY <1>1, <1>2, KeptEntries DEF TypeOK, Verdicts
<1>4. Admitted' = Admitted /\ r \notin Admitted /\ IsFiniteSet(Admitted)
  BY <1>1, <1>2 DEF Admitted, TypeOK, Inv
<1>5. ClocksRead'
  BY <1>1, <1>2, Numbers DEF Inv, ClocksRead, TypeOK
<1>6. SetHolds'
  BY <1>1, <1>2, <1>4, KeptEntries DEF Inv, SetHolds, TypeOK, Admitted
<1>7. LossesBounded' /\ AdmissionsBounded'
  BY <1>1, <1>3, <1>4, <1>6, BurstsAfterScript DEF SetHolds
<1>8. DenialsJustified'
  <2>1. Later(stamp[r] - Window)' = Later(stamp[r] - Window)
    BY <1>1, <1>4 DEF Later
  <2>2. Later(stamp[r] - Window) \subseteq Admitted
    BY DEF Later
  <2>3. IsFiniteSet(Later(stamp[r] - Window)) /\ Cardinality(Later(stamp[r] - Window)) \in Nat
    BY <1>4, <2>2, Fewer
  <2>4. Cardinality(Kept(r)) \in Nat /\ Cardinality(Kept(r)) <= Cardinality(Later(stamp[r] - Window))
    BY <2>3, KeptEntries, Fewer
  <2>5. Cardinality(Later(stamp[r] - Window)') >= Limit
    BY <2>1, <2>3, <2>4, LimiterConstants
  <2>6. \A q \in Reqs : pc'[q] = "denied" => pc[q] = "denied" \/ q = r
    BY <1>1, <1>2 DEF TypeOK
  <2>. QED
    BY <1>1, <1>4, <2>5, <2>6, StillJustified
<1>. QED
  BY <1>3, <1>4, <1>5, <1>6, <1>7, <1>8 DEF Inv

\* An admission makes an entry and renews the expiry of all.
LEMMA Admission ==
  ASSUME Inv, NEW r \in Reqs, EvalSha(r), ~(Cardinality(Kept(r)) >= Limit)
  PROVE  Inv'
<1>1. /\ pc[r] = "evalsha" /\ pc' = [pc EXCEPT ![r] = "admitted"]
      /\ zset' = Kept(r) \cup {r} /\ deadline' = now + Window /\ at' = [at EXCEPT ![r] = now]
      /\ now' = now /\ stamp' = stamp /\ restarts' = restarts /\ loaded' = loaded
  BY DEF EvalSha, Goto
<1>2. TypeOK /\ zset \subseteq Reqs
  BY DEF Inv, TypeOK
<1>3. TypeOK'
  BY <1>1, <1>2, KeptEntries, Numbers DEF TypeOK, Verdicts
<1>4. Admitted' = Admitted \cup {r} /\ r \notin Admitted /\ IsFiniteSet(Admitted)
  BY <1>1, <1>2 DEF Admitted, TypeOK, Inv
<1>5. IsFiniteSet(Admitted')
  BY <1>4, FS_AddElement
<1>6. ClocksRead'
  BY <1>1, <1>2, Numbers DEF Inv, ClocksRead, TypeOK
<1>7. SetHolds'
  <2>1. Cardinality(zset') <= Cardinality(Kept(r)) + 1
    <3>1. IsFiniteSet(Kept(r)) /\ Cardinality(Kept(r)) \in Nat
      BY KeptEntries
    <3>2. Cardinality(Kept(r) \cup {r}) =
            IF r \in Kept(r) THEN Cardinality(Kept(r)) ELSE Cardinality(Kept(r)) + 1
      BY <3>1, FS_AddElement
    <3>. QED
      BY <1>1, <3>1, <3>2
  <2>2. Cardinality(zset') \in Nat
    BY <1>1, KeptEntries, FS_AddElement, FS_CardinalityType
  <2>3. Cardinality(zset') <= Limit
    BY <2>1, <2>2, KeptEntries, LimiterConstants
  <2>4. ASSUME NEW q \in zset' PROVE at'[q] + Window <= deadline'
    <3>1. q \in Reqs /\ at'[q] \in Nat /\ at'[q] <= now'
      BY <1>1, <1>2, <1>3, <1>6, <2>4, KeptEntries DEF ClocksRead, TypeOK
    <3>. QED
      BY <1>1, <1>2, <3>1, Numbers
  <2>. QED
    BY <1>1, <1>4, <2>3, <2>4, KeptEntries DEF SetHolds
<1>8. LossesBounded' /\ AdmissionsBounded'
  BY <1>1, <1>3, <1>4, <1>5, <1>7, BurstsAfterScript DEF SetHolds
<1>9. DenialsJustified'
  <2>1. \A q \in Reqs : pc'[q] = "denied" => pc[q] = "denied"
    BY <1>1, <1>2 DEF TypeOK
  <2>. QED
    BY <1>1, <1>4, <1>5, <2>1, StillJustified
<1>. QED
  BY <1>3, <1>5, <1>6, <1>7, <1>8, <1>9 DEF Inv

-----------------------------------------------------------------------------
\* The other steps of a request.
LEMMA CallStep ==
  ASSUME Inv, NEW r \in Reqs, Call(r)
  PROVE  Inv'
<1>1. /\ pc[r] = "unsent" /\ pc' = [pc EXCEPT ![r] = "script_load"]
      /\ stamp' = [stamp EXCEPT ![r] = now]
      /\ UNCHANGED <<now, at, zset, deadline, loaded, restarts>>
  BY DEF Call, Goto
<1>2. TypeOK
  BY DEF Inv
<1>3. TypeOK'
  BY <1>1, <1>2 DEF TypeOK
<1>4. Admitted' = Admitted /\ r \notin Admitted /\ IsFiniteSet(Admitted)
  BY <1>1, <1>2 DEF Admitted, TypeOK, Inv
<1>5. \A q \in Reqs : q # r => stamp'[q] = stamp[q]
  BY <1>1, <1>2 DEF TypeOK
<1>6. ClocksRead'
  BY <1>1, <1>2, Numbers DEF Inv, ClocksRead, TypeOK
<1>7. now <= now'
  BY <1>1, <1>2, Numbers
<1>8. SetHolds' /\ LossesBounded' /\ AdmissionsBounded'
  BY <1>1, <1>3, <1>4, <1>5, <1>6, <1>7, NobodyAdmitted DEF Admitted
<1>9. DenialsJustified'
  <2>1. \A q \in Reqs : pc'[q] = "denied" => pc[q] = "denied" /\ q # r
    BY <1>1, <1>2 DEF TypeOK
  <2>. QED
    BY <1>4, <1>5, <2>1, StillJustified DEF Admitted
<1>. QED
  BY <1>3, <1>4, <1>6, <1>8, <1>9 DEF Inv

\* The loading of the script and a failure only move the request.
LEMMA MoveStep ==
  ASSUME Inv, NEW r \in Reqs, ScriptLoad(r) \/ Fail(r)
  PROVE  Inv'
<1>1. /\ pc[r] \in {"script_load", "evalsha"}
      /\ pc' = [pc EXCEPT ![r] = "evalsha"] \/ pc' = [pc EXCEPT ![r] = "failed"]
      /\ loaded' \in {TRUE, loaded}
      /\ UNCHANGED <<now, stamp, at, zset, deadline, restarts>>
  BY DEF ScriptLoad, Fail, Goto
<1>2. TypeOK
  BY DEF Inv
<1>3. TypeOK'
  BY <1>1, <1>2 DEF TypeOK, Verdicts
<1>4. Admitted' = Admitted /\ IsFiniteSet(Admitted)
  BY <1>1, <1>2 DEF Admitted, TypeOK, Inv
<1>5. ClocksRead' /\ now <= now'
  BY <1>1, <1>2, Numbers DEF Inv, ClocksRead
<1>6. SetHolds' /\ LossesBounded' /\ AdmissionsBounded'
  BY <1>1, <1>3, <1>4, <1>5, NobodyAdmitted
<1>7. DenialsJustified'
  <2>1. \A q \in Reqs : pc'[q] = "denied" => pc[q] = "denied"
    BY <1>1, <1>2 DEF TypeOK
  <2>. QED
    BY <1>1, <1>4, <2>1, StillJustified
<1>. QED
  BY <1>3, <1>4, <1>5, <1>6, <1>7 DEF Inv

\* The clock.
LEMMA TickStep ==
  ASSUME Inv, Tick
  PROVE  Inv'
<1>1. now < MaxNow /\ now' = now + 1 /\ UNCHANGED <<pc, stamp, at, zset, deadline, loaded, restarts>>
  BY DEF Tick
<1>2. TypeOK
  BY DEF Inv
<1>3. TypeOK'
  BY <1>1, <1>2, Numbers DEF TypeOK
<1>4. Admitted' = Admitted /\ IsFiniteSet(Admitted)
  BY <1>1 DEF Admitted, Inv
<1>5. ClocksRead' /\ now <= now'
  BY <1>1, <1>2, Numbers DEF Inv, ClocksRead
<1>6. SetHolds' /\ LossesBounded' /\ AdmissionsBounded'
  BY <1>1, <1>3, <1>4, <1>5, NobodyAdmitted
<1>7. DenialsJustified'
  BY <1>1, <1>4, StillJustified
<1>. QED
  BY <1>3, <1>4, <1>5, <1>6, <1>7 DEF Inv

\* A restart loses entries, Limit at most.
LEMMA RestartStep ==
  ASSUME Inv, RedisRestart
  PROVE  Inv'
<1>1. /\ restarts < MaxRestarts /\ restarts' = restarts + 1 /\ zset' \subseteq zset /\ loaded' = FALSE
      /\ UNCHANGED <<now, pc, stamp, at, deadline>>
  BY DEF RedisRestart
<1>2. TypeOK
  BY DEF Inv
<1>3. TypeOK'
  <2>1. restarts' \in 0..MaxRestarts
    BY <1>1, <1>2, LimiterConstants DEF TypeOK
  <2>. QED
    BY <1>1, <1>2, <2>1 DEF TypeOK
<1>4. Admitted' = Admitted /\ IsFiniteSet(Admitted) /\ zset \subseteq Admitted
  BY <1>1 DEF Admitted, Inv, SetHolds
<1>5. /\ IsFiniteSet(zset) /\ Cardinality(zset) \in Nat /\ Cardinality(zset) <= Limit
      /\ Cardinality(zset') \in Nat /\ Cardinality(zset') <= Cardinality(zset)
  BY <1>1, <1>4, Fewer DEF Inv, SetHolds
<1>6. SetHolds' /\ ClocksRead'
  BY <1>1, <1>4, <1>5, LimiterConstants DEF Inv, SetHolds, ClocksRead
<1>7. /\ Limit \in Nat /\ Limit * restarts \in Nat /\ Limit * restarts' = Limit * restarts + Limit
      /\ Limit * (1 + restarts) = Limit * restarts'
      /\ Limit * (1 + restarts') = Limit * restarts' + Limit
  <2>1. restarts \in Nat /\ restarts' \in Nat /\ 1 + restarts = restarts'
    BY <1>1, <1>2, Numbers
  <2>. QED
    BY <1>1, <2>1, Allowances, LimiterConstants
<1>8. LossesBounded'
  <2>. SUFFICES ASSUME NEW d \in 0..(Window - 1), NEW t \in 0..MaxNow, t >= now
                PROVE  Cardinality(Burst(d, t) \ zset') <= Limit * restarts'
    BY <1>1 DEF LossesBounded, Burst, Admitted
  <2>1. Cardinality(Burst(d, t) \ zset) <= Limit * restarts
    BY DEF Inv, LossesBounded
  <2>2. Burst(d, t) \ zset \subseteq Admitted /\ Burst(d, t) \ zset' \subseteq (Burst(d, t) \ zset) \cup zset
    BY DEF Burst
  <2>3. IsFiniteSet(Burst(d, t) \ zset)
    BY <1>4, <2>2, Fewer
  <2>4. /\ Cardinality(Burst(d, t) \ zset') \in Nat /\ Cardinality(Burst(d, t) \ zset) \in Nat
        /\ Cardinality(Burst(d, t) \ zset') <= Cardinality(Burst(d, t) \ zset) + Cardinality(zset)
    BY <1>5, <2>2, <2>3, Covered
  <2>. QED
    BY <1>5, <1>7, <2>1, <2>4
<1>9. AdmissionsBounded'
  <2>. SUFFICES ASSUME NEW d \in 0..(Window - 1), NEW t \in 0..MaxNow
                PROVE  Cardinality(Burst(d, t)) <= Limit * (1 + restarts')
    BY <1>1 DEF AdmissionsBounded, Burst, Admitted
  <2>1. Cardinality(Burst(d, t)) <= Limit * (1 + restarts)
    BY DEF Inv, AdmissionsBounded, Burst
  <2>2. Burst(d, t) \subseteq Admitted
    BY DEF Burst
  <2>3. Cardinality(Burst(d, t)) \in Nat
    BY <1>4, <2>2, Fewer
  <2>. QED
    BY <1>7, <2>1, <2>3
<1>10. DenialsJustified'
  BY <1>1, <1>4, StillJustified
<1>. QED
  BY <1>3, <1>4, <1>6, <1>8, <1>9, <1>10 DEF Inv

-----------------------------------------------------------------------------
\* The invariant holds initially.
LEMMA InvInit == Init => Inv
<1>. SUFFICES ASSUME Init PROVE Inv
  OBVIOUS
<1>1. TypeOK
  <2>1. 0 \in 0..MaxNow /\ 0 \in 0..(MaxNow + Window) /\ 0 \in 0..MaxRestarts
    BY LimiterConstants
  <2>. QED
    BY <2>1 DEF Init, TypeOK
<1>2. Admitted = {} /\ IsFiniteSet({}) /\ Cardinality({}) = 0
  BY FS_EmptySet DEF Init, Admitted
<1>3. ClocksRead /\ SetHolds /\ DenialsJustified
  BY <1>2, LimiterConstants DEF Init, ClocksRead, SetHolds, DenialsJustified
<1>4. restarts = 0 /\ Limit * 0 = 0 /\ Limit * (1 + 0) = Limit /\ Limit >= 0
  BY LimiterConstants DEF Init
<1>5. \A d, t : Burst(d, t) = {} /\ Burst(d, t) \ zset = {}
  BY <1>2 DEF Burst
<1>6. LossesBounded /\ AdmissionsBounded
  BY <1>2, <1>4, <1>5 DEF LossesBounded, AdmissionsBounded, Burst
<1>. QED
  BY <1>1, <1>2, <1>3, <1>6 DEF Inv

\* Every step preserves the invariant.
LEMMA InvStep == Inv /\ [Next]_vars => Inv'
<1>. SUFFICES ASSUME Inv, [Next]_vars PROVE Inv'
  OBVIOUS
<1>1. CASE UNCHANGED vars
  BY <1>1 DEF vars, Inv, TypeOK, ClocksRead, SetHolds, LossesBounded, Burst,
              AdmissionsBounded, DenialsJustified, Admitted
<1>2. CASE Tick
  BY <1>2, TickStep
<1>3. CASE RedisRestart
  BY <1>3, RestartStep
<1>4. ASSUME NEW r \in Reqs, Call(r) \/ ScriptLoad(r) \/ EvalSha(r) \/ Fail(r)
      PROVE  Inv'
  BY <1>4, CallStep, MoveStep, Denied, Admission
<1>. QED
  BY <1>1, <1>2, <1>3, <1>4 DEF Next

\* The inductive invariant of one limited identifier.
THEOREM Invariance == Spec => []Inv
BY InvInit, InvStep, PTL DEF Spec

\* Every variable keeps its type (the sorted set and its expiry among them).
THEOREM TypeCorrect == Spec => []TypeOK
<1>1. Inv => TypeOK
  BY DEF Inv
<1>. QED
  BY <1>1, Invariance, PTL

\* The sliding window has no burst at a boundary, however the requests overtake one another
\* between reading the clock and the script (is_allowed): of requests that are d late at
\* most, any Window - d admits Limit at most, and Limit more for every restart of Redis.
THEOREM BurstsAreBounded == Spec => []AdmissionsBounded
<1>1. Inv => AdmissionsBounded
  BY DEF Inv
<1>. QED
  BY <1>1, Invariance, PTL

\* A denied request is denied because of Limit admissions later than the start of its
\* window, and counts for nobody (the Lua script: ZADD follows the count).
THEOREM DenialsAreJustified == Spec => []DenialsJustified
<1>1. Inv => DenialsJustified
  BY DEF Inv
<1>. QED
  BY <1>1, Invariance, PTL

=============================================================================
