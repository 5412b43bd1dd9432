--------------------------- MODULE HotCacheProofs ---------------------------
(***************************************************************************)
(* Theorems about HotCache, for any number of redirects, every threshold,  *)
(* every time to live and every window that is not longer.                 *)
(***************************************************************************)
EXTENDS HotCache, TLAPS

\* A counter that was renewed by a tracked click of a popular link is outlived by the copy.
Outlives(e, h) ==
  h # None /\ h.kept => h.until # None /\ e # None /\ e.until >= h.until

\* A counter lives for one window at most.
WithinWindow(h) == h # None /\ h.until # None => h.until <= now + Window

\* Both hold in Redis and in its snapshot, which may come back at any time.
CopiesOutlive ==
  /\ Outlives(entry, hot) /\ Outlives(saved.entry, saved.hot)
  /\ WithinWindow(hot) /\ WithinWindow(saved.hot)

\* Unless frayed says so, the counter counts clicks since the last purge, and so does what
\* a redirect remembers of it.
CountsSincePurge ==
  /\ hot # None => hot.count <= clicks \/ frayed
  /\ \A r \in Reqs :
       /\ pc[r] \in {"renew", "prolong"} => seen[r] <= clicks \/ frayed
       /\ pc[r] = "prolong" => seen[r] >= Threshold

\* The last click has been followed by a renewal or is about to be.
RenewalFollows ==
  /\ clicked # None => clicked <= now
  /\ ~InTrack /\ ~frayed =>
       /\ hot # None => hot.until # None
       /\ clicked # None /\ now < clicked + Window =>
            hot # None /\ hot.until # None /\ hot.until >= clicked + Window

Inv == TypeOK /\ CopiesOutlive /\ CountsSincePurge /\ ProlongationEarned /\ RenewalFollows

-----------------------------------------------------------------------------
\* What the operators on keys return.

\* A key is present as it was, or it is gone.
LEMMA PresentKey ==
  ASSUME NEW key, NEW t
  PROVE  /\ Present(key, t) \in {key, None}
         /\ key # None /\ Present(key, t) = None => key.until # None /\ ~(t < key.until)
BY DEF Present, Alive

\* What the assumptions say of the constants.
LEMMA Times ==
  /\ MaxNow \in Nat /\ MaxCount \in Nat /\ Threshold \in Nat /\ Threshold > 0
  /\ Ttl \in Nat /\ Window \in Nat /\ Window <= Ttl
  /\ None \notin Nat
BY TimesToLive, Bounds, NoneIsNoNumber

\* The deadlines that a step computes.
LEMMA Deadlines ==
  ASSUME now \in 0..MaxNow
  PROVE  /\ now \in Nat /\ now + Ttl \in 0..Latest /\ now + 2 * Ttl \in 0..Latest
         /\ now + Window \in 0..Latest /\ now + Window # None
BY Times DEF Latest

-----------------------------------------------------------------------------
\* Every action keeps the variables in their types.
LEMMA TypeStep == TypeOK /\ [Next]_vars => TypeOK'
<1>. SUFFICES ASSUME TypeOK, [Next]_vars PROVE TypeOK'
  OBVIOUS
<1>. USE DEF TypeOK
<1>1. ASSUME NEW r \in Reqs, Get(r) PROVE TypeOK'
  BY <1>1 DEF Get, Pcs, keys, history, rest
<1>2. ASSUME NEW r \in Reqs, Warm(r) PROVE TypeOK'
  <2>1. [written |-> now, until |-> now + Ttl] \in Copy
    BY Deadlines DEF Copy
  <2>. QED
    BY <1>2, <2>1 DEF Warm, Pcs, history, rest
<1>3. CASE Fill
  <2>1. [written |-> now, until |-> now + Ttl] \in Copy
    BY Deadlines DEF Copy
  <2>. QED
    BY <1>3, <2>1 DEF Fill, history, rest
<1>4. ASSUME NEW r \in Reqs, Incr(r) PROVE TypeOK'
  <2>1. hot' \in Counter
    <3>1. CASE hot = None
      BY <1>4, <3>1, Times DEF Incr, Counter
    <3>2. CASE hot # None
      <4>1. hot \in Counter /\ hot.count + 1 \in 1..MaxCount /\ hot' = [hot EXCEPT !.count = hot.count + 1]
        BY <1>4, <3>2, Times DEF Incr, Counter
      <4>. QED
        BY <4>1 DEF Counter
    <3>. QED
      BY <3>1, <3>2
  <2>2. hot'.count \in 0..MaxCount
    BY <2>1, Times DEF Counter
  <2>3. clicks' \in 0..MaxCount /\ clicked' \in 0..MaxNow
    BY <1>4, Times DEF Incr
  <2>4. seen' \in [Reqs -> 0..MaxCount] /\ pc' \in [Reqs -> Pcs]
    BY <1>4, <2>2 DEF Incr, Pcs
  <2>. QED
    BY <1>4, <2>1, <2>3, <2>4 DEF Incr, rest
<1>5. ASSUME NEW r \in Reqs, Renew(r) PROVE TypeOK'
  <2>1. hot' \in Counter \cup {None}
    <3>1. CASE hot # None
      <4>1. /\ hot \in Counter /\ now + Window \in 0..Latest
            /\ hot' = [hot EXCEPT !.until = now + Window, !.kept = ~Popular(r) /\ Kept(r)]
        BY <1>5, <3>1, Deadlines DEF Renew
      <4>2. (~Popular(r) /\ Kept(r)) \in BOOLEAN
        BY Zenon
      <4>. QED
        BY <4>1, <4>2 DEF Counter
    <3>. QED
      BY <1>5, <3>1 DEF Renew
  <2>2. seen' \in [Reqs -> 0..MaxCount] /\ pc' \in [Reqs -> Pcs]
    BY <1>5, Times DEF Renew, EndTrack, Pcs
  <2>3. frayed' \in BOOLEAN
    BY <1>5 DEF Renew
  <2>. QED
    BY <1>5, <2>1, <2>2, <2>3 DEF Renew, rest
<1>6. ASSUME NEW r \in Reqs, Prolong(r) PROVE TypeOK'
  <2>1. hot' \in Counter \cup {None}
    <3>1. CASE hot # None
      <4>1. /\ hot \in Counter
            /\ hot' = [hot EXCEPT !.kept = Kept(r) /\ hot.until # None]
        BY <1>6, <3>1 DEF Prolong
      <4>2. (Kept(r) /\ hot.until # None) \in BOOLEAN
        BY Zenon
      <4>. QED
        BY <4>1, <4>2 DEF Counter
    <3>. QED
      BY <1>6, <3>1 DEF Prolong
  <2>2. entry' \in Copy \cup {None}
    <3>1. CASE entry # None
      <4>1. entry \in Copy /\ now + 2 * Ttl \in 0..Latest /\ entry' = [entry EXCEPT !.until = now + 2 * Ttl]
        BY <1>6, <3>1, Deadlines DEF Prolong
      <4>. QED
        BY <4>1 DEF Copy
    <3>. QED
      BY <1>6, <3>1 DEF Prolong
  <2>3. seen' \in [Reqs -> 0..MaxCount] /\ pc' \in [Reqs -> Pcs]
    BY <1>6, Times DEF Prolong, EndTrack, Pcs
  <2>. QED
    BY <1>6, <2>1, <2>2, <2>3 DEF Prolong, history, rest
<1>7. ASSUME NEW r \in Reqs, Fail(r) PROVE TypeOK'
  BY <1>7, Times DEF Fail, Pcs, keys, rest
<1>8. CASE Purge
  BY <1>8, Times DEF Purge, rest
<1>9. CASE Tick
  <2>1. entry' \in {entry, None} /\ hot' \in {hot, None}
    BY <1>9, PresentKey DEF Tick
  <2>2. now' \in 0..MaxNow
    BY <1>9, Times DEF Tick
  <2>. QED
    BY <1>9, <2>1, <2>2 DEF Tick, history, rest
<1>10. CASE SaveRdb
  BY <1>10 DEF SaveRdb, keys, history
<1>11. CASE RedisRestart
  <2>1. entry' \in {saved.entry, None} /\ hot' \in {saved.hot, None}
    BY <1>11, PresentKey DEF RedisRestart
  <2>2. restores' \in 0..MaxRestores
    BY <1>11, Bounds DEF RedisRestart
  <2>. QED
    BY <1>11, <2>1, <2>2 DEF RedisRestart
<1>12. CASE UNCHANGED vars
  BY <1>12 DEF vars
<1>. QED
  BY <1>1, <1>2, <1>3, <1>4, <1>5, <1>6, <1>7, <1>8, <1>9, <1>10, <1>11, <1>12 DEF Next, Redirect

\* The copy outlives its popular counter in Redis and in the snapshot, through every
\* step on one of the two keys.
LEMMA OutliveStep == TypeOK /\ CopiesOutlive /\ [Next]_vars => CopiesOutlive'
<1>. SUFFICES ASSUME TypeOK, CopiesOutlive, [Next]_vars PROVE CopiesOutlive'
  OBVIOUS
<1>. USE DEF CopiesOutlive, Outlives, WithinWindow
<1>0. now \in Nat /\ now + Window # None /\ Window \in Nat /\ Ttl \in Nat /\ Window <= Ttl
  BY Deadlines, Times DEF TypeOK
<1>1. \A h \in Counter : h.until # None => h.until \in Nat
  BY Times DEF Counter, Latest
<1>2. hot # None => hot \in Counter
  BY DEF TypeOK
<1>3. saved.hot # None => saved.hot \in Counter
  BY DEF TypeOK
<1>4. ASSUME NEW r \in Reqs, Get(r) \/ Fail(r) PROVE CopiesOutlive'
  BY <1>4 DEF Get, Fail, keys, rest
<1>5. ASSUME entry' = [written |-> now, until |-> now + Ttl], UNCHANGED <<now, hot, saved>>
      PROVE  CopiesOutlive'
  <2>1. entry' \in Copy /\ entry'.until = now + Ttl
    BY <1>5, Deadlines DEF Copy, TypeOK
  <2>. QED
    BY <1>0, <1>1, <1>2, <1>5, <2>1, NoneIsNoKey
<1>6. CASE Fill \/ \E r \in Reqs : Warm(r)
  BY <1>5, <1>6 DEF Warm, Fill, rest
<1>7. ASSUME NEW r \in Reqs, Incr(r) PROVE CopiesOutlive'
  <2>1. UNCHANGED <<now, entry, saved>>
    BY <1>7 DEF Incr, rest
  <2>2. CASE hot = None
    BY <1>7, <2>1, <2>2 DEF Incr
  <2>3. CASE hot # None
    <3>1. hot'.until = hot.until /\ hot'.kept = hot.kept
      BY <1>2, <1>7, <2>3 DEF Incr, Counter
    <3>. QED
      BY <2>1, <2>3, <3>1
  <2>. QED
    BY <2>2, <2>3
<1>8. ASSUME NEW r \in Reqs, Renew(r) PROVE CopiesOutlive'
  <2>1. UNCHANGED <<now, entry, saved>>
    BY <1>8 DEF Renew, rest
  <2>2. CASE hot # None
    <3>1. hot'.until = now + Window /\ ~hot'.kept
      BY <1>2, <1>8, <2>2 DEF Renew, Popular, Kept, Counter
    <3>. QED
      BY <1>0, <2>1, <3>1
  <2>3. CASE hot = None
    BY <1>8, <2>1, <2>3 DEF Renew
  <2>. QED
    BY <2>2, <2>3
<1>9. ASSUME NEW r \in Reqs, Prolong(r) PROVE CopiesOutlive'
  <2>1. UNCHANGED <<now, saved>>
    BY <1>9 DEF Prolong, rest
  <2>2. CASE hot = None
    BY <1>9, <2>1, <2>2 DEF Prolong
  <2>3. CASE hot # None
    <3>1. hot'.until = hot.until /\ (hot'.kept => entry # None /\ hot.until # None)
      BY <1>2, <1>9, <2>3 DEF Prolong, Kept, Counter
    <3>2. ASSUME entry # None PROVE entry' # None /\ entry'.until = now + 2 * Ttl
      <4>1. entry \in Copy
        BY <3>2 DEF TypeOK
      <4>2. entry' = [entry EXCEPT !.until = now + 2 * Ttl]
        BY <1>9, <3>2 DEF Prolong
      <4>3. entry'.until = now + 2 * Ttl
        BY <4>1, <4>2 DEF Copy
      <4>4. entry' \in Copy
        BY <4>1, <4>2, Deadlines DEF Copy, TypeOK
      <4>. QED
        BY <4>3, <4>4, NoneIsNoKey
    <3>3. hot.until # None => hot.until <= now + 2 * Ttl
      BY <1>0, <1>1, <1>2, <2>3
    <3>. QED
      BY <2>1, <2>3, <3>1, <3>2, <3>3
  <2>. QED
    BY <2>2, <2>3
<1>10. CASE Purge
  BY <1>10 DEF Purge, rest
<1>11. CASE Tick
  <2>1. /\ entry' \in {entry, None} /\ hot' \in {hot, None} /\ saved' = saved /\ now' = now + 1
        /\ entry # None /\ entry' = None => ~(now' < entry.until)
        /\ hot # None /\ hot.until # None /\ hot' # None => now' < hot.until
    BY <1>11, PresentKey DEF Tick, rest, Present, Alive
  <2>2. entry # None => entry.until \in Nat
    BY Times DEF TypeOK, Copy, Latest
  <2>3. Outlives(entry, hot)'
    BY <1>0, <1>1, <1>2, <2>1, <2>2
  <2>4. WithinWindow(hot)' /\ WithinWindow(saved.hot)'
    BY <1>0, <1>1, <1>2, <1>3, <2>1
  <2>. QED
    BY <2>1, <2>3, <2>4
<1>12. CASE SaveRdb
  BY <1>12 DEF SaveRdb, keys
<1>13. CASE RedisRestart
  <2>1. /\ entry' \in {saved.entry, None} /\ hot' \in {saved.hot, None} /\ saved' = saved /\ now' = now
        /\ saved.entry # None /\ entry' = None => ~(now < saved.entry.until)
        /\ saved.hot # None /\ saved.hot.until # None /\ hot' # None => now < saved.hot.until
    BY <1>13, PresentKey DEF RedisRestart, Present, Alive
  <2>2. saved.entry # None => saved.entry.until \in Nat
    BY Times DEF TypeOK, Copy, Latest
  <2>3. Outlives(entry, hot)'
    BY <1>0, <1>1, <1>3, <2>1, <2>2
  <2>. QED
    BY <2>1, <2>3
<1>14. CASE UNCHANGED vars
  BY <1>14 DEF vars
<1>. QED
  BY <1>4, <1>6, <1>7, <1>8, <1>9, <1>10, <1>11, <1>12, <1>13, <1>14 DEF Next, Redirect

-----------------------------------------------------------------------------
\* A click cannot remember more clicks than came since the purge, unless frayed, and goes
\* on to prolong the copy only if it is one of the Threshold-th or later.
LEMMA CountsStep == TypeOK /\ CountsSincePurge /\ [Next]_vars => CountsSincePurge'
<1>. SUFFICES ASSUME TypeOK, CountsSincePurge, [Next]_vars PROVE CountsSincePurge'
  OBVIOUS
<1>. USE DEF CountsSincePurge
<1>0. /\ clicks \in Nat /\ frayed \in BOOLEAN /\ \A r \in Reqs : seen[r] \in Nat
      /\ hot # None => hot \in Counter /\ hot.count \in Nat
  BY Times DEF TypeOK, Counter
<1>1. ASSUME NEW r \in Reqs, Get(r) \/ Warm(r) PROVE CountsSincePurge'
  BY <1>1 DEF Get, Warm, TypeOK, keys, history
<1>2. ASSUME NEW r \in Reqs, Incr(r) PROVE CountsSincePurge'
  <2>1. hot' # None /\ (hot'.count <= clicks + 1 \/ frayed)
    <3>1. CASE hot = None
      <4>1. hot' = [count |-> 1, until |-> None, kept |-> FALSE] /\ MaxCount >= 1
        BY <1>0, <1>2, <3>1, Times DEF Incr, TypeOK
      <4>2. hot' \in Counter /\ hot'.count = 1
        BY <4>1, Times DEF Counter
      <4>. QED
        BY <1>0, <4>2, NoneIsNoKey
    <3>2. CASE hot # None
      <4>1. hot' = [hot EXCEPT !.count = hot.count + 1] /\ hot.count + 1 \in 1..MaxCount
        BY <1>0, <1>2, <3>2, Times DEF Incr
      <4>2. hot' \in Counter /\ hot'.count = hot.count + 1
        BY <1>0, <3>2, <4>1 DEF Counter
      <4>. QED
        BY <1>0, <3>2, <4>2, NoneIsNoKey
    <3>. QED
      BY <3>1, <3>2
  <2>2. /\ clicks' = clicks + 1 /\ frayed' = frayed
        /\ seen'[r] = hot'.count /\ pc'[r] = "renew"
        /\ \A q \in Reqs \ {r} : seen'[q] = seen[q] /\ pc'[q] = pc[q]
    BY <1>2 DEF Incr, TypeOK
  <2>. QED
    BY <1>0, <2>1, <2>2
<1>3. ASSUME NEW r \in Reqs, Renew(r) PROVE CountsSincePurge'
  <2>1. hot' # None => hot # None /\ hot'.count = hot.count
    BY <1>0, <1>3 DEF Renew, Counter
  <2>2. clicks' = clicks /\ (frayed => frayed')
    BY <1>3 DEF Renew
  <2>3. \A q \in Reqs : pc'[q] \in {"renew", "prolong"} =>
          /\ pc[q] \in {"renew", "prolong"} /\ seen'[q] = seen[q]
          /\ pc'[q] = "prolong" => seen[q] >= Threshold
    <3>1. CASE Popular(r)
      <4>1. pc' = [pc EXCEPT ![r] = "prolong"] /\ seen' = seen /\ pc[r] = "renew" /\ seen[r] >= Threshold
        BY <1>3, <3>1 DEF Renew, Popular
      <4>. QED
        BY <4>1 DEF TypeOK
    <3>2. CASE ~Popular(r)
      BY <1>3, <3>2 DEF Renew, EndTrack, TypeOK
    <3>. QED
      BY <3>1, <3>2
  <2>. QED
    BY <2>1, <2>2, <2>3
<1>4. ASSUME NEW r \in Reqs, Prolong(r) PROVE CountsSincePurge'
  <2>1. hot' # None => hot # None /\ hot'.count = hot.count
    BY <1>0, <1>4 DEF Prolong, Counter
  <2>2. clicks' = clicks /\ frayed' = frayed
    BY <1>4 DEF Prolong, history
  <2>. QED
    BY <1>4, <2>1, <2>2 DEF Prolong, EndTrack, TypeOK
<1>5. ASSUME NEW r \in Reqs, Fail(r) PROVE CountsSincePurge'
  BY <1>5 DEF Fail, TypeOK, keys
<1>6. CASE Purge
  BY <1>6 DEF Purge
<1>7. CASE Tick
  BY <1>7, PresentKey DEF Tick, history
<1>8. CASE RedisRestart
  BY <1>8 DEF RedisRestart
<1>9. CASE Fill \/ SaveRdb \/ UNCHANGED vars
  BY <1>9 DEF Fill, SaveRdb, keys, history, vars
<1>. QED
  BY <1>1, <1>2, <1>3, <1>4, <1>5, <1>6, <1>7, <1>8, <1>9 DEF Next, Redirect

\* Only clicks of a popular link prolong the copy.
LEMMA EarnedStep == TypeOK /\ CountsSincePurge /\ ProlongationEarned /\ [Next]_vars => ProlongationEarned'
<1>. SUFFICES ASSUME TypeOK, CountsSincePurge, ProlongationEarned, [Next]_vars PROVE ProlongationEarned'
  OBVIOUS
<1>. USE DEF ProlongationEarned
<1>0. clicks \in Nat /\ Threshold \in Nat /\ now \in Nat /\ now + Ttl \in Nat
  BY Times DEF TypeOK
<1>1. ASSUME entry' = [written |-> now, until |-> now + Ttl] PROVE ProlongationEarned'
  <2>1. entry'.until = now + Ttl /\ entry'.written = now
    BY <1>1
  <2>2. ~(entry'.until > entry'.written + Ttl)
    BY <1>0, <2>1
  <2>. QED
    BY <2>2
<1>2. ASSUME entry' \in {entry, None}, clicks' >= clicks, frayed => frayed', clicks' \in Nat
      PROVE  ProlongationEarned'
  BY <1>0, <1>2
<1>3. CASE Fill \/ \E r \in Reqs : Warm(r)
  BY <1>1, <1>3 DEF Fill, Warm
<1>4. ASSUME NEW r \in Reqs, Prolong(r) PROVE ProlongationEarned'
  <2>1. seen[r] >= Threshold /\ (seen[r] <= clicks \/ frayed) /\ seen[r] \in Nat
    BY <1>4 DEF Prolong, CountsSincePurge, TypeOK
  <2>2. clicks' = clicks /\ frayed' = frayed
    BY <1>4 DEF Prolong, history
  <2>. QED
    BY <1>0, <2>1, <2>2
<1>5. ASSUME NEW r \in Reqs, Get(r) \/ Incr(r) \/ Renew(r) \/ Fail(r) PROVE ProlongationEarned'
  <2>1. entry' = entry /\ clicks' \in {clicks, clicks + 1} /\ (frayed => frayed')
    BY <1>5 DEF Get, Incr, Renew, Fail, keys, history
  <2>. QED
    BY <1>0, <1>2, <2>1
<1>6. CASE Purge
  BY <1>6 DEF Purge
<1>7. CASE Tick
  BY <1>0, <1>2, <1>7, PresentKey DEF Tick, history
<1>8. CASE RedisRestart
  BY <1>8 DEF RedisRestart
<1>9. CASE SaveRdb \/ UNCHANGED vars
  BY <1>9 DEF SaveRdb, keys, history, vars
<1>. QED
  BY <1>3, <1>4, <1>5, <1>6, <1>7, <1>8, <1>9 DEF Next, Redirect

-----------------------------------------------------------------------------
\* Between INCR and EXPIRE nothing is promised; whoever renews last renews for everyone.
LEMMA RollStep == TypeOK /\ RenewalFollows /\ [Next]_vars => RenewalFollows'
<1>. SUFFICES ASSUME TypeOK, RenewalFollows, [Next]_vars PROVE RenewalFollows'
  OBVIOUS
<1>. USE DEF RenewalFollows
<1>0. /\ now \in Nat /\ Window \in Nat /\ None \notin Nat /\ frayed \in BOOLEAN
      /\ clicked # None => clicked \in Nat
      /\ hot # None => hot \in Counter
      /\ hot # None /\ hot.until # None => hot.until \in Nat
  BY Times DEF TypeOK, Counter, Latest
<1>1. ASSUME UNCHANGED <<now, hot, clicked>>, frayed => frayed', InTrack /\ ~frayed' => InTrack'
      PROVE  RenewalFollows'
  BY <1>1
<1>2. ASSUME NEW r \in Reqs, Get(r) \/ Warm(r) \/ Fail(r) PROVE RenewalFollows'
  <2>1. InTrack /\ ~frayed' => InTrack'
    BY <1>2 DEF Get, Warm, Fail, InTrack, TypeOK
  <2>2. UNCHANGED <<now, hot, clicked>>
    BY <1>2 DEF Get, Warm, Fail, keys, history
  <2>3. frayed => frayed'
    BY <1>2 DEF Get, Warm, Fail, history
  <2>. QED
    BY <1>1, <2>1, <2>2, <2>3
<1>3. ASSUME NEW r \in Reqs, Incr(r) PROVE RenewalFollows'
  <2>1. InTrack'
    BY <1>3 DEF Incr, InTrack, TypeOK
  <2>2. clicked' = now /\ now' = now
    BY <1>3 DEF Incr
  <2>. QED
    BY <1>0, <2>1, <2>2
<1>4. ASSUME NEW r \in Reqs, Renew(r) PROVE RenewalFollows'
  <2>1. now' = now /\ clicked' = clicked /\ (hot = None => frayed')
    BY <1>4 DEF Renew
  <2>2. ASSUME hot # None PROVE hot' # None /\ hot'.until = now + Window
    <3>1. hot' = [hot EXCEPT !.until = now + Window, !.kept = ~Popular(r) /\ Kept(r)]
      BY <1>4, <2>2 DEF Renew
    <3>2. hot'.until = now + Window
      BY <1>0, <2>2, <3>1 DEF Counter
    <3>3. hot' \in Counter
      <4>1. now + Window \in 0..Latest
        BY Deadlines DEF TypeOK
      <4>2. (~Popular(r) /\ Kept(r)) \in BOOLEAN
        BY Zenon
      <4>. QED
        BY <1>0, <2>2, <3>1, <4>1, <4>2 DEF Counter
    <3>. QED
      BY <3>2, <3>3, NoneIsNoKey
  <2>3. now + Window # None /\ now + Window \in Nat
    BY <1>0
  <2>. QED
    BY <1>0, <2>1, <2>2, <2>3
<1>5. ASSUME NEW r \in Reqs, Prolong(r) PROVE RenewalFollows'
  <2>1. UNCHANGED <<now, clicked, frayed>>
    BY <1>5 DEF Prolong, history
  <2>2. InTrack => InTrack'
    BY <1>5 DEF Prolong, EndTrack, InTrack, TypeOK
  <2>3. CASE hot = None
    <3>1. hot' = hot
      BY <1>5, <2>3 DEF Prolong
    <3>. QED
      BY <1>1, <2>1, <2>2, <3>1
  <2>4. CASE hot # None
    <3>1. hot' = [hot EXCEPT !.kept = Kept(r) /\ hot.until # None]
      BY <1>5, <2>4 DEF Prolong
    <3>2. (Kept(r) /\ hot.until # None) \in BOOLEAN
      BY Zenon
    <3>3. hot' \in Counter /\ hot'.until = hot.until
      BY <1>0, <2>4, <3>1, <3>2 DEF Counter
    <3>. QED
      BY <2>1, <2>2, <2>4, <3>3, NoneIsNoKey
  <2>. QED
    BY <2>3, <2>4
<1>6. CASE Purge
  BY <1>6 DEF Purge
<1>7. CASE Tick
  <2>1. /\ now' = now + 1 /\ clicked' = clicked /\ frayed' = frayed /\ pc' = pc
        /\ hot' \in {hot, None}
        /\ hot # None /\ hot' = None => hot.until # None /\ ~(now' < hot.until)
    BY <1>7, PresentKey DEF Tick, history
  <2>2. InTrack' <=> InTrack
    BY <2>1 DEF InTrack
  <2>. QED
    BY <1>0, <2>1, <2>2
<1>8. CASE RedisRestart
  BY <1>8 DEF RedisRestart
<1>9. CASE Fill \/ SaveRdb \/ UNCHANGED vars
  BY <1>1, <1>9 DEF Fill, SaveRdb, keys, history, vars, InTrack
<1>. QED
  BY <1>2, <1>3, <1>4, <1>5, <1>6, <1>7, <1>8, <1>9 DEF Next, Redirect

-----------------------------------------------------------------------------
\* The invariant holds initially.
LEMMA InvInit == Init => Inv
<1>. SUFFICES ASSUME Init PROVE Inv
  OBVIOUS
<1>1. TypeOK
  <2>1. 0 \in 0..MaxNow /\ 0 \in 0..MaxCount /\ 0 \in 0..MaxRestores
    BY Bounds
  <2>2. saved \in [entry : Copy \cup {None}, hot : Counter \cup {None}]
    BY DEF Init
  <2>. QED
    BY <2>1, <2>2 DEF Init, TypeOK, Pcs
<1>2. CopiesOutlive /\ CountsSincePurge /\ ProlongationEarned /\ RenewalFollows
  BY DEF Init, CopiesOutlive, Outlives, WithinWindow, CountsSincePurge, ProlongationEarned, RenewalFollows
<1>. QED
  BY <1>1, <1>2 DEF Inv

\* Every step preserves the invariant.
LEMMA InvStep == Inv /\ [Next]_vars => Inv'
BY TypeStep, OutliveStep, CountsStep, EarnedStep, RollStep DEF Inv

\* The inductive invariant of the two keys.
THEOREM Invariance == Spec => []Inv
BY InvInit, InvStep, PTL DEF Spec

\* Every variable keeps its type; in particular no deadline is more than two times to live
\* after the last instant of the clock.
THEOREM TypeCorrect == Spec => []TypeOK
<1>1. Inv => TypeOK
  BY DEF Inv
<1>. QED
  BY <1>1, Invariance, PTL

\* Once a click of a popular link has been tracked to its end with the copy in the cache,
\* the copy outlives the counter (track_click, get and set of URLCache, its purge, expiry
\* and the snapshots of Redis, in any order).
THEOREM PopularLinksStayCached == Spec => []PopularLinksStay
<1>1. Inv => PopularLinksStay
  BY DEF Inv, CopiesOutlive, Outlives, PopularLinksStay
<1>. QED
  BY <1>1, Invariance, PTL

\* Nobody gets the doubled time to live without Threshold clicks since the last purge,
\* unless a click was under way at the purge or Redis brought purged keys back.
THEOREM ProlongationIsEarned == Spec => []ProlongationEarned
<1>1. Inv => ProlongationEarned
  BY DEF Inv
<1>. QED
  BY <1>1, Invariance, PTL

\* The counter lives for a whole window after each click and no counter is left without a
\* deadline, unless a click was cut short between INCR and EXPIRE.
THEOREM CountersAreRolling == Spec => []CountersRoll
<1>1. Inv => CountersRoll
  BY DEF Inv, RenewalFollows, CountersRoll
<1>. QED
  BY <1>1, Invariance, PTL

=============================================================================
