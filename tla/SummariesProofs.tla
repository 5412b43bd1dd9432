-------------------------- MODULE SummariesProofs --------------------------
(***************************************************************************)
(* Theorems about Summaries, for any number of links, clicks, requests and *)
(* dimensions, all periods, every limit and every time to live.            *)
(***************************************************************************)
EXTENDS Summaries, SequenceTheorems, FiniteSetTheorems, TLAPS

\* From GetUrl on a request has the row of a link.
LinkedPcs == {"count_unique", "dimension", "daily", "set_summary", "served"}

-----------------------------------------------------------------------------
\* What the breakdowns bs show of the clicks T, of those behind the visitors, and of the
\* ones that an earlier breakdown shows: see Shown.
ShownFrom(T, unique, bs) ==
  \A k \in 1..Len(bs) :
    LET C == T \cup unique \cup UNION {bs[i] : i \in 1..(k - 1)} IN
    \A v \in Groups(C, Dimensions[k]) : Shown(bs[k], Dimensions[k], C, v)

\* What holds of a summary from its first part on, as long as its link lives: parts hold
\* clicks of the link, of the period they are about, and each breakdown shows what its
\* limit admits of the clicks in the parts before it.
Sound(s) ==
  /\ s.link \in Links /\ status[s.link] # "unborn"
  /\ status[s.link] = "live" =>
       /\ s.total \subseteq Recorded(s.link)
       /\ s.unique \subseteq RecordedIn(s.link, s.since)
       /\ \A i \in 1..Len(s.breakdowns) : s.breakdowns[i] \subseteq RecordedIn(s.link, s.since)
       /\ ShownFrom(In(s.total, s.since), s.unique, s.breakdowns)
       /\ s.daily \subseteq RecordedIn(s.link, s.dailySince)

\* The visitors are those of the period among all clicks, or more.
UniqueDone(s) == status[s.link] = "live" => Visits(In(s.total, s.since)) \subseteq s.unique

\* The breakdowns are there, and the days begin no earlier than they do.
BreakdownsDone(s) == Len(s.breakdowns) = Len(Dimensions) /\ s.since <= s.dailySince

\* The days have what all the other parts had of their period.
DailyDone(s) ==
  status[s.link] = "live" =>
    In(Counted(s, Len(s.breakdowns) + 1), s.dailySince) \subseteq s.daily

Whole(s) == Sound(s) /\ UniqueDone(s) /\ BreakdownsDone(s) /\ DailyDone(s)

\* A request has as much of its summary as the statements it has behind it; the beginning
\* of its period is in the past.
DraftGrows(r) ==
  /\ pc[r] \in LinkedPcs => Sound(draft[r])
  /\ pc[r] \in {"count_unique", "dimension"} =>
       draft[r].since <= now - days(r) /\ draft[r].daily = {}
  /\ pc[r] = "count_unique" => Len(draft[r].breakdowns) = 0
  /\ pc[r] = "dimension" => Len(draft[r].breakdowns) < Len(Dimensions)
  /\ pc[r] \in {"dimension", "daily"} => UniqueDone(draft[r])
  /\ pc[r] = "daily" => BreakdownsDone(draft[r])
  /\ pc[r] \in {"set_summary", "served"} => Whole(draft[r])

DraftsGrow == \A r \in Reqs : DraftGrows(r)

\* What is cached was computed to the end, expires in time, and if it was cached before its
\* link was deleted, within the time to live after the deletion.
CacheWhole ==
  /\ cache.deadline <= now + TTL
  /\ Cached =>
       /\ Whole(cache.summary)
       /\ status[cache.summary.link] = "gone" /\ ~cache.summary.late =>
            cache.deadline <= died[cache.summary.link] + TTL

Inv == TypeOK /\ DraftsGrow /\ CacheWhole

-----------------------------------------------------------------------------
\* The links go on: none that was born is unborn, none that is gone lives again, and the
\* clicks of one that lives stay as they are.
LinksGoOn ==
  \A l \in Links : status[l] # "unborn" =>
    /\ status'[l] # "unborn"
    /\ status'[l] = "live" => /\ status[l] = "live"
                             /\ \A c \in Recorded(l) : clicks'[c] = clicks[c]

\* No step of anyone breaks that.
LEMMA LinksMove == TypeOK /\ [Next]_vars => LinksGoOn /\ now' \in {now, now + 1}
<1>. SUFFICES ASSUME TypeOK, [Next]_vars PROVE LinksGoOn /\ now' \in {now, now + 1}
  OBVIOUS
<1>1. None \notin Links
  BY SummaryConstants
<1>2. ASSUME UNCHANGED surroundings PROVE LinksGoOn /\ now' \in {now, now + 1}
  BY <1>2 DEF surroundings, LinksGoOn
<1>3. ASSUME NEW r \in Reqs, Start(r) \/ Step(r) \/ Fail(r) PROVE UNCHANGED surroundings
  BY <1>3 DEF Start, Step, GetSummary, GetUrl, CountUnique, DimensionCounts,
         NextBreakdown, DailyStats, SetSummary, Respond,
              Fail, Part, Answer
<1>4. ASSUME NEW l \in Links, CreateLink(l) PROVE LinksGoOn /\ now' = now
  BY <1>4 DEF CreateLink, LinksGoOn, TypeOK
<1>5. ASSUME NEW l \in Links, RecordBatch(l) PROVE LinksGoOn /\ now' = now
  <2>1. \A c \in Clicks : clicks[c].link # None => clicks'[c] = clicks[c]
    BY <1>5 DEF RecordBatch, Recorded
  <2>2. status' = status /\ now' = now
    BY <1>5 DEF RecordBatch
  <2>. QED
    BY <1>1, <2>1, <2>2 DEF LinksGoOn, Recorded
<1>6. ASSUME NEW l \in Links, DeleteLink(l) PROVE LinksGoOn /\ now' = now
  <2>1. \A c \in Clicks : clicks[c].link # l => clicks'[c] = clicks[c]
    BY <1>6 DEF DeleteLink, Recorded
  <2>2. status[l] = "live" /\ status' = [status EXCEPT ![l] = "gone"] /\ now' = now
    BY <1>6 DEF DeleteLink
  <2>. QED
    BY <2>1, <2>2 DEF LinksGoOn, Recorded, TypeOK
<1>7. CASE Evict \/ UNCHANGED vars
  BY <1>2, <1>7 DEF Evict, vars, surroundings
<1>8. CASE Tick
  BY <1>8 DEF Tick, LinksGoOn
<1>. QED
  BY <1>2, <1>3, <1>4, <1>5, <1>6, <1>7, <1>8 DEF Next

\* There is a breakdown, and a row in it.
LEMMA DimensionTypes == Len(Dimensions) \in Nat /\ Len(Dimensions) > 0 /\ Limit \in Nat
<1>1. /\ Dimensions \in Seq({"country", "browser", "os", "device", "referrer"})
      /\ Dimensions # <<>> /\ Limit \in Nat
  BY SummaryConstants
<1>2. Len(Dimensions) \in Nat /\ Len(Dimensions) # 0
  BY <1>1, LenProperties, EmptySeq
<1>. QED
  BY <1>1, <1>2

\* Clocks and periods are numbers.
LEMMA TimeTypes ==
  /\ Times \subseteq Nat /\ Periods \subseteq Nat /\ Sinces \subseteq Int
  /\ \A t \in Times, d \in Periods : t - d \in Sinces
<1>1. Times \subseteq Nat /\ Periods \subseteq Nat
  BY SummaryConstants DEF Times
<1>2. Sinces \subseteq Int
  BY <1>1 DEF Sinces
<1>3. \A t \in Times, d \in Periods : t - d \in Sinces
  BY DEF Sinces
<1>. QED
  BY <1>1, <1>2, <1>3

\* The numbers in a summary.
LEMMA SummaryTypes ==
  ASSUME NEW s \in Summary
  PROVE  /\ s.since \in Int /\ s.dailySince \in Int
         /\ s.breakdowns \in Seq(SUBSET Clicks) /\ Len(s.breakdowns) \in Nat
<1>1. s.since \in Sinces /\ s.dailySince \in Sinces /\ s.breakdowns \in Seq(SUBSET Clicks)
  BY DEF Summary
<1>2. Len(s.breakdowns) \in Nat
  BY <1>1, LenProperties
<1>. QED
  BY <1>1, <1>2, TimeTypes

\* What was counted of a link that lives is recorded.
LEMMA CountedRecorded ==
  ASSUME NEW s \in Summary, Sound(s), status[s.link] = "live"
  PROVE  \A k \in 1..(Len(s.breakdowns) + 1) : Counted(s, k) \subseteq RecordedIn(s.link, s.since)
<1>1. In(s.total, s.since) \subseteq RecordedIn(s.link, s.since)
  BY DEF Sound, In, RecordedIn, Recorded
<1>2. Len(s.breakdowns) \in Nat
  BY SummaryTypes
<1>. QED
  BY <1>1, <1>2 DEF Sound, Counted

\* A part once read stays what its link's clicks are.
LEMMA SoundKept ==
  ASSUME LinksGoOn
  PROVE  \A s \in Summary : Sound(s) => Sound(s)'
<1>. SUFFICES ASSUME NEW s \in Summary, Sound(s) PROVE Sound(s)'
  OBVIOUS
<1>1. s.link \in Links /\ status'[s.link] # "unborn"
  BY DEF Sound, LinksGoOn
<1>2. ASSUME status'[s.link] = "live"
      PROVE  /\ status[s.link] = "live"
             /\ Recorded(s.link) \subseteq Recorded(s.link)'
             /\ \A t : RecordedIn(s.link, t) \subseteq RecordedIn(s.link, t)'
             /\ In(s.total, s.since)' = In(s.total, s.since)
  BY <1>1, <1>2 DEF Sound, LinksGoOn, Recorded, RecordedIn, In
<1>3. ASSUME status'[s.link] = "live"
      PROVE  ShownFrom(In(s.total, s.since), s.unique, s.breakdowns)'
  BY <1>2, <1>3 DEF Sound
<1>. QED
  BY <1>1, <1>2, <1>3 DEF Sound

\* And so do the relations between the parts.
LEMMA PartsKept ==
  ASSUME LinksGoOn
  PROVE  \A s \in Summary : Sound(s) =>
           /\ UniqueDone(s) => UniqueDone(s)'
           /\ BreakdownsDone(s) => BreakdownsDone(s)'
           /\ DailyDone(s) => DailyDone(s)'
           /\ Whole(s) => Whole(s)'
<1>. SUFFICES ASSUME NEW s \in Summary, Sound(s)
              PROVE  /\ UniqueDone(s) => UniqueDone(s)'
                     /\ BreakdownsDone(s) => BreakdownsDone(s)'
                     /\ DailyDone(s) => DailyDone(s)'
                     /\ Whole(s) => Whole(s)'
  OBVIOUS
<1>1. ASSUME status'[s.link] = "live"
      PROVE  /\ status[s.link] = "live"
             /\ \A S \in SUBSET Recorded(s.link) : \A t : In(S, t)' = In(S, t)
  BY <1>1 DEF Sound, LinksGoOn, In
<1>2. UniqueDone(s) => UniqueDone(s)'
  BY <1>1 DEF UniqueDone, Sound, Visits
<1>3. BreakdownsDone(s) => BreakdownsDone(s)'
  BY DEF BreakdownsDone
<1>4. DailyDone(s) => DailyDone(s)'
  <2>. SUFFICES ASSUME DailyDone(s), status'[s.link] = "live"
                PROVE  In(Counted(s, Len(s.breakdowns) + 1), s.dailySince)' \subseteq s.daily
    BY DEF DailyDone
  <2>. DEFINE C == Counted(s, Len(s.breakdowns) + 1)
  <2>1. C \subseteq Recorded(s.link)
    <3>1. Len(s.breakdowns) + 1 \in 1..(Len(s.breakdowns) + 1)
      BY SummaryTypes
    <3>. QED
      BY <1>1, <3>1, CountedRecorded DEF RecordedIn
  <2>2. C' = C
    BY <1>1 DEF Counted, Sound
  <2>. QED
    BY <1>1, <2>1, <2>2 DEF DailyDone, In
<1>. QED
  BY <1>2, <1>3, <1>4, SoundKept DEF Whole

\* What holds of a request that does not move holds after any step.
LEMMA DraftKept ==
  ASSUME TypeOK, LinksGoOn, now' \in {now, now + 1}, NEW r \in Reqs, DraftGrows(r),
         pc'[r] = pc[r], asked'[r] = asked[r], draft'[r] = draft[r]
  PROVE  DraftGrows(r)'
<1>1. draft[r] \in Summary /\ draft[r].since \in Int /\ days(r) \in Int /\ now \in Int
  <2>1. draft[r] \in Summary /\ now \in Times /\ days(r) \in Periods
    BY SummaryConstants DEF TypeOK, days
  <2>2. now \in Nat /\ days(r) \in Nat
    BY <2>1, TimeTypes
  <2>3. draft[r].since \in Int
    BY <2>1, SummaryTypes
  <2>. QED
    BY <2>1, <2>2, <2>3
<1>2. days(r)' = days(r)
  BY DEF days
<1>3. pc[r] \in LinkedPcs => Sound(draft[r]) /\ Sound(draft[r])'
  BY <1>1, SoundKept DEF DraftGrows
<1>4. pc[r] \in LinkedPcs =>
        /\ UniqueDone(draft[r]) => UniqueDone(draft[r])'
        /\ BreakdownsDone(draft[r]) => BreakdownsDone(draft[r])'
        /\ Whole(draft[r]) => Whole(draft[r])'
  BY <1>1, <1>3, PartsKept
<1>. QED
  BY <1>1, <1>2, <1>3, <1>4 DEF DraftGrows, LinkedPcs

\* What is cached outlives any step but the two that write it.
LEMMA CacheKept ==
  ASSUME TypeOK, LinksGoOn, now' \in {now, now + 1}, CacheWhole, cache' = cache,
         \A l \in Links : \/ died'[l] = died[l] /\ (status'[l] = "gone" => status[l] = "gone")
                          \/ status[l] = "live" /\ died'[l] = now
  PROVE  CacheWhole'
<1>1. now \in Nat /\ TTL \in Nat /\ cache.deadline \in Nat /\ cache.summary \in Summary
  BY SummaryConstants DEF TypeOK, Times
<1>2. cache'.deadline <= now' + TTL
  BY <1>1 DEF CacheWhole
<1>3. Cached' => Cached
  BY <1>1 DEF Cached
<1>4. ASSUME Cached' PROVE Whole(cache.summary)'
  BY <1>1, <1>3, <1>4, PartsKept DEF CacheWhole, Whole
<1>5. ASSUME Cached', status'[cache.summary.link] = "gone", ~cache.summary.late
      PROVE  cache.deadline <= died'[cache.summary.link] + TTL
  <2>1. cache.summary.link \in Links /\ status[cache.summary.link] \in {"live", "gone"}
    BY <1>3, <1>5 DEF CacheWhole, Whole, Sound, TypeOK
  <2>. QED
    BY <1>1, <1>3, <1>5, <2>1 DEF CacheWhole
<1>. QED
  BY <1>2, <1>4, <1>5 DEF CacheWhole

-----------------------------------------------------------------------------
\* The parts of a summary in their types.
LEMMA PartTypes ==
  ASSUME TypeOK, NEW r \in Reqs
  PROVE  /\ draft[r] \in Summary /\ days(r) \in Periods /\ now \in Times
         /\ now - days(r) \in Sinces /\ now - days(r) \in Int /\ now \in Nat /\ days(r) \in Nat
         /\ \A l : Recorded(l) \in SUBSET Clicks /\ \A t : RecordedIn(l, t) \in SUBSET Clicks
<1>1. draft[r] \in Summary /\ now \in Times /\ days(r) \in Periods
  BY SummaryConstants DEF TypeOK, days
<1>2. now \in Nat /\ days(r) \in Nat /\ now - days(r) \in Sinces
  BY <1>1, TimeTypes
<1>3. \A l : Recorded(l) \in SUBSET Clicks /\ \A t : RecordedIn(l, t) \in SUBSET Clicks
  BY DEF Recorded, RecordedIn
<1>. QED
  BY <1>1, <1>2, <1>3

\* A request without a summary.
LEMMA BlankSummary == Blank \in Summary /\ Blank.breakdowns = <<>> /\ Blank.daily = {}
<1>1. <<>> \in Seq(SUBSET Clicks)
  BY EmptySeq
<1>2. 0 \in Times /\ Default \in Periods /\ Default \in Nat
  BY SummaryConstants DEF Times
<1>3. -Default \in Sinces
  <2>1. 0 - Default \in Sinces
    BY <1>2 DEF Sinces
  <2>2. 0 - Default = -Default
    BY <1>2
  <2>. QED
    BY <2>1, <2>2
<1>. QED
  BY <1>1, <1>2, <1>3 DEF Blank, Summary

\* The summary after the statement that counts visitors: nothing else changes.
LEMMA UniquePart ==
  ASSUME TypeOK, NEW r \in Reqs, NEW s,
         s = [draft[r] EXCEPT !.unique = Visits(RecordedIn(draft[r].link, draft[r].since))]
  PROVE  /\ s \in Summary /\ s.link = draft[r].link /\ s.since = draft[r].since
         /\ s.total = draft[r].total /\ s.unique = Visits(RecordedIn(draft[r].link, draft[r].since))
         /\ s.breakdowns = draft[r].breakdowns /\ s.daily = draft[r].daily
BY PartTypes DEF Summary, Visits

\* The summary after the statement that counts days.
LEMMA DailyPart ==
  ASSUME TypeOK, NEW r \in Reqs, NEW s,
         s = [draft[r] EXCEPT !.daily = RecordedIn(draft[r].link, draft[r].dailySince)]
  PROVE  /\ s \in Summary /\ s.link = draft[r].link /\ s.since = draft[r].since
         /\ s.dailySince = draft[r].dailySince
         /\ s.total = draft[r].total /\ s.unique = draft[r].unique
         /\ s.breakdowns = draft[r].breakdowns
         /\ s.daily = RecordedIn(draft[r].link, draft[r].dailySince)
BY PartTypes DEF Summary

\* The summary as it is cached: only the mark of a late one differs.
LEMMA CachedPart ==
  ASSUME TypeOK, NEW r \in Reqs, NEW s, NEW late \in BOOLEAN, s = [draft[r] EXCEPT !.late = late]
  PROVE  /\ s \in Summary /\ s.link = draft[r].link /\ s.since = draft[r].since
         /\ s.dailySince = draft[r].dailySince /\ s.late = late
         /\ s.total = draft[r].total /\ s.unique = draft[r].unique
         /\ s.breakdowns = draft[r].breakdowns /\ s.daily = draft[r].daily
BY PartTypes DEF Summary

-----------------------------------------------------------------------------
\* No breakdown, nothing to show.
LEMMA NothingShown ==
  ASSUME NEW T, NEW unique, NEW bs, Len(bs) = 0
  PROVE  ShownFrom(T, unique, bs)
BY DEF ShownFrom

\* A group is no smaller for clicks that come to it.
LEMMA GroupsGrow ==
  ASSUME NEW S \in SUBSET Clicks, NEW C \in SUBSET S, NEW col, NEW v
  PROVE  /\ Cardinality(Group(C, col, v)) \in Nat /\ Cardinality(Group(S, col, v)) \in Nat
         /\ Cardinality(Group(C, col, v)) <= Cardinality(Group(S, col, v))
<1>1. Group(S, col, v) \in SUBSET Clicks /\ Group(C, col, v) \in SUBSET Group(S, col, v)
  BY DEF Group
<1>2. IsFiniteSet(Group(S, col, v))
  BY <1>1, SummaryConstants, FS_Subset
<1>3. IsFiniteSet(Group(C, col, v))
  BY <1>1, <1>2, FS_Subset
<1>. QED
  BY <1>1, <1>2, <1>3, FS_Subset, FS_CardinalityType

\* What a statement returns of the clicks S shows what there is among them of any clicks C.
LEMMA TopShows ==
  ASSUME NEW S \in SUBSET Clicks, NEW C \in SUBSET S, NEW col, NEW T \in Top(S, col), NEW B,
         B = {c \in S : Value[c][col] \in T}, NEW v \in Groups(C, col)
  PROVE  Shown(B, col, C, v)
<1>1. CASE v \in T
  <2>1. Group(C, col, v) \subseteq B
    BY <1>1 DEF Group
  <2>. QED
    BY <2>1 DEF Shown
<1>2. CASE v \notin T
  <2>1. v \in Groups(S, col) \ T
    BY <1>2 DEF Groups
  <2>2. Cardinality(T) = Limit /\ T \in SUBSET Groups(S, col)
    BY <2>1 DEF Top
  <2>3. Groups(B, col) = T
    BY <2>2 DEF Groups
  <2>4. ASSUME NEW w \in T
        PROVE  Cardinality(Group(B, col, w)) >= Cardinality(Group(C, col, v))
    <3>1. Group(B, col, w) = Group(S, col, w)
      BY DEF Group
    <3>2. Cardinality(Group(S, col, w)) >= Cardinality(Group(S, col, v))
      BY <2>1 DEF Top
    <3>3. /\ Cardinality(Group(C, col, v)) \in Nat /\ Cardinality(Group(S, col, v)) \in Nat
          /\ Cardinality(Group(C, col, v)) <= Cardinality(Group(S, col, v))
          /\ Cardinality(Group(S, col, w)) \in Nat
      BY GroupsGrow
    <3>. QED
      BY <3>1, <3>2, <3>3
  <2>. QED
    BY <2>2, <2>3, <2>4 DEF Shown
<1>. QED
  BY <1>1, <1>2

\* One breakdown more shows what its statement returns of the clicks S, as long as S has all
\* that was counted before.
LEMMA NextShown ==
  ASSUME NEW S \in SUBSET Clicks, NEW T \in SUBSET S, NEW unique \in SUBSET S,
         NEW bs \in Seq(SUBSET Clicks), \A i \in 1..Len(bs) : bs[i] \subseteq S,
         ShownFrom(T, unique, bs), NEW top \in Top(S, Dimensions[Len(bs) + 1]),
         NEW B \in SUBSET Clicks,
         B = {c \in S : Value[c][Dimensions[Len(bs) + 1]] \in top}
  PROVE  ShownFrom(T, unique, Append(bs, B))
<1>. DEFINE n == Len(bs)
            ds == Append(bs, B)
            C(k) == T \cup unique \cup UNION {bs[i] : i \in 1..(k - 1)}
            D(k) == T \cup unique \cup UNION {ds[i] : i \in 1..(k - 1)}
<1>1. n \in Nat /\ Len(ds) = n + 1 /\ ds[n + 1] = B /\ \A i \in 1..n : ds[i] = bs[i]
  BY AppendProperties, LenProperties
<1>. HIDE DEF n, ds
<1>2. \A k \in 1..(n + 1) : D(k) = C(k)
  <2>. SUFFICES ASSUME NEW k \in 1..(n + 1) PROVE D(k) = C(k)
    OBVIOUS
  <2>1. \A i \in 1..(k - 1) : i \in 1..n
    BY <1>1
  <2>2. {ds[i] : i \in 1..(k - 1)} = {bs[i] : i \in 1..(k - 1)}
    BY <1>1, <2>1
  <2>. QED
    BY <2>2
<1>3. C(n + 1) \in SUBSET S
  <2>1. \A i \in 1..((n + 1) - 1) : i \in 1..n
    BY <1>1
  <2>. QED
    BY <2>1 DEF n
<1>. HIDE DEF C, D
<1>4. ASSUME NEW k \in 1..(n + 1), NEW v \in Groups(D(k), Dimensions[k])
      PROVE  Shown(ds[k], Dimensions[k], D(k), v)
  <2>1. v \in Groups(C(k), Dimensions[k]) /\ D(k) = C(k)
    BY <1>2, <1>4
  <2>2. CASE k \in 1..n
    <3>1. Shown(bs[k], Dimensions[k], C(k), v)
      BY <2>1, <2>2 DEF ShownFrom, C, n
    <3>. QED
      BY <1>1, <2>1, <2>2, <3>1
  <2>3. CASE k = n + 1
    <3>1. Shown(B, Dimensions[k], C(k), v)
      BY <1>3, <2>1, <2>3, TopShows DEF n
    <3>. QED
      BY <1>1, <2>1, <2>3, <3>1
  <2>. QED
    BY <1>1, <2>2, <2>3
<1>. QED
  BY <1>1, <1>4 DEF ShownFrom, D, ds

\* A request that is answered keeps no summary.
LEMMA Answered ==
  ASSUME TypeOK, NEW r \in Reqs, Answer(r)
  PROVE  TypeOK' /\ DraftGrows(r)'
<1>1. Len(Blank.breakdowns) = 0 /\ 0 <= Len(Dimensions) /\ None \in Periods \cup {None}
  BY BlankSummary, EmptySeq, SummaryConstants
<1>2. TypeOK'
  BY <1>1, BlankSummary DEF Answer, Goto, Pcs, surroundings, TypeOK
<1>3. pc'[r] = "idle"
  BY DEF Answer, Goto, TypeOK
<1>. QED
  BY <1>2, <1>3 DEF DraftGrows, LinkedPcs

\* The step from a statement to the next changes the request's summary and nothing else.
LEMMA PartType ==
  ASSUME TypeOK, NEW r \in Reqs, NEW s \in Summary, NEW there \in Pcs, Part(r, s, there),
         Len(s.breakdowns) <= Len(Dimensions)
  PROVE  /\ TypeOK' /\ draft'[r] = s /\ pc'[r] = there /\ days(r)' = days(r)
         /\ UNCHANGED <<surroundings, cache>>
<1>1. draft'[r] = s /\ pc'[r] = there /\ asked' = asked /\ UNCHANGED <<surroundings, cache>>
  BY DEF Part, Goto, TypeOK
<1>2. TypeOK'
  BY DEF Part, Goto, surroundings, TypeOK
<1>. QED
  BY <1>1, <1>2 DEF days

\* A request starts without a summary.
LEMMA StartStep ==
  ASSUME Inv, NEW r \in Reqs, Start(r)
  PROVE  TypeOK' /\ DraftGrows(r)'
<1>1. pc'[r] = "get_summary" /\ pc' \in [Reqs -> Pcs]
  BY DEF Start, Goto, Inv, TypeOK, Pcs
<1>2. asked' \in [Reqs -> Periods \cup {None}]
  BY DEF Start, Inv, TypeOK
<1>3. TypeOK'
  BY <1>1, <1>2 DEF Start, surroundings, Inv, TypeOK
<1>. QED
  BY <1>1, <1>3 DEF DraftGrows, LinkedPcs

\* A hit is a whole summary.
LEMMA GetSummaryStep ==
  ASSUME Inv, LinksGoOn, NEW r \in Reqs, GetSummary(r)
  PROVE  TypeOK' /\ DraftGrows(r)' /\ cache' = cache
<1>1. CASE Cached
  <2>1. cache.summary \in Summary /\ Whole(cache.summary) /\ Part(r, cache.summary, "served")
    BY <1>1 DEF GetSummary, Inv, TypeOK, CacheWhole
  <2>2. Len(cache.summary.breakdowns) <= Len(Dimensions)
    BY <2>1, SummaryTypes DEF Whole, BreakdownsDone
  <2>3. TypeOK' /\ draft'[r] = cache.summary /\ pc'[r] = "served" /\ cache' = cache
    BY <2>1, <2>2, PartType DEF Inv, Pcs
  <2>4. Whole(cache.summary)'
    BY <2>1, <2>3, PartsKept DEF Whole
  <2>5. Whole(draft[r])'
    BY <2>3, <2>4 DEF Whole, Sound, UniqueDone, BreakdownsDone, DailyDone
  <2>. QED
    BY <2>3, <2>5 DEF DraftGrows, Whole
<1>2. CASE ~Cached
  <2>1. pc' = [pc EXCEPT ![r] = "get_url"] /\ UNCHANGED <<surroundings, cache, asked, draft>>
    BY <1>2 DEF GetSummary, Goto
  <2>2. pc'[r] = "get_url" /\ TypeOK'
    BY <2>1 DEF Inv, TypeOK, Pcs, surroundings
  <2>. QED
    BY <2>1, <2>2 DEF DraftGrows, LinkedPcs
<1>. QED
  BY <1>1, <1>2

\* The total is what the link had when its row was selected.
LEMMA GetUrlStep ==
  ASSUME Inv, NEW r \in Reqs, GetUrl(r)
  PROVE  TypeOK' /\ DraftGrows(r)' /\ cache' = cache
<1>1. CASE \A l \in Links : status[l] # "live"
  <2>1. Answer(r)
    BY <1>1 DEF GetUrl
  <2>. QED
    BY <2>1, Answered DEF Inv, Answer
<1>2. CASE ~\A l \in Links : status[l] # "live"
  <2>1. PICK l \in Links :
          /\ status[l] = "live"
          /\ Part(r, [Blank EXCEPT !.link = l, !.period = days(r), !.since = now - days(r),
                                   !.total = Recorded(l)], "count_unique")
    BY <1>2 DEF GetUrl
  <2>. DEFINE e == [Blank EXCEPT !.link = l, !.period = days(r), !.since = now - days(r),
                                 !.total = Recorded(l)]
  <2>2. PICK s : s = e
    OBVIOUS
  <2>3. Part(r, s, "count_unique")
    BY <2>1, <2>2
  <2>4. /\ s \in Summary /\ s.link = l /\ s.since = now - days(r) /\ s.total = Recorded(l)
        /\ s.unique = {} /\ s.breakdowns = <<>> /\ s.daily = {}
    BY <2>2, BlankSummary, PartTypes DEF Blank, Summary, Inv
  <2>5. Len(s.breakdowns) = 0 /\ 0 < Len(Dimensions) /\ 0 <= Len(Dimensions)
    BY <2>4, EmptySeq, DimensionTypes
  <2>6. /\ TypeOK' /\ draft'[r] = s /\ pc'[r] = "count_unique" /\ days(r)' = days(r)
        /\ UNCHANGED <<surroundings, cache>>
    BY <2>3, <2>4, <2>5, PartType DEF Inv, Pcs
  <2>7. Sound(draft[r])'
    BY <2>1, <2>4, <2>5, <2>6, NothingShown DEF Sound, surroundings, Recorded
  <2>8. (draft[r].since <= now - days(r))' /\ (draft[r].daily = {})'
    BY <2>4, <2>6, SummaryTypes DEF surroundings
  <2>. QED
    BY <2>4, <2>5, <2>6, <2>7, <2>8 DEF DraftGrows
<1>. QED
  BY <1>1, <1>2

\* The visitors of the period.
LEMMA CountUniqueStep ==
  ASSUME Inv, NEW r \in Reqs, CountUnique(r)
  PROVE  TypeOK' /\ DraftGrows(r)' /\ cache' = cache
<1>1. /\ pc[r] = "count_unique" /\ Sound(draft[r])
      /\ Len(draft[r].breakdowns) = 0 /\ 0 < Len(Dimensions) /\ 0 <= Len(Dimensions)
      /\ draft[r].since <= now - days(r) /\ draft[r].daily = {}
  BY DimensionTypes DEF CountUnique, Inv, DraftsGrow, DraftGrows, LinkedPcs
<1>2. PICK s : /\ Part(r, s, "dimension")
               /\ s \in Summary /\ s.link = draft[r].link /\ s.since = draft[r].since
               /\ s.total = draft[r].total /\ s.unique = Visits(RecordedIn(draft[r].link, draft[r].since))
               /\ s.breakdowns = draft[r].breakdowns /\ s.daily = draft[r].daily
  BY UniquePart DEF CountUnique, Inv
<1>3. /\ TypeOK' /\ draft'[r] = s /\ pc'[r] = "dimension" /\ days(r)' = days(r)
      /\ UNCHANGED <<surroundings, cache>>
  BY <1>1, <1>2, PartType DEF Inv, Pcs
<1>4. Sound(draft[r])'
  BY <1>1, <1>2, <1>3, NothingShown DEF Sound, surroundings, Recorded, RecordedIn, Visits
<1>5. UniqueDone(draft[r])'
  BY <1>1, <1>2, <1>3 DEF UniqueDone, Sound, surroundings, Recorded, RecordedIn, In, Visits
<1>6. (draft[r].since <= now - days(r))' /\ (draft[r].daily = {})'
  BY <1>1, <1>2, <1>3 DEF surroundings
<1>. QED
  BY <1>1, <1>2, <1>3, <1>4, <1>5, <1>6 DEF DraftGrows

\* The next breakdown shows what its limit admits of all that was counted before; after the
\* last the days begin no earlier than the period does.
LEMMA DimensionCountsStep ==
  ASSUME Inv, NEW r \in Reqs, DimensionCounts(r)
  PROVE  TypeOK' /\ DraftGrows(r)' /\ cache' = cache
<1>. DEFINE d == draft[r]
            n == Len(d.breakdowns)
            S == RecordedIn(d.link, d.since)
            done == n + 1 = Len(Dimensions)
<1>1. /\ pc[r] = "dimension" /\ Sound(d) /\ UniqueDone(d) /\ n < Len(Dimensions)
      /\ d.since <= now - days(r) /\ d.daily = {}
  BY DEF DimensionCounts, Inv, DraftsGrow, DraftGrows, LinkedPcs
<1>2. /\ d \in Summary /\ d.breakdowns \in Seq(SUBSET Clicks) /\ n \in Nat /\ S \in SUBSET Clicks
      /\ d.since \in Int /\ Len(Dimensions) \in Nat
  BY PartTypes, SummaryTypes, DimensionTypes DEF Inv
<1>3. PICK top \in Top(S, Dimensions[n + 1]) :
        Part(r, [d EXCEPT !.breakdowns = Append(@, {c \in S : Value[c][Dimensions[n + 1]] \in top}),
                          !.dailySince = IF done THEN now - days(r) ELSE @],
             IF done THEN "daily" ELSE "dimension")
  BY DEF DimensionCounts, NextBreakdown
<1>4. PICK B, t : /\ B = {c \in S : Value[c][Dimensions[n + 1]] \in top}
                  /\ t = (IF done THEN now - days(r) ELSE d.dailySince)
  OBVIOUS
<1>5. Append(d.breakdowns, B) \in Seq(SUBSET Clicks) /\ B \in SUBSET S /\ t \in Sinces
  <2>1. B \in SUBSET S /\ B \in SUBSET Clicks
    BY <1>2, <1>4
  <2>2. now - days(r) \in Sinces /\ d.dailySince \in Sinces
    BY PartTypes DEF Inv, Summary
  <2>. QED
    BY <1>2, <1>4, <2>1, <2>2, AppendProperties
<1>6. PICK s : /\ s = [d EXCEPT !.breakdowns = Append(d.breakdowns, B), !.dailySince = t]
               /\ Part(r, s, IF done THEN "daily" ELSE "dimension")
  BY <1>3, <1>4
<1>7. /\ s \in Summary /\ s.link = d.link /\ s.since = d.since
      /\ s.total = d.total /\ s.unique = d.unique /\ s.daily = {}
      /\ s.breakdowns = Append(d.breakdowns, B) /\ s.dailySince = t
  <2>1. /\ s \in Summary /\ s.link = d.link /\ s.since = d.since
        /\ s.total = d.total /\ s.unique = d.unique /\ s.daily = d.daily
        /\ s.breakdowns = Append(d.breakdowns, B) /\ s.dailySince = t
    BY <1>2, <1>5, <1>6 DEF Summary
  <2>. QED
    BY <1>1, <2>1
<1>8. /\ Len(s.breakdowns) = n + 1 /\ s.breakdowns[n + 1] = B
      /\ \A i \in 1..n : s.breakdowns[i] = d.breakdowns[i]
  <2>1. B \in SUBSET Clicks
    BY <1>2, <1>5
  <2>. QED
    BY <1>2, <1>7, <2>1, AppendProperties
<1>9. Sound(s)
  <2>1. s.link \in Links /\ status[s.link] # "unborn"
    BY <1>1, <1>7 DEF Sound
  <2>2. ASSUME status[s.link] = "live"
        PROVE  /\ s.total \subseteq Recorded(s.link) /\ s.unique \subseteq S
               /\ \A i \in 1..n : d.breakdowns[i] \subseteq S
               /\ ShownFrom(In(s.total, s.since), s.unique, d.breakdowns)
               /\ In(s.total, s.since) \subseteq S
    BY <1>1, <1>7, <2>2 DEF Sound, In, RecordedIn, Recorded
  <2>3. ASSUME status[s.link] = "live", NEW i \in 1..(n + 1)
        PROVE  s.breakdowns[i] \subseteq RecordedIn(s.link, s.since)
    <3>1. i \in 1..n \/ i = n + 1
      BY <1>2
    <3>. QED
      BY <1>5, <1>7, <1>8, <2>2, <2>3, <3>1
  <2>4. ASSUME status[s.link] = "live"
        PROVE  ShownFrom(In(s.total, s.since), s.unique, s.breakdowns)
    <3>1. B \in SUBSET Clicks
      BY <1>2, <1>5
    <3>2. In(s.total, s.since) \in SUBSET S /\ s.unique \in SUBSET S
      BY <2>2, <2>4
    <3>3. \A i \in 1..Len(d.breakdowns) : d.breakdowns[i] \subseteq S
      BY <2>2, <2>4
    <3>4. ShownFrom(In(s.total, s.since), s.unique, Append(d.breakdowns, B))
      BY <1>2, <1>4, <2>2, <2>4, <3>1, <3>2, <3>3, NextShown
    <3>. QED
      BY <1>7, <3>4
  <2>. QED
    BY <1>7, <1>8, <2>1, <2>2, <2>3, <2>4 DEF Sound
<1>. HIDE DEF n, S
<1>10. Len(s.breakdowns) <= Len(Dimensions) /\ (~done => Len(s.breakdowns) < Len(Dimensions))
  BY <1>1, <1>2, <1>8
<1>11. /\ TypeOK' /\ draft'[r] = s /\ pc'[r] = (IF done THEN "daily" ELSE "dimension")
       /\ days(r)' = days(r) /\ UNCHANGED <<surroundings, cache>>
  BY <1>6, <1>7, <1>10, PartType DEF Inv, Pcs
<1>12. Sound(draft[r])' /\ UniqueDone(draft[r])'
  <2>1. Sound(draft[r])'
    BY <1>9, <1>11 DEF Sound, surroundings, Recorded, RecordedIn, In
  <2>2. UniqueDone(draft[r])'
    BY <1>1, <1>7, <1>11 DEF UniqueDone, surroundings, In
  <2>. QED
    BY <2>1, <2>2
<1>13. CASE done
  <2>1. s.since <= s.dailySince /\ Len(s.breakdowns) = Len(Dimensions)
    BY <1>1, <1>2, <1>4, <1>7, <1>8, <1>13, PartTypes
  <2>2. BreakdownsDone(draft[r])'
    BY <1>11, <2>1 DEF BreakdownsDone
  <2>. QED
    BY <1>11, <1>12, <1>13, <2>2 DEF DraftGrows
<1>14. CASE ~done
  <2>1. (draft[r].since <= now - days(r))' /\ (draft[r].daily = {})'
    BY <1>1, <1>7, <1>11 DEF surroundings
  <2>2. Len(draft'[r].breakdowns) < Len(Dimensions)
    BY <1>10, <1>11, <1>14
  <2>. QED
    BY <1>11, <1>12, <1>14, <2>1, <2>2 DEF DraftGrows
<1>. QED
  BY <1>11, <1>13, <1>14

\* The days: the clicks that were counted before are still there.
LEMMA DailyStatsStep ==
  ASSUME Inv, NEW r \in Reqs, DailyStats(r)
  PROVE  TypeOK' /\ DraftGrows(r)' /\ cache' = cache
<1>1. pc[r] = "daily" /\ Sound(draft[r]) /\ UniqueDone(draft[r]) /\ BreakdownsDone(draft[r])
  BY DEF DailyStats, Inv, DraftsGrow, DraftGrows, LinkedPcs
<1>2. PICK s : /\ Part(r, s, "set_summary")
               /\ s \in Summary /\ s.link = draft[r].link /\ s.since = draft[r].since
               /\ s.dailySince = draft[r].dailySince
               /\ s.total = draft[r].total /\ s.unique = draft[r].unique
               /\ s.breakdowns = draft[r].breakdowns
               /\ s.daily = RecordedIn(draft[r].link, draft[r].dailySince)
  BY DailyPart DEF DailyStats, Inv
<1>3. Len(s.breakdowns) = Len(Dimensions) /\ Len(s.breakdowns) <= Len(Dimensions)
  BY <1>1, <1>2, DimensionTypes DEF BreakdownsDone
<1>4. /\ TypeOK' /\ draft'[r] = s /\ pc'[r] = "set_summary" /\ UNCHANGED <<surroundings, cache>>
  BY <1>2, <1>3, PartType DEF Inv, Pcs
<1>5. Sound(draft[r])'
  <2>1. Sound(s)
    BY <1>1, <1>2 DEF Sound
  <2>. QED
    BY <1>4, <2>1 DEF Sound, surroundings, Recorded, RecordedIn, In
<1>6. UniqueDone(draft[r])' /\ BreakdownsDone(draft[r])'
  BY <1>1, <1>2, <1>4 DEF UniqueDone, BreakdownsDone, surroundings, In
<1>7. DailyDone(draft[r])'
  <2>. DEFINE C == Counted(s, Len(s.breakdowns) + 1)
  <2>1. C = Counted(draft[r], Len(draft[r].breakdowns) + 1)
    BY <1>2 DEF Counted
  <2>2. ASSUME status[s.link] = "live" PROVE C \subseteq RecordedIn(s.link, s.since)
    <3>1. draft[r] \in Summary /\ Len(draft[r].breakdowns) + 1 \in 1..(Len(draft[r].breakdowns) + 1)
      BY PartTypes, SummaryTypes DEF Inv
    <3>. QED
      BY <1>1, <1>2, <2>1, <2>2, <3>1, CountedRecorded
  <2>3. C' = C
    BY <1>4 DEF Counted, In, surroundings
  <2>4. status[s.link] = "live" => In(C, s.dailySince) \subseteq s.daily
    BY <1>2, <2>2 DEF In, RecordedIn, Recorded
  <2>5. DailyDone(s)'
    BY <1>4, <2>3, <2>4 DEF DailyDone, In, surroundings
  <2>. QED
    BY <1>4, <2>5 DEF DailyDone, Counted
<1>. QED
  BY <1>4, <1>5, <1>6, <1>7 DEF DraftGrows, Whole

\* What is cached is whole, and marked if its link is gone.
LEMMA SetSummaryStep ==
  ASSUME Inv, NEW r \in Reqs, SetSummary(r)
  PROVE  TypeOK' /\ DraftGrows(r)' /\ CacheWhole'
<1>1. pc[r] = "set_summary" /\ Whole(draft[r])
  BY DEF SetSummary, Inv, DraftsGrow, DraftGrows
<1>2. PICK late \in BOOLEAN : late = (status[draft[r].link] = "gone")
  OBVIOUS
<1>3. PICK s : s = [draft[r] EXCEPT !.late = late]
  OBVIOUS
<1>4. /\ s \in Summary /\ s.link = draft[r].link /\ s.since = draft[r].since
      /\ s.dailySince = draft[r].dailySince /\ s.late = late
      /\ s.total = draft[r].total /\ s.unique = draft[r].unique
      /\ s.breakdowns = draft[r].breakdowns /\ s.daily = draft[r].daily
  BY <1>3, CachedPart DEF Inv
<1>5. /\ cache' = [summary |-> s, deadline |-> now + TTL] /\ draft' = draft /\ asked' = asked
      /\ pc' = [pc EXCEPT ![r] = "served"] /\ UNCHANGED surroundings
  BY <1>2, <1>3 DEF SetSummary, Goto
<1>6. cache'.summary = s /\ cache'.deadline = now + TTL
  BY <1>5
<1>7. TypeOK'
  <2>1. now + TTL \in 0..(MaxNow + TTL)
    BY SummaryConstants DEF Inv, TypeOK, Times
  <2>. QED
    BY <1>4, <1>5, <1>6, <2>1 DEF Inv, TypeOK, Pcs, surroundings
<1>8. Whole(s)
  BY <1>1, <1>4 DEF Whole, Sound, UniqueDone, BreakdownsDone, DailyDone, Counted
<1>9. Whole(cache.summary)'
  BY <1>5, <1>6, <1>8 DEF Whole, Sound, UniqueDone, BreakdownsDone, DailyDone, surroundings, Recorded,
                          RecordedIn, In, Counted
<1>10. Whole(draft[r])'
  BY <1>1, <1>5 DEF Whole, Sound, UniqueDone, BreakdownsDone, DailyDone, surroundings, Recorded,
                    RecordedIn, In, Counted
<1>11. pc'[r] = "served"
  BY <1>5 DEF Inv, TypeOK
<1>12. DraftGrows(r)'
  BY <1>10, <1>11 DEF DraftGrows, Whole
<1>13. cache'.deadline <= now' + TTL
  <2>1. now' = now /\ now \in Nat /\ TTL \in Nat
    BY <1>5, PartTypes, SummaryConstants DEF Inv, surroundings
  <2>. QED
    BY <1>6, <2>1
<1>14. status'[s.link] = "gone" => s.late
  BY <1>2, <1>4, <1>5 DEF surroundings
<1>. QED
  BY <1>6, <1>7, <1>9, <1>12, <1>13, <1>14 DEF CacheWhole

-----------------------------------------------------------------------------
\* A step of a request leaves the others as they are.
LEMMA OthersWait ==
  ASSUME TypeOK, NEW r \in Reqs, Start(r) \/ Step(r) \/ Fail(r), NEW q \in Reqs \ {r}
  PROVE  pc'[q] = pc[q] /\ asked'[q] = asked[q] /\ draft'[q] = draft[q]
<1>1. pc'[q] = pc[q]
  BY DEF Start, Step, GetSummary, GetUrl, CountUnique, DimensionCounts,
         NextBreakdown, DailyStats, SetSummary, Respond,
         Fail, Part, Answer, Goto, TypeOK
<1>2. asked'[q] = asked[q]
  BY DEF Start, Step, GetSummary, GetUrl, CountUnique, DimensionCounts,
         NextBreakdown, DailyStats, SetSummary, Respond,
         Fail, Part, Answer, TypeOK
<1>3. draft'[q] = draft[q]
  BY DEF Start, Step, GetSummary, GetUrl, CountUnique, DimensionCounts,
         NextBreakdown, DailyStats, SetSummary, Respond,
         Fail, Part, Answer, TypeOK
<1>. QED
  BY <1>1, <1>2, <1>3

\* A request keeps the invariant.
LEMMA RequestStep ==
  ASSUME Inv, LinksGoOn, now' \in {now, now + 1}, NEW r \in Reqs, Start(r) \/ Step(r) \/ Fail(r)
  PROVE  Inv'
<1>1. TypeOK' /\ DraftGrows(r)'
  BY StartStep, GetSummaryStep, GetUrlStep, CountUniqueStep, DimensionCountsStep, DailyStatsStep,
     SetSummaryStep, Answered DEF Step, Respond, Fail, Inv
<1>2. ASSUME NEW q \in Reqs PROVE DraftGrows(q)'
  <2>1. CASE q = r
    BY <1>1, <2>1
  <2>2. CASE q # r
    BY <2>2, OthersWait, DraftKept DEF Inv, DraftsGrow
  <2>. QED
    BY <2>1, <2>2
<1>3. CASE SetSummary(r)
  BY <1>1, <1>2, <1>3, SetSummaryStep DEF Inv, DraftsGrow
<1>4. CASE ~SetSummary(r)
  <2>1. cache' = cache /\ UNCHANGED surroundings
    <3>1. CASE Start(r) \/ Respond(r) \/ Fail(r)
      BY <3>1 DEF Start, Respond, Fail, Answer
    <3>2. CASE GetSummary(r) \/ GetUrl(r) \/ CountUnique(r) \/ DimensionCounts(r) \/ DailyStats(r)
      BY <3>2 DEF GetSummary, GetUrl, CountUnique, DimensionCounts,
                    NextBreakdown, DailyStats, Part, Answer
    <3>. QED
      BY <1>4, <3>1, <3>2 DEF Step
  <2>2. CacheWhole'
    BY <2>1, CacheKept DEF Inv, surroundings
  <2>. QED
    BY <1>1, <1>2, <2>2 DEF Inv, DraftsGrow
<1>. QED
  BY <1>3, <1>4

\* Links, clicks, the clock and Redis keep the types.
LEMMA SurroundingsType ==
  ASSUME TypeOK,
         \/ \E l \in Links : CreateLink(l) \/ RecordBatch(l) \/ DeleteLink(l)
         \/ Evict \/ Tick \/ UNCHANGED vars
  PROVE  TypeOK'
<1>1. ASSUME NEW l \in Links, CreateLink(l) PROVE TypeOK'
  BY <1>1 DEF CreateLink, TypeOK, requests
<1>2. ASSUME NEW l \in Links, RecordBatch(l) PROVE TypeOK'
  <2>1. clicks' \in [Clicks -> [link : Links \cup {None}, created : Times]]
    <3>1. PICK S \in SUBSET Recorded(None) \ {{}}, t \in 0..now :
            clicks' = [c \in Clicks |-> IF c \in S THEN [link |-> l, created |-> t] ELSE clicks[c]]
      BY <1>2 DEF RecordBatch
    <3>2. t \in Times
      BY <3>1, SummaryConstants DEF TypeOK, Times
    <3>. QED
      BY <3>1, <3>2 DEF TypeOK
  <2>. QED
    BY <1>2, <2>1 DEF RecordBatch, TypeOK, requests
<1>3. ASSUME NEW l \in Links, DeleteLink(l) PROVE TypeOK'
  <2>1. 0 \in Times
    BY SummaryConstants DEF Times
  <2>2. clicks' \in [Clicks -> [link : Links \cup {None}, created : Times]]
    BY <1>3, <2>1 DEF DeleteLink, TypeOK
  <2>. QED
    BY <1>3, <2>2 DEF DeleteLink, TypeOK, requests
<1>4. CASE Evict
  <2>1. 0 \in 0..(MaxNow + TTL)
    BY SummaryConstants
  <2>2. cache'.summary = Blank /\ cache'.deadline = 0
    BY <1>4 DEF Evict
  <2>. QED
    BY <1>4, <2>1, <2>2, BlankSummary DEF Evict, TypeOK, requests, surroundings
<1>5. CASE Tick
  <2>1. now' \in Times
    BY <1>5, SummaryConstants DEF Tick, TypeOK, Times
  <2>. QED
    BY <1>5, <2>1 DEF Tick, TypeOK, requests
<1>6. CASE UNCHANGED vars
  BY <1>6 DEF vars, TypeOK
<1>. QED
  BY <1>1, <1>2, <1>3, <1>4, <1>5, <1>6

\* They keep the invariant, too.
LEMMA SurroundingsStep ==
  ASSUME Inv, LinksGoOn, now' \in {now, now + 1},
         \/ \E l \in Links : CreateLink(l) \/ RecordBatch(l) \/ DeleteLink(l)
         \/ Evict \/ Tick \/ UNCHANGED vars
  PROVE  Inv'
<1>1. TypeOK'
  BY SurroundingsType DEF Inv
<1>2. UNCHANGED requests
  BY DEF CreateLink, RecordBatch, DeleteLink, Evict, Tick, vars, requests
<1>3. DraftsGrow'
  <2>1. ASSUME NEW r \in Reqs PROVE DraftGrows(r)'
    BY <1>2, DraftKept DEF requests, Inv, DraftsGrow
  <2>. QED
    BY <2>1 DEF DraftsGrow
<1>4. CacheWhole'
  <2>1. CASE Evict
    <3>1. cache'.deadline = 0 /\ now' = now /\ now \in Nat
      BY <2>1, TimeTypes DEF Evict, surroundings, Inv, TypeOK
    <3>. QED
      BY <3>1, SummaryConstants DEF CacheWhole, Cached
  <2>2. CASE ~Evict
    <3>1. cache' = cache
      BY <2>2 DEF CreateLink, RecordBatch, DeleteLink, Tick, vars
    <3>2. \A l \in Links : \/ died'[l] = died[l] /\ (status'[l] = "gone" => status[l] = "gone")
                           \/ status[l] = "live" /\ died'[l] = now
      BY <2>2 DEF CreateLink, RecordBatch, DeleteLink, Tick, vars, Inv, TypeOK
    <3>. QED
      BY <3>1, <3>2, CacheKept DEF Inv
  <2>. QED
    BY <2>1, <2>2
<1>. QED
  BY <1>1, <1>3, <1>4 DEF Inv

-----------------------------------------------------------------------------
\* The invariant holds initially.
LEMMA InvInit == Init => Inv
<1>. SUFFICES ASSUME Init PROVE Inv
  OBVIOUS
<1>1. cache.summary = Blank /\ cache.deadline = 0
  BY DEF Init
<1>2. Len(Blank.breakdowns) <= Len(Dimensions) /\ 0 \in Times /\ 0 \in 0..(MaxNow + TTL)
  BY BlankSummary, EmptySeq, SummaryConstants DEF Times
<1>3. TypeOK
  BY <1>1, <1>2, BlankSummary DEF Init, TypeOK, Pcs
<1>4. DraftsGrow
  BY DEF Init, DraftsGrow, DraftGrows, LinkedPcs
<1>5. CacheWhole
  BY <1>1, SummaryConstants DEF Init, CacheWhole, Cached
<1>. QED
  BY <1>3, <1>4, <1>5 DEF Inv

\* Every step preserves the invariant.
LEMMA InvStep == Inv /\ [Next]_vars => Inv'
<1>. SUFFICES ASSUME Inv, [Next]_vars PROVE Inv'
  OBVIOUS
<1>1. LinksGoOn /\ now' \in {now, now + 1}
  BY LinksMove DEF Inv
<1>. QED
  BY <1>1, RequestStep, SurroundingsStep DEF Next

\* The inductive invariant of requests and the cached summary.
THEOREM Invariance == Spec => []Inv
BY InvInit, InvStep, PTL DEF Spec

\* Every variable keeps its type; no summary has more breakdowns than there are dimensions.
THEOREM TypeCorrect == Spec => []TypeOK
<1>1. Inv => TypeOK
  BY DEF Inv
<1>. QED
  BY <1>1, Invariance, PTL

\* Every summary that is computed to the end is whole.
LEMMA CompleteSummaries ==
  ASSUME Inv, NEW s \in Complete
  PROVE  s \in Summary /\ Whole(s)
BY DEF Inv, Complete, TypeOK, DraftsGrow, DraftGrows, CacheWhole

\* No part of a summary misses a click of its period that an earlier part counted and its
\* filter lets through, although every part is read by a statement of its own; a breakdown
\* leaves a value out only when it is full of others with no fewer clicks (get_summary,
\* ClickEventRepository).
THEOREM PartsAreGrowing == Spec => []PartsGrow
<1>1. ASSUME Inv PROVE PartsGrow
  <2>. SUFFICES ASSUME NEW s \in Complete, status[s.link] = "live"
                PROVE  /\ Visits(In(s.total, s.since)) \subseteq s.unique
                       /\ \A k \in 1..Len(s.breakdowns) : \A v \in Groups(Counted(s, k), Dimensions[k]) :
                            Shown(s.breakdowns[k], Dimensions[k], Counted(s, k), v)
                       /\ In(Counted(s, Len(s.breakdowns) + 1), s.dailySince) \subseteq s.daily
    BY DEF PartsGrow
  <2>1. Sound(s) /\ UniqueDone(s) /\ DailyDone(s)
    BY <1>1, CompleteSummaries DEF Whole
  <2>2. ShownFrom(In(s.total, s.since), s.unique, s.breakdowns)
    BY <2>1 DEF Sound
  <2>. QED
    BY <2>1, <2>2 DEF UniqueDone, DailyDone, ShownFrom, Counted
<1>. QED
  BY <1>1, Invariance, PTL

\* Visitors, breakdowns and days hold clicks of the period only, and the days begin no
\* earlier than the rest, although get_daily_stats reads the clock again.
THEOREM PartsAreInPeriod == Spec => []PartsInPeriod
<1>1. ASSUME Inv PROVE PartsInPeriod
  <2>. SUFFICES ASSUME NEW s \in Complete, status[s.link] = "live"
                PROVE  /\ \A c \in s.unique \cup UNION {s.breakdowns[i] : i \in 1..Len(s.breakdowns)} :
                            clicks[c].created >= s.since
                       /\ \A c \in s.daily : clicks[c].created >= s.dailySince
                       /\ s.since <= s.dailySince
    BY DEF PartsInPeriod
  <2>1. Whole(s)
    BY <1>1, CompleteSummaries
  <2>. QED
    BY <2>1 DEF Whole, Sound, BreakdownsDone, RecordedIn
<1>. QED
  BY <1>1, Invariance, PTL

\* The summary of a deleted link is served no longer than the time to live, unless it was
\* being computed when the link was deleted.
THEOREM GoneLinksAreFading == Spec => []GoneLinksFade
<1>1. ASSUME Inv PROVE GoneLinksFade
  <2>. SUFFICES ASSUME Cached, ~cache.summary.late, status[cache.summary.link] # "live"
                PROVE  now < died[cache.summary.link] + TTL
    BY DEF GoneLinksFade
  <2>1. cache.summary.link \in Links /\ status[cache.summary.link] = "gone"
    BY <1>1 DEF Inv, CacheWhole, Whole, Sound, TypeOK
  <2>2. cache.deadline <= died[cache.summary.link] + TTL /\ now < cache.deadline
    BY <1>1, <2>1 DEF Inv, CacheWhole, Cached
  <2>3. now \in Nat /\ cache.deadline \in Nat /\ died[cache.summary.link] \in Nat /\ TTL \in Nat
    BY <1>1, <2>1, SummaryConstants DEF Inv, TypeOK, Times
  <2>. QED
    BY <2>2, <2>3
<1>. QED
  BY <1>1, Invariance, PTL

=============================================================================
