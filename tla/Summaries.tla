----------------------------- MODULE Summaries -----------------------------
(***************************************************************************)
(* AnalyticsService.get_summary (app/services/analytics.py) for one short  *)
(* code: the cached summary in Redis (app/cache/analytics_cache.py), and   *)
(* the statements it is computed with on a miss                            *)
(* (app/repositories/click_event.py), each of which sees what had been     *)
(* committed when it ran.                                                  *)
(*                                                                         *)
(* A part of a summary is modelled by the set of clicks behind the rows    *)
(* its statement returns: those its filters let through, and of a          *)
(* breakdown the ones of the values that are within its limit.  Counts,    *)
(* percentages, days and distinct visitors are functions of that set.  The *)
(* worker that records clicks and the deletion of links are modules of     *)
(* their own (ClickPipeline, Links); here each is one step, the commit of  *)
(* its transaction.                                                        *)
(***************************************************************************)
EXTENDS Integers, Sequences, FiniteSets

CONSTANTS
  Links,      \* links that have the code, one after the other
  Clicks,     \* identities of clicks
  Reqs,       \* concurrent requests; a slot is reused when it is free
  Periods,    \* values of the query parameter days, in ticks of the clock
  Default,    \* its default
  Dimensions, \* the columns there are breakdowns of, in their order
  Value,      \* what a click has in visitor_hash and in these columns, None for NULL
  Limit,      \* rows of a breakdown
  TTL,        \* settings.ANALYTICS_CACHE_TTL, in ticks of the clock
  MaxNow,     \* the clock stops here (bound)
  None        \* Python's None

ASSUME SummaryConstants ==
  /\ Periods \subseteq Nat /\ Default \in Periods
  /\ TTL \in Nat \ {0} /\ MaxNow \in Nat
  /\ None \notin Links \cup Nat
  /\ Dimensions \in Seq({"country", "browser", "os", "device", "referrer"})
  /\ Dimensions # <<>> /\ Limit \in Nat \ {0}
  /\ IsFiniteSet(Clicks) /\ DOMAIN Value = Clicks

\* The user agent gives a browser, an os and a device, if need be "Unknown" and "Other";
\* a visitor needs an address and a user agent, and nothing sets country.
ASSUME WhatIsRecorded ==
  \A c \in Clicks :
    /\ DOMAIN Value[c] = {"visitor_hash", "country", "browser", "os", "device", "referrer"}
    /\ Value[c].country = None
    /\ None \notin {Value[c].browser, Value[c].os, Value[c].device}

VARIABLES
  now,    \* the clock of the host and of Redis
  status, \* the short_urls row of each link
  died,   \* history: when a link was deleted
  clicks, \* click_events: the link (None: not recorded) and created_at of a click
  cache,  \* analytics:summary:<code>, with the time it expires at
  pc,     \* where each request is suspended
  asked,  \* the days a request asked for, None if it did not
  draft   \* the summary a request is computing or has to answer with

vars == <<now, status, died, clicks, cache, pc, asked, draft>>

Times == 0..MaxNow
Sinces == {t - d : t \in Times, d \in Periods}

\* since and dailySince are the lower ends of the period, local variables of
\* get_summary and get_daily_stats; late is history: the link was gone when the
\* summary was cached.
Summary == [link : Links \cup {None}, period : Periods, total : SUBSET Clicks,
            unique : SUBSET Clicks, breakdowns : Seq(SUBSET Clicks),
            daily : SUBSET Clicks, since : Sinces, dailySince : Sinces,
            late : BOOLEAN]

Blank == [link |-> None, period |-> Default, total |-> {}, unique |-> {},
          breakdowns |-> <<>>, daily |-> {}, since |-> -Default,
          dailySince |-> -Default, late |-> FALSE]

Pcs == {"idle", "get_summary", "get_url", "count_unique", "dimension", "daily",
        "set_summary", "served"}

TypeOK ==
  /\ now \in Times
  /\ status \in [Links -> {"unborn", "live", "gone"}]
  /\ died \in [Links -> Times]
  /\ clicks \in [Clicks -> [link : Links \cup {None}, created : Times]]
  /\ cache.summary \in Summary /\ cache.deadline \in 0..(MaxNow + TTL)
  /\ pc \in [Reqs -> Pcs]
  /\ asked \in [Reqs -> Periods \cup {None}]
  /\ draft \in [Reqs -> Summary]
  /\ \A r \in Reqs : Len(draft[r].breakdowns) <= Len(Dimensions)

Init ==
  /\ now = 0
  /\ status = [l \in Links |-> "unborn"]
  /\ died = [l \in Links |-> 0]
  /\ clicks = [c \in Clicks |-> [link |-> None, created |-> 0]]
  /\ cache = [summary |-> Blank, deadline |-> 0]
  /\ pc = [r \in Reqs |-> "idle"]
  /\ asked = [r \in Reqs |-> None]
  /\ draft = [r \in Reqs |-> Blank]

-----------------------------------------------------------------------------
\* What a statement sees.

Recorded(l)    == {c \in Clicks : clicks[c].link = l}
RecordedIn(l, t) == {c \in Recorded(l) : clicks[c].created >= t}

\* Rows grouped by a column: the clicks of a group, and the groups there are, NULL left out.
Group(S, col, v) == {c \in S : Value[c][col] = v}
Groups(S, col)   == {Value[c][col] : c \in S} \ {None}

\* What ORDER BY count DESC LIMIT may return of the groups of S: as many as the limit
\* admits, none of them smaller than one that is left out; among equals, any.
Top(S, col) ==
  {T \in SUBSET Groups(S, col) :
     /\ Cardinality(T) <= Limit
     /\ T = Groups(S, col) \/ Cardinality(T) = Limit
     /\ \A v \in T : \A w \in Groups(S, col) \ T :
          Cardinality(Group(S, col, v)) >= Cardinality(Group(S, col, w))}

days(r) == IF asked[r] = None THEN Default ELSE asked[r]

Cached == now < cache.deadline

-----------------------------------------------------------------------------
\* GET /api/v1/analytics/{short_code}/summary.

Goto(r, there) == pc' = [pc EXCEPT ![r] = there]

surroundings == <<now, status, died, clicks>>

\* The request is over; its slot is free again.
Answer(r) ==
  /\ Goto(r, "idle")
  /\ asked' = [asked EXCEPT ![r] = None]
  /\ draft' = [draft EXCEPT ![r] = Blank]
  /\ UNCHANGED <<surroundings, cache>>

\* The next statement's part of the draft.
Part(r, summary, there) ==
  /\ draft' = [draft EXCEPT ![r] = summary]
  /\ Goto(r, there)
  /\ UNCHANGED <<surroundings, cache, asked>>

Start(r) ==
  /\ pc[r] = "idle"
  /\ asked' \in {[asked EXCEPT ![r] = d] : d \in Periods \cup {None}}
  /\ Goto(r, "get_summary")
  /\ UNCHANGED <<surroundings, cache, draft>>

\* Mutant: a hit renews the time to live.
GetSummaryRenewed(r) ==
  /\ pc[r] = "get_summary"
  /\ IF Cached
     THEN /\ draft' = [draft EXCEPT ![r] = cache.summary]
          /\ cache' = [cache EXCEPT !.deadline = now + TTL]
          /\ Goto(r, "served")
          /\ UNCHANGED <<surroundings, asked>>
     ELSE /\ Goto(r, "get_url")
          /\ UNCHANGED <<surroundings, cache, asked, draft>>

\* The key is the code alone.
GetSummary(r) ==
  /\ pc[r] = "get_summary"
  /\ IF Cached
     THEN Part(r, cache.summary, "served")
     ELSE /\ Goto(r, "get_url")
          /\ UNCHANGED <<surroundings, cache, asked, draft>>

\* get_by_short_code, then the clock; click_count is a column of the row.
GetUrl(r) ==
  /\ pc[r] = "get_url"
  /\ IF \A l \in Links : status[l] # "live"
     THEN Answer(r)
     ELSE \E l \in Links :
            /\ status[l] = "live"
            /\ Part(r, [Blank EXCEPT !.link = l, !.period = days(r), !.since = now - days(r),
                                     !.total = Recorded(l)],
                    "count_unique")

\* The clicks of S that name their visitor.
Visits(S) == {c \in S : Value[c]["visitor_hash"] # None}

\* Mutant: unique visitors of all time.
CountUniqueEver(r) ==
  /\ pc[r] = "count_unique"
  /\ Part(r, [draft[r] EXCEPT !.unique = Visits(Recorded(draft[r].link))], "dimension")

CountUnique(r) ==
  /\ pc[r] = "count_unique"
  /\ Part(r, [draft[r] EXCEPT !.unique = Visits(RecordedIn(draft[r].link, draft[r].since))],
          "dimension")

\* The breakdown that is next, from a statement that sees the clicks S; get_daily_stats
\* reads the clock again before it sends its own.
NextBreakdown(r, S) ==
  LET k    == Len(draft[r].breakdowns) + 1
      done == k = Len(Dimensions) IN
  \E T \in Top(S, Dimensions[k]) :
    Part(r, [draft[r] EXCEPT
               !.breakdowns = Append(@, {c \in S : Value[c][Dimensions[k]] \in T}),
               !.dailySince = IF done THEN now - days(r) ELSE @],
         IF done THEN "daily" ELSE "dimension")

\* Mutant: every breakdown reads the clock for itself.
DimensionCountsOwnClock(r) ==
  pc[r] = "dimension" /\ NextBreakdown(r, RecordedIn(draft[r].link, now - days(r)))

\* One statement per dimension.
DimensionCounts(r) ==
  pc[r] = "dimension" /\ NextBreakdown(r, RecordedIn(draft[r].link, draft[r].since))

DailyStats(r) ==
  /\ pc[r] = "daily"
  /\ Part(r, [draft[r] EXCEPT !.daily = RecordedIn(draft[r].link, draft[r].dailySince)],
          "set_summary")

\* Mutant: twice the time to live.
SetSummaryTwice(r) ==
  /\ pc[r] = "set_summary"
  /\ cache' = [summary  |-> [draft[r] EXCEPT !.late = (status[draft[r].link] = "gone")],
               deadline |-> now + 2 * TTL]
  /\ Goto(r, "served")
  /\ UNCHANGED <<surroundings, asked, draft>>

\* SETEX, whatever has become of the link.
SetSummary(r) ==
  /\ pc[r] = "set_summary"
  /\ cache' = [summary  |-> [draft[r] EXCEPT !.late = (status[draft[r].link] = "gone")],
               deadline |-> now + TTL]
  /\ Goto(r, "served")
  /\ UNCHANGED <<surroundings, asked, draft>>

\* The response is sent.
Respond(r) == pc[r] = "served" /\ Answer(r)

\* Any await may raise, or the process die: what was computed is nobody's.
Fail(r) == pc[r] \notin {"idle", "served"} /\ Answer(r)

-----------------------------------------------------------------------------
\* The surroundings.

requests == <<pc, asked, draft>>

CreateLink(l) ==
  /\ status[l] = "unborn"
  /\ \A k \in Links : status[k] # "live"
  /\ status' = [status EXCEPT ![l] = "live"]
  /\ UNCHANGED <<now, died, clicks, cache, requests>>

\* The worker commits a batch: events and counter together, each event with the
\* time of its click, which may be any time ago.
RecordBatch(l) ==
  /\ status[l] = "live"
  /\ \E S \in SUBSET Recorded(None) \ {{}}, t \in 0..now :
       clicks' = [c \in Clicks |-> IF c \in S THEN [link |-> l, created |-> t] ELSE clicks[c]]
  /\ UNCHANGED <<now, status, died, cache, requests>>

\* Its events go with it; its summary stays in the cache.
DeleteLink(l) ==
  /\ status[l] = "live"
  /\ status' = [status EXCEPT ![l] = "gone"]
  /\ died' = [died EXCEPT ![l] = now]
  /\ clicks' = [c \in Clicks |-> IF c \in Recorded(l) THEN [link |-> None, created |-> 0]
                                                      ELSE clicks[c]]
  /\ UNCHANGED <<now, cache, requests>>

\* Redis restarts without the key.
Evict ==
  /\ Cached
  /\ cache' = [summary |-> Blank, deadline |-> 0]
  /\ UNCHANGED <<surroundings, requests>>

Tick ==
  /\ now < MaxNow
  /\ now' = now + 1
  /\ UNCHANGED <<status, died, clicks, cache, requests>>

-----------------------------------------------------------------------------
Step(r) == GetSummary(r) \/ GetUrl(r) \/ CountUnique(r) \/ DimensionCounts(r)
           \/ DailyStats(r) \/ SetSummary(r) \/ Respond(r)

Next ==
  \/ \E r \in Reqs : Start(r) \/ Step(r) \/ Fail(r)
  \/ \E l \in Links : CreateLink(l) \/ RecordBatch(l) \/ DeleteLink(l)
  \/ Evict
  \/ Tick

Spec == Init /\ [][Next]_vars

-----------------------------------------------------------------------------
\* Properties.

\* The summaries that have been computed to the end.
Complete == {draft[r] : r \in {q \in Reqs : pc[q] \in {"set_summary", "served"}}}
            \cup (IF Cached THEN {cache.summary} ELSE {})

In(S, t) == {c \in S : clicks[c].created >= t}

\* The clicks of the period that the parts before breakdown k counted.
Counted(s, k) ==
  In(s.total, s.since) \cup s.unique \cup UNION {s.breakdowns[i] : i \in 1..(k - 1)}

\* A breakdown B by the column col shows all the clicks of C with the value v, or else it
\* is full, and with values that have no fewer clicks.
Shown(B, col, C, v) ==
  \/ Group(C, col, v) \subseteq B
  \/ /\ Cardinality(Groups(B, col)) = Limit
     /\ \A w \in Groups(B, col) :
          Cardinality(Group(B, col, w)) >= Cardinality(Group(C, col, v))

\* The parts of a summary are read by eight statements that each see another moment.
\* Unless its link is deleted in the meantime, no part misses a click that an earlier part
\* counted, is in the period of the later one, and passes its filter: visitors are those
\* of the clicks with a visitor_hash; a breakdown has the clicks with a value in its
\* column, and leaves a value out only for as many as the limit admits with no fewer
\* clicks; the days have them all.  (Nothing records a country, its breakdown is empty.)
PartsGrow ==
  \A s \in Complete : status[s.link] = "live" =>
    LET n == Len(s.breakdowns) IN
    /\ Visits(In(s.total, s.since)) \subseteq s.unique
    /\ \A k \in 1..n : \A v \in Groups(Counted(s, k), Dimensions[k]) :
         Shown(s.breakdowns[k], Dimensions[k], Counted(s, k), v)
    /\ In(Counted(s, n + 1), s.dailySince) \subseteq s.daily

\* Visitors, breakdowns and days of a summary are of the period it states, while
\* its total is of all time.
PartsInPeriod ==
  \A s \in Complete : status[s.link] = "live" =>
    /\ \A c \in s.unique \cup UNION {s.breakdowns[i] : i \in 1..Len(s.breakdowns)} :
         clicks[c].created >= s.since
    /\ \A c \in s.daily : clicks[c].created >= s.dailySince
    /\ s.since <= s.dailySince

\* Nothing invalidates a summary (invalidate_summary has no caller): after the
\* deletion of a link its summary is still served, even to those who ask for the
\* next link with the code, but no longer than the time to live, unless the
\* summary was being computed when the link was deleted.
GoneLinksFade ==
  Cached => LET s == cache.summary IN
    s.late \/ status[s.link] = "live" \/ now < died[s.link] + TTL

\* "30-day analytics" (README.md:244), of GET summary without a parameter: the
\* answer is of the default period.
DefaultPeriodServed ==
  \A r \in Reqs : pc[r] = "served" /\ asked[r] = None => draft[r].period = Default

=============================================================================
