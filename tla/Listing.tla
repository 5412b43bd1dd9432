------------------------------ MODULE Listing ------------------------------
(***************************************************************************)
(* GET /api/v1/urls: a client walks the pages of its own links             *)
(* (URLService.list_by_owner, URLRepository.get_by_owner) while links of   *)
(* its owner are created and deleted by other requests.                    *)
(*                                                                         *)
(* Each page is two statements, the total and the rows, and under READ     *)
(* COMMITTED each of them sees what is committed when it runs.  Rows are   *)
(* ordered by created_at alone, which is the time a transaction began and  *)
(* not the time it committed; rows of the same instant come in any order.  *)
(***************************************************************************)
EXTENDS Naturals, FiniteSets

CONSTANTS
  Links,  \* links the owner may ever create
  Size,   \* the query parameter size
  MaxNow  \* the clock stops here (bound)

ASSUME PageSize == Size \in Nat \ {0}
ASSUME ClockBound == MaxNow \in Nat
ASSUME FiniteLinks == IsFiniteSet(Links)

VARIABLES
  now,      \* clock of PostgreSQL
  status,   \* the short_urls row of each link
  created,  \* its created_at
  pc,       \* the client between two walks, or the statement its request is at
  page,     \* the query parameter page
  total,    \* what the COUNT returned
  listed,   \* how often the walk has been shown each link
  steady,   \* history: links live all through the walk
  arrived,  \* history: links committed during the walk
  departed, \* history: links deleted during the walk
  shifted   \* history: links committed or deleted since the COUNT

vars == <<now, status, created, pc, page, total, listed, steady, arrived,
          departed, shifted>>

table   == <<now, status, created>>
history == <<steady, arrived, departed, shifted>>

\* Mutant: a last page follows even when the others hold everything.
PagesAndOne(n) == n \div Size + 1

\* Mutant: a last page that is not full is not a page.
FullPages(n) == n \div Size

\* math.ceil(total / size)
PagesOf(n) == (n + Size - 1) \div Size

TypeOK ==
  /\ now \in 0..MaxNow
  /\ status \in [Links -> {"unborn", "open", "live", "gone"}]
  /\ created \in [Links -> 0..MaxNow]
  /\ pc \in {"idle", "count", "rows"}
  /\ page \in Nat \ {0}
  /\ page > 1 => (page - 1) * Size < Cardinality(Links)
  /\ total \in 0..Cardinality(Links)
  /\ listed \in [Links -> Nat]
  /\ steady \in SUBSET Links
  /\ arrived \in SUBSET Links
  /\ departed \in SUBSET Links
  /\ shifted \in SUBSET Links

Init ==
  /\ now = 0
  /\ status = [l \in Links |-> "unborn"]
  /\ created = [l \in Links |-> 0]
  /\ pc = "idle"
  /\ page = 1
  /\ total = 0
  /\ listed = [l \in Links |-> 0]
  /\ steady = {}
  /\ arrived = {}
  /\ departed = {}
  /\ shifted = {}

Live == {l \in Links : status[l] = "live"}

-----------------------------------------------------------------------------
\* Other requests of the owner.

Tick ==
  /\ now < MaxNow
  /\ now' = now + 1
  /\ UNCHANGED <<status, created, pc, page, total, listed, history>>

\* created_at is now(), the time of the transaction's first statement.
BeginCreate(l) ==
  /\ status[l] = "unborn"
  /\ status' = [status EXCEPT ![l] = "open"]
  /\ created' = [created EXCEPT ![l] = now]
  /\ UNCHANGED <<now, pc, page, total, listed, history>>

CommitCreate(l) ==
  /\ status[l] = "open"
  /\ status' = [status EXCEPT ![l] = "live"]
  /\ IF pc = "idle" THEN UNCHANGED <<arrived, shifted>>
     ELSE arrived' = arrived \cup {l} /\ shifted' = shifted \cup {l}
  /\ UNCHANGED <<now, created, pc, page, total, listed, steady, departed>>

CommitDelete(l) ==
  /\ status[l] = "live"
  /\ status' = [status EXCEPT ![l] = "gone"]
  /\ IF pc = "idle" THEN UNCHANGED <<steady, departed, shifted>>
     ELSE /\ steady' = steady \ {l}
          /\ departed' = departed \cup {l}
          /\ shifted' = shifted \cup {l}
  /\ UNCHANGED <<now, created, pc, page, total, listed, arrived>>

-----------------------------------------------------------------------------
\* The walk.

StartWalk ==
  /\ pc = "idle"
  /\ pc' = "count"
  /\ page' = 1
  /\ listed' = [l \in Links |-> 0]
  /\ steady' = Live
  /\ arrived' = {}
  /\ departed' = {}
  /\ UNCHANGED <<table, total, shifted>>

\* Mutant: links of transactions that are still open are counted (READ UNCOMMITTED).
CountDirty ==
  /\ pc = "count"
  /\ total' = Cardinality({l \in Links : status[l] \in {"open", "live"}})
  /\ pc' = "rows"
  /\ shifted' = {}
  /\ UNCHANGED <<table, page, listed, steady, arrived, departed>>

Count ==
  /\ pc = "count"
  /\ total' = Cardinality(Live)
  /\ pc' = "rows"
  /\ shifted' = {}
  /\ UNCHANGED <<table, page, listed, steady, arrived, departed>>

\* Mutant: pages are counted from zero.
OffsetFromZero == page * Size

Offset == (page - 1) * Size

AtMost(n, S) == IF n < Cardinality(S) THEN n ELSE Cardinality(S)

\* Mutant: no ORDER BY.
AnyOf(n, S) == {T \in SUBSET S : Cardinality(T) = AtMost(n, S)}

\* The ways to take the n newest of S.
Newest(n, S) ==
  {T \in SUBSET S : /\ Cardinality(T) = AtMost(n, S)
                    /\ \A t \in T, l \in S \ T : created[t] >= created[l]}

\* ORDER BY created_at DESC OFFSET .. LIMIT ..; the client asks for the next page as
\* long as the response says that there is one.
Rows ==
  /\ pc = "rows"
  /\ \E skipped \in Newest(Offset, Live) : \E items \in Newest(Size, Live \ skipped) :
       listed' = [l \in Links |-> IF l \in items THEN listed[l] + 1 ELSE listed[l]]
  /\ IF page < PagesOf(total) THEN pc' = "count" /\ page' = page + 1
                     ELSE pc' = "idle" /\ page' = page
  /\ UNCHANGED <<table, total, history>>

-----------------------------------------------------------------------------
Next ==
  \/ Tick
  \/ \E l \in Links : BeginCreate(l) \/ CommitCreate(l) \/ CommitDelete(l)
  \/ StartWalk \/ Count \/ Rows

Spec == Init /\ [][Next]_vars

-----------------------------------------------------------------------------
\* Properties.

\* Two links of the same instant may come in a different order on every page.
Tied == \E l, m \in steady \cup arrived \cup departed : l # m /\ created[l] = created[m]

\* The times a link was shown after the first.
Repeats == UNION {{l} \X (2..listed[l]) : l \in Links}

\* Deletions never repeat a link in a walk, and every link that arrives repeats one at
\* most, even one that was begun long before it is committed and comes into the middle.
RepeatsBounded ==
  ~Tied => Cardinality(Repeats) <= Cardinality(arrived)

\* A walk to the last page misses one link at most for each that was deleted meanwhile,
\* and one for each that arrived between the two statements of the last response,
\* whose total did not count it.
MissesBounded ==
  pc = "idle" /\ ~Tied =>
    Cardinality({l \in steady : listed[l] = 0})
      <= Cardinality(departed) + Cardinality(shifted \cap arrived)

\* A response holds the rows that its total promises for the page, unless a link came
\* or went between its two statements.
TotalsAgree ==
  [][pc = "rows" /\ pc' # "rows" /\ shifted = {} =>
       LET items == {l \in Links : listed'[l] > listed[l]}
           left  == IF Offset < total THEN total - Offset ELSE 0
       IN  Cardinality(items) = IF left < Size THEN left ELSE Size]_vars

=============================================================================
