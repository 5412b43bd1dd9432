--------------------------- MODULE ListingProofs ---------------------------
(***************************************************************************)
(* Theorems about Listing, for every finite set of links and every size of *)
(* a page.                                                                 *)
(***************************************************************************)
EXTENDS Listing, FiniteSetTheorems, TLAPS

\* What comes before l in the order of the listing, and the first n of S.
Above(l, S) == {m \in S : created[m] > created[l]}
Top(n, S)   == {l \in S : Cardinality(Above(l, S)) < n}

\* No two of S have one created_at.
Apart(S) == \A l, m \in S : created[l] = created[m] => l = m

Met   == steady \cup arrived \cup departed
Shown == {l \in Links : listed[l] > 0}

\* Shown, and pushed to pages that are still to come.
Beyond == {l \in Live \cap Shown : l \notin Top(Offset, Live)}

\* Not shown, and pulled to pages that have been.
Skipped == {l \in steady \ Shown : l \in Top(Offset, Live)}

\* What the walk remembers is about links that were committed once.
HistoryTrue ==
  /\ \A l \in steady \cup arrived \cup Shown : status[l] \in {"live", "gone"}
  /\ \A l \in departed : status[l] = "gone"
  /\ pc # "idle" => steady \subseteq Live /\ Live \subseteq steady \cup arrived

\* The total is of the table, but for what has come and gone since.
TotalTrue ==
  pc = "rows" => /\ Cardinality(Live) <= total + Cardinality(shifted \cap arrived)
                 /\ shifted = {} => Cardinality(Live) = total

\* An arrival repeats a link or pushes one that was shown, a departure pulls one that was
\* not.
Moves ==
  pc # "idle" /\ ~Tied =>
    /\ Cardinality(Repeats) + Cardinality(Beyond) <= Cardinality(arrived)
    /\ Cardinality(Skipped) <= Cardinality(departed)

Inv == /\ TypeOK /\ HistoryTrue /\ TotalTrue /\ IsFiniteSet(Repeats)
       /\ Moves /\ RepeatsBounded /\ MissesBounded

-----------------------------------------------------------------------------
\* Counting.

\* A part of a finite set.
LEMMA Fewer ==
  ASSUME NEW S, IsFiniteSet(S), NEW T, T \subseteq S
  PROVE  /\ IsFiniteSet(T) /\ Cardinality(T) \in Nat /\ Cardinality(S) \in Nat
         /\ Cardinality(T) <= Cardinality(S)
BY FS_Subset, FS_CardinalityType

\* A set that is covered by two finite ones.
LEMMA Covered ==
  ASSUME NEW S, NEW T, IsFiniteSet(S), IsFiniteSet(T), NEW U, U \subseteq S \cup T
  PROVE  /\ IsFiniteSet(U)
         /\ Cardinality(U) \in Nat /\ Cardinality(S) \in Nat /\ Cardinality(T) \in Nat
         /\ Cardinality(U) <= Cardinality(S) + Cardinality(T)
<1>1. /\ IsFiniteSet(S \cup T)
      /\ Cardinality(S \cup T) = Cardinality(S) + Cardinality(T) - Cardinality(S \cap T)
  BY FS_Union
<1>2. IsFiniteSet(S \cap T) /\ Cardinality(S \cap T) \in Nat
  BY Fewer
<1>3. IsFiniteSet(U) /\ Cardinality(U) \in Nat /\ Cardinality(U) <= Cardinality(S \cup T)
  BY <1>1, Fewer
<1>. QED
  BY <1>1, <1>2, <1>3, FS_CardinalityType

\* Two sets without a common element.
LEMMA Disjoint ==
  ASSUME NEW S, NEW T, IsFiniteSet(S), IsFiniteSet(T), S \cap T = {}
  PROVE  IsFiniteSet(S \cup T) /\ Cardinality(S \cup T) = Cardinality(S) + Cardinality(T)
<1>1. Cardinality(S \cap T) = 0
  BY FS_EmptySet
<1>2. Cardinality(S) \in Nat /\ Cardinality(T) \in Nat
  BY FS_CardinalityType
<1>3. /\ IsFiniteSet(S \cup T)
      /\ Cardinality(S \cup T) = Cardinality(S) + Cardinality(T) - Cardinality(S \cap T)
  BY FS_Union
<1>. QED
  BY <1>1, <1>2, <1>3

\* A set and what it leaves of a larger one.
LEMMA Remainder ==
  ASSUME NEW S, IsFiniteSet(S), NEW T, T \subseteq S
  PROVE  /\ IsFiniteSet(S \ T) /\ Cardinality(S \ T) \in Nat
         /\ Cardinality(S) = Cardinality(T) + Cardinality(S \ T)
<1>1. IsFiniteSet(T) /\ IsFiniteSet(S \ T)
  BY Fewer
<1>2. T \cup (S \ T) = S /\ T \cap (S \ T) = {}
  OBVIOUS
<1>. QED
  BY <1>1, <1>2, Disjoint, FS_CardinalityType

\* A set of which all elements are one.
LEMMA OneAtMost ==
  ASSUME NEW S, \A x, y \in S : x = y
  PROVE  IsFiniteSet(S) /\ Cardinality(S) \in Nat /\ Cardinality(S) <= 1
<1>1. CASE S = {}
  BY <1>1, FS_EmptySet
<1>2. CASE S # {}
  <2>1. PICK x \in S : TRUE
    BY <1>2
  <2>2. S = {x}
    BY <2>1
  <2>. QED
    BY <2>2, FS_Singleton
<1>. QED
  BY <1>1, <1>2

\* One more element.
LEMMA OneMore ==
  ASSUME NEW S, IsFiniteSet(S), NEW x, x \notin S
  PROVE  /\ IsFiniteSet(S \cup {x}) /\ Cardinality(S) \in Nat
         /\ Cardinality(S \cup {x}) = Cardinality(S) + 1
BY FS_AddElement, FS_CardinalityType

-----------------------------------------------------------------------------
\* The order of the listing.

\* The first n of S are the n newest, whichever ties there are among the others.
LEMMA NewestIsTop ==
  ASSUME NEW n \in Nat, NEW S, IsFiniteSet(S), \A l \in S : created[l] \in Nat, Apart(S),
         NEW T \in Newest(n, S)
  PROVE  T = Top(n, S)
<1>1. /\ T \subseteq S /\ Cardinality(T) = AtMost(n, S)
      /\ \A t \in T, l \in S \ T : created[t] >= created[l]
  BY DEF Newest
<1>2. IsFiniteSet(T) /\ Cardinality(T) \in Nat /\ Cardinality(S) \in Nat
  BY <1>1, Fewer
<1>3. ASSUME NEW l \in T PROVE l \in Top(n, S)
  <2>1. Above(l, S) \subseteq T \ {l}
    BY <1>1, <1>3 DEF Above
  <2>2. IsFiniteSet(T \ {l}) /\ Cardinality(T \ {l}) = Cardinality(T) - 1
    BY <1>2, <1>3, FS_RemoveElement
  <2>3. Cardinality(Above(l, S)) \in Nat /\ Cardinality(Above(l, S)) <= Cardinality(T) - 1
    BY <2>1, <2>2, Fewer
  <2>4. Cardinality(T) <= n
    BY <1>1, <1>2 DEF AtMost
  <2>. QED
    BY <1>1, <1>2, <1>3, <2>3, <2>4 DEF Top
<1>4. ASSUME NEW l \in S \ T PROVE l \notin Top(n, S)
  <2>1. T \subseteq Above(l, S)
    BY <1>1, <1>4 DEF Above, Apart
  <2>2. Above(l, S) \subseteq S
    BY DEF Above
  <2>3. IsFiniteSet(Above(l, S)) /\ Cardinality(Above(l, S)) \in Nat
    BY <2>2, Fewer
  <2>4. Cardinality(T) <= Cardinality(Above(l, S))
    BY <2>1, <2>3, Fewer
  <2>5. Cardinality(T) # Cardinality(S)
    BY <1>1, <1>4, FS_Subset
  <2>6. Cardinality(T) = n
    BY <1>1, <1>2, <2>5 DEF AtMost
  <2>. QED
    BY <2>3, <2>4, <2>6 DEF Top
<1>. QED
  BY <1>1, <1>3, <1>4 DEF Top

\* A page after the pages before it.
LEMMA NextPage ==
  ASSUME NEW n \in Nat, NEW k \in Nat, NEW S, IsFiniteSet(S), \A l \in S : created[l] \in Nat,
         NEW T \in Newest(n, S), NEW U \in Newest(k, S \ T)
  PROVE  T \cup U \in Newest(n + k, S)
<1>1. /\ T \subseteq S /\ Cardinality(T) = AtMost(n, S)
      /\ \A t \in T, l \in S \ T : created[t] >= created[l]
  BY DEF Newest
<1>2. /\ U \subseteq S \ T /\ Cardinality(U) = AtMost(k, S \ T)
      /\ \A t \in U, l \in (S \ T) \ U : created[t] >= created[l]
  BY DEF Newest
<1>3. /\ IsFiniteSet(T) /\ Cardinality(T) \in Nat /\ Cardinality(S) \in Nat
      /\ IsFiniteSet(S \ T) /\ Cardinality(S \ T) \in Nat
      /\ Cardinality(S) = Cardinality(T) + Cardinality(S \ T)
  BY <1>1, Fewer, Remainder
<1>4. IsFiniteSet(U) /\ Cardinality(U) \in Nat
  BY <1>2, <1>3, Fewer
<1>5. Cardinality(T \cup U) = Cardinality(T) + Cardinality(U)
  BY <1>2, <1>3, <1>4, Disjoint
<1>6. Cardinality(T \cup U) = AtMost(n + k, S)
  BY <1>1, <1>2, <1>3, <1>4, <1>5 DEF AtMost
<1>7. \A t \in T \cup U, l \in S \ (T \cup U) : created[t] >= created[l]
  BY <1>1, <1>2
<1>. QED
  BY <1>1, <1>2, <1>6, <1>7 DEF Newest

\* One link at most has a given number before it.
LEMMA RanksDiffer ==
  ASSUME NEW S, IsFiniteSet(S), \A l \in S : created[l] \in Nat, Apart(S), NEW n
  PROVE  LET R == {l \in S : Cardinality(Above(l, S)) = n}
         IN  IsFiniteSet(R) /\ Cardinality(R) \in Nat /\ Cardinality(R) <= 1
<1>. DEFINE R == {l \in S : Cardinality(Above(l, S)) = n}
<1>1. ASSUME NEW l \in S, NEW m \in S, created[l] > created[m]
      PROVE  Cardinality(Above(l, S)) # Cardinality(Above(m, S))
  <2>1. Above(l, S) \cup {l} \subseteq Above(m, S) /\ l \notin Above(l, S)
    BY <1>1 DEF Above
  <2>2. IsFiniteSet(Above(l, S)) /\ IsFiniteSet(Above(m, S))
    BY Fewer DEF Above
  <2>3. /\ IsFiniteSet(Above(l, S) \cup {l}) /\ Cardinality(Above(l, S)) \in Nat
        /\ Cardinality(Above(l, S) \cup {l}) = Cardinality(Above(l, S)) + 1
    BY <2>1, <2>2, OneMore
  <2>4. /\ Cardinality(Above(l, S) \cup {l}) <= Cardinality(Above(m, S))
        /\ Cardinality(Above(m, S)) \in Nat
    BY <2>1, <2>2, Fewer
  <2>. QED
    BY <2>3, <2>4
<1>2. \A l, m \in R : l = m
  BY <1>1 DEF Apart
<1>. QED
  BY <1>2, OneAtMost

\* A link that comes pushes one out of the first n and pulls none.
LEMMA Arrival ==
  ASSUME NEW n \in Nat, NEW S, IsFiniteSet(S), NEW x, x \notin S,
         \A l \in S \cup {x} : created[l] \in Nat, Apart(S \cup {x})
  PROVE  /\ Top(n, S \cup {x}) \cap S \subseteq Top(n, S)
         /\ \E R : /\ IsFiniteSet(R) /\ Cardinality(R) \in Nat /\ Cardinality(R) <= 1
                   /\ Top(n, S) \subseteq Top(n, S \cup {x}) \cup R
<1>. DEFINE R == {l \in S : Cardinality(Above(l, S)) = n - 1}
<1>0. Apart(S) /\ \A l \in S : created[l] \in Nat
  BY DEF Apart
<1>1. IsFiniteSet(R) /\ Cardinality(R) \in Nat /\ Cardinality(R) <= 1
  BY <1>0, RanksDiffer
<1>2. ASSUME NEW l \in S
      PROVE  /\ Cardinality(Above(l, S)) \in Nat
             /\ Cardinality(Above(l, S \cup {x}))
                  \in {Cardinality(Above(l, S)), Cardinality(Above(l, S)) + 1}
  <2>1. IsFiniteSet(Above(l, S)) /\ x \notin Above(l, S)
    BY Fewer DEF Above
  <2>2. Above(l, S \cup {x}) = Above(l, S) \/ Above(l, S \cup {x}) = Above(l, S) \cup {x}
    BY DEF Above
  <2>. QED
    BY <2>1, <2>2, OneMore
<1>3. Top(n, S \cup {x}) \cap S \subseteq Top(n, S)
  BY <1>2 DEF Top
<1>4. Top(n, S) \subseteq Top(n, S \cup {x}) \cup R
  BY <1>2 DEF Top
<1>. QED
  BY <1>1, <1>3, <1>4

\* A link that goes pulls one into the first n and pushes none.
LEMMA Departure ==
  ASSUME NEW n \in Nat, NEW S, IsFiniteSet(S), NEW x \in S,
         \A l \in S : created[l] \in Nat, Apart(S)
  PROVE  /\ Top(n, S) \ {x} \subseteq Top(n, S \ {x})
         /\ \E R : /\ IsFiniteSet(R) /\ Cardinality(R) \in Nat /\ Cardinality(R) <= 1
                   /\ Top(n, S \ {x}) \subseteq Top(n, S) \cup R
<1>. DEFINE R == {l \in S : Cardinality(Above(l, S)) = n}
<1>1. IsFiniteSet(R) /\ Cardinality(R) \in Nat /\ Cardinality(R) <= 1
  BY RanksDiffer
<1>2. ASSUME NEW l \in S \ {x}
      PROVE  /\ Cardinality(Above(l, S \ {x})) \in Nat
             /\ Cardinality(Above(l, S))
                  \in {Cardinality(Above(l, S \ {x})), Cardinality(Above(l, S \ {x})) + 1}
  <2>1. IsFiniteSet(Above(l, S \ {x})) /\ x \notin Above(l, S \ {x})
    BY Fewer DEF Above
  <2>2. Above(l, S) = Above(l, S \ {x}) \/ Above(l, S) = Above(l, S \ {x}) \cup {x}
    BY DEF Above
  <2>. QED
    BY <2>1, <2>2, OneMore
<1>3. Top(n, S) \ {x} \subseteq Top(n, S \ {x})
  BY <1>2 DEF Top
<1>4. Top(n, S \ {x}) \subseteq Top(n, S) \cup R
  BY <1>2 DEF Top
<1>. QED
  BY <1>1, <1>3, <1>4

-----------------------------------------------------------------------------
\* The arithmetic of pages.

\* Of two numbers of pages the larger has no fewer rows.
LEMMA PagesGrow ==
  ASSUME NEW p \in Nat, NEW q \in Nat, p <= q
  PROVE  p * Size \in Nat /\ q * Size \in Nat /\ p * Size <= q * Size
<1>1. q * Size = p * Size + (q - p) * Size
  BY PageSize
<1>2. p * Size \in Nat /\ q * Size \in Nat /\ (q - p) * Size \in Nat
  BY PageSize
<1>. QED
  BY <1>1, <1>2

\* There is a page after the p-th if the p pages do not hold everything.
LEMMA MorePages ==
  ASSUME NEW n \in Nat, NEW p \in Nat
  PROVE  p < PagesOf(n) <=> p * Size < n
<1>. DEFINE q == PagesOf(n)
<1>1. q \in Nat /\ q * Size <= n + Size - 1 /\ n + Size - 1 < (q + 1) * Size
  <2>1. \A m \in Nat, k \in Nat \ {0} :
          m \div k \in Nat /\ (m \div k) * k <= m /\ m < ((m \div k) + 1) * k
    OBVIOUS
  <2>2. n + Size - 1 \in Nat /\ Size \in Nat \ {0}
    BY PageSize
  <2>. QED
    BY <2>1, <2>2 DEF PagesOf
<1>2. (q + 1) * Size = q * Size + Size /\ (p + 1) * Size = p * Size + Size
  BY <1>1, PageSize
<1>3. p * Size \in Nat /\ q * Size \in Nat
  BY <1>1, PageSize
<1>4. ASSUME p < q PROVE p * Size < n
  <2>1. (p + 1) * Size <= q * Size
    BY <1>1, <1>4, PagesGrow
  <2>. QED
    BY <1>1, <1>2, <1>3, <2>1, PageSize
<1>5. ASSUME ~(p < q) PROVE ~(p * Size < n)
  <2>1. q * Size <= p * Size
    BY <1>1, <1>5, PagesGrow
  <2>. QED
    BY <1>1, <1>2, <1>3, <2>1, PageSize
<1>. QED
  BY <1>4, <1>5

\* The rows before a page, and before the next one.
LEMMA Offsets ==
  ASSUME page \in Nat \ {0}
  PROVE  Offset \in Nat /\ Offset + Size = page * Size /\ page * Size \in Nat
BY PageSize DEF Offset

-----------------------------------------------------------------------------
\* The steps.

\* The facts of the table that the steps use.
LEMMA Table ==
  ASSUME TypeOK
  PROVE  /\ IsFiniteSet(Live) /\ Cardinality(Live) \in Nat
         /\ Cardinality(Live) <= Cardinality(Links) /\ Cardinality(Links) \in Nat
         /\ \A l \in Links : created[l] \in Nat
         /\ IsFiniteSet(arrived) /\ IsFiniteSet(departed) /\ IsFiniteSet(shifted)
         /\ IsFiniteSet(Beyond) /\ IsFiniteSet(Skipped)
         /\ Cardinality(arrived) \in Nat /\ Cardinality(departed) \in Nat
         /\ Cardinality(Beyond) \in Nat /\ Cardinality(Skipped) \in Nat
         /\ Cardinality(shifted \cap arrived) \in Nat
<1>1. \A S \in SUBSET Links :
        IsFiniteSet(S) /\ Cardinality(S) \in Nat /\ Cardinality(S) <= Cardinality(Links)
  BY FiniteLinks, Fewer
<1>2. /\ Live \in SUBSET Links /\ Beyond \in SUBSET Links /\ Skipped \in SUBSET Links
      /\ shifted \cap arrived \in SUBSET Links
  BY DEF Live, Beyond, Skipped, TypeOK
<1>3. \A l \in Links : created[l] \in Nat
  BY ClockBound DEF TypeOK
<1>4. Cardinality(Links) \in Nat
  BY FiniteLinks, FS_CardinalityType
<1>. QED
  BY <1>1, <1>2, <1>3, <1>4 DEF TypeOK

\* In a walk without ties no two links of the table have one created_at.
LEMMA Untied ==
  ASSUME HistoryTrue, pc # "idle", ~Tied
  PROVE  Apart(Live)
BY DEF HistoryTrue, Tied, Apart

\* What one step may do with the clock and with the types.
LEMMA TypeStep ==
  ASSUME TypeOK, Next
  PROVE  TypeOK'
<1>. USE ClockBound, PageSize DEF TypeOK
<1>1. CASE Tick
  BY <1>1 DEF Tick, history
<1>2. ASSUME NEW l \in Links, BeginCreate(l) PROVE TypeOK'
  BY <1>2 DEF BeginCreate, history
<1>3. ASSUME NEW l \in Links, CommitCreate(l) PROVE TypeOK'
  BY <1>3 DEF CommitCreate
<1>4. ASSUME NEW l \in Links, CommitDelete(l) PROVE TypeOK'
  BY <1>4 DEF CommitDelete
<1>5. CASE StartWalk
  BY <1>5 DEF StartWalk, table, Live
<1>6. CASE Count
  <2>1. Cardinality(Live) \in 0..Cardinality(Links)
    BY Table
  <2>. QED
    BY <1>6, <2>1 DEF Count, table
<1>7. CASE Rows
  <2>1. listed' \in [Links -> Nat]
    BY <1>7 DEF Rows
  <2>2. ASSUME page < PagesOf(total), page' = page + 1
        PROVE  page' \in Nat \ {0} /\ (page' - 1) * Size < Cardinality(Links)
    <3>1. page * Size < total /\ page * Size \in Nat
      BY <2>2, MorePages
    <3>2. Cardinality(Links) \in Nat
      BY Table
    <3>. QED
      BY <2>2, <3>1, <3>2
  <2>3. \/ /\ page < PagesOf(total) /\ page' = page + 1 /\ pc' = "count"
        \/ page' = page /\ pc' = "idle"
    BY <1>7 DEF Rows
  <2>4. page' \in Nat \ {0} /\ (page' > 1 => (page' - 1) * Size < Cardinality(Links))
    BY <2>2, <2>3
  <2>. QED
    BY <1>7, <2>1, <2>3, <2>4 DEF Rows, table, history
<1>. QED
  BY <1>1, <1>2, <1>3, <1>4, <1>5, <1>6, <1>7 DEF Next

\* The history tells of links that have been committed once.
LEMMA HistoryStep ==
  ASSUME TypeOK, HistoryTrue, Next
  PROVE  HistoryTrue'
<1>. USE DEF TypeOK, HistoryTrue, Live, Shown
<1>1. CASE Tick
  BY <1>1 DEF Tick, history
<1>2. ASSUME NEW l \in Links, BeginCreate(l) PROVE HistoryTrue'
  BY <1>2 DEF BeginCreate, history
<1>3. ASSUME NEW l \in Links, CommitCreate(l) PROVE HistoryTrue'
  BY <1>3 DEF CommitCreate
<1>4. ASSUME NEW l \in Links, CommitDelete(l) PROVE HistoryTrue'
  BY <1>4 DEF CommitDelete
<1>5. CASE StartWalk
  BY <1>5 DEF StartWalk, table
<1>6. CASE Count
  BY <1>6 DEF Count, table
<1>7. CASE Rows
  <2>1. PICK skipped \in Newest(Offset, Live) : \E items \in Newest(Size, Live \ skipped) :
          listed' = [l \in Links |-> IF l \in items THEN listed[l] + 1 ELSE listed[l]]
    BY <1>7 DEF Rows
  <2>2. PICK items \in Newest(Size, Live \ skipped) :
          listed' = [l \in Links |-> IF l \in items THEN listed[l] + 1 ELSE listed[l]]
    BY <2>1
  <2>3. items \subseteq Live
    BY <2>2 DEF Newest
  <2>4. Shown' \subseteq Shown \cup Live
    BY <2>2, <2>3
  <2>5. UNCHANGED <<status, steady, arrived, departed>> /\ pc # "idle"
    BY <1>7 DEF Rows, table, history
  <2>. QED
    BY <2>4, <2>5
<1>. QED
  BY <1>1, <1>2, <1>3, <1>4, <1>5, <1>6, <1>7 DEF Next

\* The total is off by what has been committed since, and exact if nothing has.
LEMMA TotalStep ==
  ASSUME TypeOK, HistoryTrue, TotalTrue, Next
  PROVE  TotalTrue'
<1>1. CASE Tick
  BY <1>1 DEF Tick, history, TotalTrue, Live
<1>2. ASSUME NEW l \in Links, BeginCreate(l) PROVE TotalTrue'
  <2>1. Live' = Live
    BY <1>2 DEF BeginCreate, TypeOK, Live
  <2>. QED
    BY <1>2, <2>1 DEF BeginCreate, history, TotalTrue
<1>3. ASSUME NEW l \in Links, CommitCreate(l) PROVE TotalTrue'
  <2>. SUFFICES ASSUME pc = "rows"
                PROVE  /\ Cardinality(Live') <= total + Cardinality((shifted \cap arrived)')
                       /\ shifted' # {}
    BY <1>3 DEF CommitCreate, TotalTrue
  <2>1. /\ Live' = Live \cup {l} /\ l \notin Live /\ l \notin shifted \cap arrived
        /\ (shifted \cap arrived)' = (shifted \cap arrived) \cup {l} /\ shifted' # {}
    BY <1>3 DEF CommitCreate, TypeOK, HistoryTrue, Live
  <2>2. Cardinality(Live') = Cardinality(Live) + 1
    BY <2>1, Table, OneMore
  <2>3. IsFiniteSet(shifted \cap arrived)
    BY Table, Fewer
  <2>4. Cardinality((shifted \cap arrived)') = Cardinality(shifted \cap arrived) + 1
    BY <2>1, <2>3, OneMore
  <2>. QED
    BY <2>1, <2>2, <2>4, Table DEF TotalTrue, TypeOK
<1>4. ASSUME NEW l \in Links, CommitDelete(l) PROVE TotalTrue'
  <2>. SUFFICES ASSUME pc = "rows"
                PROVE  /\ Cardinality(Live') <= total + Cardinality((shifted \cap arrived)')
                       /\ shifted' # {}
    BY <1>4 DEF CommitDelete, TotalTrue
  <2>1. /\ Live' \subseteq Live /\ shifted \cap arrived \subseteq (shifted \cap arrived)'
        /\ (shifted \cap arrived)' \subseteq arrived /\ shifted' # {}
    BY <1>4 DEF CommitDelete, TypeOK, Live
  <2>2. Cardinality(Live') <= Cardinality(Live) /\ Cardinality(Live') \in Nat
    BY <2>1, Table, Fewer
  <2>3. IsFiniteSet((shifted \cap arrived)')
    BY <2>1, Table, Fewer
  <2>4. /\ Cardinality(shifted \cap arrived) <= Cardinality((shifted \cap arrived)')
        /\ Cardinality((shifted \cap arrived)') \in Nat
    BY <2>1, <2>3, Fewer
  <2>. QED
    BY <2>1, <2>2, <2>4, Table DEF TotalTrue, TypeOK
<1>5. CASE StartWalk
  BY <1>5 DEF StartWalk, TotalTrue
<1>6. CASE Count
  <2>1. Live' = Live /\ total' = Cardinality(Live) /\ (shifted \cap arrived)' = {}
    BY <1>6 DEF Count, table, Live
  <2>. QED
    BY <2>1, Table, FS_EmptySet DEF TotalTrue
<1>7. CASE Rows
  BY <1>7 DEF Rows, TotalTrue
<1>. QED
  BY <1>1, <1>2, <1>3, <1>4, <1>5, <1>6, <1>7 DEF Next

\* A commit during a walk without ties: the history and the pages move together.
LEMMA MovesByCommit ==
  ASSUME TypeOK, HistoryTrue, IsFiniteSet(Repeats), Moves, HistoryTrue', NEW x \in Links,
         CommitCreate(x) \/ CommitDelete(x), pc # "idle", ~Tied'
  PROVE  /\ Cardinality(Repeats) + Cardinality(Beyond') <= Cardinality(arrived')
         /\ Cardinality(Skipped') <= Cardinality(departed')
<1>1. /\ Repeats' = Repeats /\ Shown' = Shown /\ Offset' = Offset /\ created' = created
      /\ listed' = listed /\ pc' = pc
  BY DEF CommitCreate, CommitDelete, Repeats, Shown, Offset
<1>2. Met \subseteq Met'
  BY DEF CommitCreate, CommitDelete, Met
<1>3. ~Tied
  BY <1>1, <1>2 DEF Tied, Met
<1>4. Offset \in Nat
  BY Offsets DEF TypeOK
<1>5. /\ IsFiniteSet(Live) /\ \A l \in Links : created[l] \in Nat
      /\ Cardinality(Repeats) \in Nat
  BY Table, FS_CardinalityType
<1>6. /\ Cardinality(Repeats) + Cardinality(Beyond) <= Cardinality(arrived)
      /\ Cardinality(Skipped) <= Cardinality(departed)
  BY <1>3 DEF Moves
<1>7. CASE CommitCreate(x)
  <2>1. /\ Live' = Live \cup {x} /\ x \notin Live /\ x \notin Shown /\ x \notin arrived
        /\ arrived' = arrived \cup {x} /\ steady' = steady /\ departed' = departed
        /\ x \notin steady
    BY <1>7 DEF CommitCreate, TypeOK, HistoryTrue, Live
  <2>2. Apart(Live \cup {x}) /\ \A l \in Live \cup {x} : created[l] \in Nat
    BY <1>1, <1>5, <2>1 DEF HistoryTrue, Tied, Apart, Live
  <2>3. /\ Top(Offset, Live \cup {x}) \cap Live \subseteq Top(Offset, Live)
        /\ \E R : /\ IsFiniteSet(R) /\ Cardinality(R) \in Nat /\ Cardinality(R) <= 1
                  /\ Top(Offset, Live) \subseteq Top(Offset, Live \cup {x}) \cup R
    BY <1>4, <1>5, <2>1, <2>2, Arrival
  <2>4. PICK R : /\ IsFiniteSet(R) /\ Cardinality(R) \in Nat /\ Cardinality(R) <= 1
                 /\ Top(Offset, Live) \subseteq Top(Offset, Live \cup {x}) \cup R
    BY <2>3
  <2>5. Top(Offset, Live)' = Top(Offset, Live \cup {x})
    BY <1>1, <2>1 DEF Top, Above
  <2>6. Beyond' \subseteq Beyond \cup R
    BY <1>1, <2>1, <2>4, <2>5 DEF Beyond
  <2>7. Cardinality(Beyond') \in Nat /\ Cardinality(Beyond') <= Cardinality(Beyond) + 1
    BY <2>4, <2>6, Covered, Table
  <2>8. Cardinality(arrived') = Cardinality(arrived) + 1
    BY <2>1, OneMore, Table
  <2>9. Skipped' \subseteq Skipped
    BY <1>1, <2>1, <2>3, <2>5 DEF Skipped, HistoryTrue
  <2>10. Cardinality(Skipped') <= Cardinality(Skipped) /\ Cardinality(Skipped') \in Nat
    BY <2>9, Fewer, Table
  <2>. QED
    BY <1>5, <1>6, <2>1, <2>7, <2>8, <2>10, Table
<1>8. CASE CommitDelete(x)
  <2>1. /\ Live' = Live \ {x} /\ x \in Live /\ x \notin departed
        /\ arrived' = arrived /\ steady' = steady \ {x} /\ departed' = departed \cup {x}
    BY <1>8 DEF CommitDelete, TypeOK, HistoryTrue, Live
  <2>2. Apart(Live) /\ \A l \in Live : created[l] \in Nat
    BY <1>3, <1>5, Untied DEF Live
  <2>3. /\ Top(Offset, Live) \ {x} \subseteq Top(Offset, Live \ {x})
        /\ \E R : /\ IsFiniteSet(R) /\ Cardinality(R) \in Nat /\ Cardinality(R) <= 1
                  /\ Top(Offset, Live \ {x}) \subseteq Top(Offset, Live) \cup R
    BY <1>4, <1>5, <2>1, <2>2, Departure
  <2>4. PICK R : /\ IsFiniteSet(R) /\ Cardinality(R) \in Nat /\ Cardinality(R) <= 1
                 /\ Top(Offset, Live \ {x}) \subseteq Top(Offset, Live) \cup R
    BY <2>3
  <2>5. Top(Offset, Live)' = Top(Offset, Live \ {x})
    BY <1>1, <2>1 DEF Top, Above
  <2>6. Skipped' \subseteq Skipped \cup R
    BY <1>1, <2>1, <2>4, <2>5 DEF Skipped
  <2>7. Cardinality(Skipped') \in Nat /\ Cardinality(Skipped') <= Cardinality(Skipped) + 1
    BY <2>4, <2>6, Covered, Table
  <2>8. Cardinality(departed') = Cardinality(departed) + 1
    BY <2>1, OneMore, Table
  <2>9. Beyond' \subseteq Beyond
    BY <1>1, <2>1, <2>3, <2>5 DEF Beyond
  <2>10. Cardinality(Beyond') <= Cardinality(Beyond) /\ Cardinality(Beyond') \in Nat
    BY <2>9, Fewer, Table
  <2>. QED
    BY <1>5, <1>6, <2>1, <2>7, <2>8, <2>10, Table
<1>. QED
  BY <1>7, <1>8

\* The rows of a response, and those before them.
PageOf(skipped, items) ==
  /\ skipped \in Newest(Offset, Live) /\ items \in Newest(Size, Live \ skipped)
  /\ listed' = [l \in Links |-> IF l \in items THEN listed[l] + 1 ELSE listed[l]]

\* A response repeats what it shows of the links that were shown before.
LEMMA RepeatsGrow ==
  ASSUME TypeOK, IsFiniteSet(Repeats), NEW skipped, NEW items, PageOf(skipped, items)
  PROVE  /\ IsFiniteSet(Repeats') /\ IsFiniteSet(items \cap Shown)
         /\ Cardinality(Repeats) \in Nat /\ Cardinality(Repeats') \in Nat
         /\ Cardinality(items \cap Shown) \in Nat
         /\ Cardinality(Repeats') <= Cardinality(Repeats) + Cardinality(items \cap Shown)
<1>. DEFINE again == items \cap Shown
            f == [l \in again |-> <<l, listed[l] + 1>>]
            E == {f[l] : l \in again}
<1>1. items \subseteq Links /\ again \subseteq Links
  BY DEF PageOf, Newest, Live, Shown
<1>2. IsFiniteSet(again) /\ Cardinality(again) \in Nat
  BY <1>1, Fewer, FiniteLinks
<1>3. f \in Surjection(again, E)
  BY DEF Surjection
<1>4. IsFiniteSet(E) /\ Cardinality(E) \in Nat /\ Cardinality(E) <= Cardinality(again)
  <2>. HIDE DEF f, E, again
  <2>. QED
    BY <1>2, <1>3, FS_Surjection, FS_CardinalityType
<1>5. Repeats' \subseteq Repeats \cup E
  <2>. SUFFICES ASSUME NEW l \in Links, NEW k \in 2..listed'[l], <<l, k>> \notin Repeats
                PROVE  <<l, k>> \in E
    BY DEF Repeats
  <2>1. listed[l] \in Nat /\ listed'[l] \in {listed[l], listed[l] + 1}
    BY DEF TypeOK, PageOf
  <2>2. ~(k <= listed[l])
    BY <2>1 DEF Repeats
  <2>3. k = listed[l] + 1 /\ l \in items /\ listed[l] > 0
    BY <2>1, <2>2 DEF PageOf
  <2>4. l \in again
    BY <2>3 DEF Shown
  <2>. QED
    BY <2>3, <2>4
<1>6. IsFiniteSet(Repeats') /\ Cardinality(Repeats') <= Cardinality(Repeats) + Cardinality(E)
  <2>. HIDE DEF E
  <2>. QED
    BY <1>4, <1>5, Covered
<1>. QED
  BY <1>2, <1>4, <1>6, FS_CardinalityType

\* A response without ties: it moves the pages by the rows it shows.
LEMMA PageMoves ==
  ASSUME TypeOK, HistoryTrue, pc # "idle", ~Tied, NEW skipped, NEW items, PageOf(skipped, items)
  PROVE  LET seen == Top(Offset + Size, Live)
         IN  /\ skipped = Top(Offset, Live) /\ skipped \cup items = seen /\ seen \subseteq Live
             /\ items \cap skipped = {}
             /\ Cardinality(seen) = AtMost(Offset + Size, Live)
             /\ items \cap Shown \subseteq Beyond
             /\ {l \in Live \cap Shown' : l \notin seen} \subseteq Beyond \ (items \cap Shown)
             /\ {l \in steady \ Shown' : l \in seen} \subseteq Skipped
             /\ {l \in steady : listed'[l] = 0} \subseteq Skipped \cup (Live \ seen)
<1>1. /\ IsFiniteSet(Live) /\ \A l \in Live : created[l] \in Nat
      /\ Apart(Live) /\ Offset \in Nat /\ Size \in Nat /\ Offset + Size \in Nat
  BY Table, Untied, Offsets, PageSize DEF TypeOK, Live
<1>2. skipped = Top(Offset, Live)
  BY <1>1, NewestIsTop DEF PageOf
<1>3. skipped \cup items \in Newest(Offset + Size, Live)
  BY <1>1, NextPage DEF PageOf
<1>4. skipped \cup items = Top(Offset + Size, Live)
  BY <1>1, <1>3, NewestIsTop
<1>5. /\ skipped \cup items \subseteq Live /\ items \cap skipped = {}
      /\ Cardinality(skipped \cup items) = AtMost(Offset + Size, Live)
  BY <1>3 DEF PageOf, Newest
<1>6. /\ Shown' = Shown \cup items
      /\ \A l \in Links : listed'[l] = 0 <=> l \notin Shown'
  BY <1>5 DEF TypeOK, PageOf, Shown, Live
<1>7. steady \subseteq Live /\ Live \subseteq Links
  BY DEF HistoryTrue, Live
<1>. QED
  BY <1>2, <1>4, <1>5, <1>6, <1>7 DEF Beyond, Skipped

\* A response that says there is another page.
LEMMA MovesByPage ==
  ASSUME TypeOK, HistoryTrue, IsFiniteSet(Repeats), Moves, pc # "idle", ~Tied,
         UNCHANGED <<status, created, steady, arrived, departed>>, page' = page + 1,
         NEW skipped, NEW items, PageOf(skipped, items)
  PROVE  /\ Cardinality(Repeats') + Cardinality(Beyond') <= Cardinality(arrived')
         /\ Cardinality(Skipped') <= Cardinality(departed')
<1>. DEFINE seen == Top(Offset + Size, Live)
            again == items \cap Shown
<1>1. Offset' = Offset + Size /\ Live' = Live
  BY PageSize DEF Offset, TypeOK, Live
<1>2. Top(Offset, Live)' = seen
  BY <1>1 DEF Top, Above
<1>3. /\ again \subseteq Beyond /\ {l \in Live \cap Shown' : l \notin seen} \subseteq Beyond \ again
      /\ {l \in steady \ Shown' : l \in seen} \subseteq Skipped
  BY PageMoves
<1>4. Beyond' \subseteq Beyond \ again /\ Skipped' \subseteq Skipped
  BY <1>1, <1>2, <1>3 DEF Beyond, Skipped
<1>5. /\ IsFiniteSet(Beyond \ again) /\ Cardinality(Beyond \ again) \in Nat
      /\ Cardinality(Beyond) = Cardinality(again) + Cardinality(Beyond \ again)
  BY <1>3, Remainder, Table
<1>6. Cardinality(Beyond') \in Nat /\ Cardinality(Beyond') <= Cardinality(Beyond \ again)
  BY <1>4, <1>5, Fewer
<1>7. Cardinality(Skipped') \in Nat /\ Cardinality(Skipped') <= Cardinality(Skipped)
  BY <1>4, Table, Fewer
<1>8. /\ Cardinality(again) \in Nat /\ Cardinality(Repeats) \in Nat /\ Cardinality(Repeats') \in Nat
      /\ Cardinality(Repeats') <= Cardinality(Repeats) + Cardinality(again)
  BY RepeatsGrow
<1>9. /\ Cardinality(Repeats) + Cardinality(Beyond) <= Cardinality(arrived)
      /\ Cardinality(Skipped) <= Cardinality(departed)
  BY DEF Moves
<1>. HIDE DEF again
<1>. QED
  BY <1>5, <1>6, <1>7, <1>8, <1>9, Table

\* The last response of a walk.
LEMMA LastPage ==
  ASSUME TypeOK, HistoryTrue, TotalTrue, IsFiniteSet(Repeats), Moves, pc = "rows", ~Tied,
         ~(page < PagesOf(total)), NEW skipped, NEW items, PageOf(skipped, items)
  PROVE  /\ Cardinality(Repeats') <= Cardinality(arrived)
         /\ Cardinality({l \in steady : listed'[l] = 0})
              <= Cardinality(departed) + Cardinality(shifted \cap arrived)
<1>. DEFINE seen == Top(Offset + Size, Live)
            again == items \cap Shown
            missed == {l \in steady : listed'[l] = 0}
<1>1. /\ again \subseteq Beyond
      /\ missed \subseteq Skipped \cup (Live \ seen) /\ seen \subseteq Live
      /\ Cardinality(seen) = AtMost(Offset + Size, Live)
  BY PageMoves
<1>2. /\ Cardinality(Repeats) + Cardinality(Beyond) <= Cardinality(arrived)
      /\ Cardinality(Skipped) <= Cardinality(departed)
  BY DEF Moves
<1>3. /\ Cardinality(again) \in Nat /\ Cardinality(Repeats) \in Nat /\ Cardinality(Repeats') \in Nat
      /\ Cardinality(Repeats') <= Cardinality(Repeats) + Cardinality(again)
  BY RepeatsGrow
<1>4. Cardinality(again) <= Cardinality(Beyond)
  BY <1>1, Table, Fewer
<1>5. /\ IsFiniteSet(Live \ seen) /\ Cardinality(Live \ seen) \in Nat
      /\ Cardinality(Live) = Cardinality(seen) + Cardinality(Live \ seen)
  BY <1>1, Table, Remainder
<1>6. /\ Cardinality(missed) \in Nat
      /\ Cardinality(missed) <= Cardinality(Skipped) + Cardinality(Live \ seen)
  BY <1>1, <1>5, Table, Covered
<1>7. total <= Offset + Size /\ Offset + Size \in Nat /\ total \in Nat
  <2>1. total \in Nat /\ page \in Nat \ {0}
    BY Table DEF TypeOK
  <2>2. ~(page * Size < total)
    BY <2>1, MorePages
  <2>. QED
    BY <2>1, <2>2, Offsets
<1>8. Cardinality(Live \ seen) <= Cardinality(shifted \cap arrived)
  <2>1. Cardinality(Live) <= total + Cardinality(shifted \cap arrived)
    BY DEF TotalTrue
  <2>. HIDE DEF seen
  <2>. QED
    BY <1>1, <1>5, <1>7, <2>1, Table DEF AtMost
<1>. HIDE DEF seen, again, missed
<1>9. Cardinality(Repeats') <= Cardinality(arrived)
  BY <1>2, <1>3, <1>4, Table
<1>10. Cardinality(missed) <= Cardinality(departed) + Cardinality(shifted \cap arrived)
  BY <1>2, <1>5, <1>6, <1>8, Table
<1>. QED
  BY <1>9, <1>10 DEF missed

\* What the bounds are about is the same after a step that leaves the walk alone.
LEMMA Frozen ==
  ASSUME TypeOK, HistoryTrue, IsFiniteSet(Repeats), Moves, RepeatsBounded, MissesBounded,
         \A l \in steady \cup arrived \cup departed \cup Shown \cup Live : created'[l] = created[l],
         Live' = Live \/ pc = "idle",
         UNCHANGED <<page, listed, steady, arrived, departed>>,
         \/ pc' = pc /\ shifted' = shifted
         \/ pc = "count" /\ pc' = "rows"
  PROVE  IsFiniteSet(Repeats') /\ Moves' /\ RepeatsBounded' /\ MissesBounded'
<1>1. Repeats' = Repeats /\ Shown' = Shown /\ Offset' = Offset /\ Tied' = Tied
  BY DEF Repeats, Shown, Offset, Tied
<1>2. ASSUME pc # "idle" PROVE Beyond' = Beyond /\ Skipped' = Skipped
  <2>1. Live' = Live /\ \A l \in Live : created'[l] = created[l]
    BY <1>2
  <2>2. \A l \in Live : Above(l, Live)' = Above(l, Live)
    BY <2>1 DEF Above
  <2>3. Top(Offset, Live)' = Top(Offset, Live)
    BY <1>1, <2>1, <2>2 DEF Top
  <2>. QED
    BY <1>1, <2>1, <2>3 DEF Beyond, Skipped
<1>3. Moves'
  BY <1>1, <1>2 DEF Moves
<1>4. RepeatsBounded' /\ MissesBounded'
  BY <1>1 DEF RepeatsBounded, MissesBounded
<1>. QED
  BY <1>1, <1>3, <1>4

\* The bounds after a step that leaves the client in its walk.
LEMMA InWalk ==
  ASSUME TypeOK', IsFiniteSet(Repeats'), Moves', pc' # "idle"
  PROVE  RepeatsBounded' /\ MissesBounded'
<1>1. Beyond' \subseteq Links /\ arrived' \subseteq Links
  BY DEF Beyond, Live, TypeOK
<1>2. Cardinality(Beyond') \in Nat /\ Cardinality(arrived') \in Nat
  BY <1>1, FiniteLinks, Fewer
<1>3. Cardinality(Repeats') \in Nat
  BY FS_CardinalityType
<1>. QED
  BY <1>2, <1>3 DEF Moves, RepeatsBounded, MissesBounded

\* What each step does to the bounds.
LEMMA MovesStep ==
  ASSUME TypeOK, HistoryTrue, TotalTrue, IsFiniteSet(Repeats), Moves, RepeatsBounded,
         MissesBounded, Next, TypeOK', HistoryTrue'
  PROVE  IsFiniteSet(Repeats') /\ Moves' /\ RepeatsBounded' /\ MissesBounded'
<1>1. CASE Tick
  BY <1>1, Frozen DEF Tick, history, Live
<1>2. ASSUME NEW l \in Links, BeginCreate(l)
      PROVE  IsFiniteSet(Repeats') /\ Moves' /\ RepeatsBounded' /\ MissesBounded'
  <2>1. Live' = Live /\ l \notin steady \cup arrived \cup departed \cup Shown \cup Live
    BY <1>2 DEF BeginCreate, TypeOK, HistoryTrue, Live
  <2>2. /\ \A m \in steady \cup arrived \cup departed \cup Shown \cup Live :
             created'[m] = created[m]
        /\ UNCHANGED <<page, listed, steady, arrived, departed, pc, shifted>>
    BY <1>2, <2>1 DEF BeginCreate, TypeOK, history, Shown, Live
  <2>. QED
    BY <2>1, <2>2, Frozen
<1>3. ASSUME NEW x \in Links, CommitCreate(x) \/ CommitDelete(x)
      PROVE  IsFiniteSet(Repeats') /\ Moves' /\ RepeatsBounded' /\ MissesBounded'
  <2>1. CASE pc = "idle"
    BY <1>3, <2>1, Frozen DEF CommitCreate, CommitDelete
  <2>2. CASE pc # "idle"
    <3>1. Repeats' = Repeats /\ pc' = pc
      BY <1>3 DEF CommitCreate, CommitDelete, Repeats
    <3>2. Moves'
      BY <1>3, <2>2, <3>1, MovesByCommit DEF Moves
    <3>. QED
      BY <2>2, <3>1, <3>2, InWalk
  <2>. QED
    BY <2>1, <2>2
<1>4. CASE StartWalk
  <2>1. /\ page' = 1 /\ \A l \in Links : listed'[l] = 0
        /\ pc' = "count"
    BY <1>4 DEF StartWalk
  <2>2. Repeats' = {} /\ Offset' = 0 /\ Shown' = {}
    BY <2>1, PageSize DEF Repeats, Offset, Shown
  <2>3. \A l \in Live' : Cardinality(Above(l, Live)') \in Nat
    <3>1. \A l \in Live : Cardinality(Above(l, Live)) \in Nat
      BY Table, Fewer DEF Above
    <3>2. Live' = Live /\ created' = created
      BY <1>4 DEF StartWalk, table, Live
    <3>. QED
      BY <3>1, <3>2 DEF Above
  <2>4. Top(Offset, Live)' = {}
    BY <2>2, <2>3 DEF Top
  <2>5. Beyond' = {} /\ Skipped' = {}
    BY <2>2, <2>4 DEF Beyond, Skipped
  <2>6. arrived' = {} /\ departed' = {}
    BY <1>4 DEF StartWalk
  <2>7. IsFiniteSet(Repeats') /\ Moves'
    BY <2>2, <2>5, <2>6, FS_EmptySet DEF Moves
  <2>. QED
    BY <2>1, <2>7, InWalk
<1>5. CASE Count
  BY <1>5, Frozen DEF Count, table, Live
<1>6. CASE Rows
  <2>1. PICK skipped, items : PageOf(skipped, items)
    <3>1. \E skipped \in Newest(Offset, Live) : \E items \in Newest(Size, Live \ skipped) :
            listed' = [l \in Links |-> IF l \in items THEN listed[l] + 1 ELSE listed[l]]
      BY <1>6 DEF Rows
    <3>. QED
      BY <3>1 DEF PageOf
  <2>2. /\ pc = "rows" /\ UNCHANGED <<status, created, steady, arrived, departed, shifted>>
        /\ \/ page < PagesOf(total) /\ pc' = "count" /\ page' = page + 1
           \/ ~(page < PagesOf(total)) /\ pc' = "idle"
    BY <1>6 DEF Rows, table, history
  <2>3. Tied' = Tied
    BY <2>2 DEF Tied
  <2>4. IsFiniteSet(Repeats')
    BY <2>1, RepeatsGrow
  <2>5. CASE pc' = "count"
    <3>1. Moves'
      BY <2>1, <2>2, <2>3, <2>5, MovesByPage DEF Moves
    <3>. QED
      BY <2>4, <2>5, <3>1, InWalk
  <2>6. CASE pc' = "idle"
    <3>1. ~Tied => /\ Cardinality(Repeats') <= Cardinality(arrived)
                   /\ Cardinality({l \in steady : listed'[l] = 0})
                        <= Cardinality(departed) + Cardinality(shifted \cap arrived)
      BY <2>1, <2>2, <2>6, LastPage
    <3>2. RepeatsBounded' /\ MissesBounded'
      BY <2>2, <2>3, <3>1 DEF RepeatsBounded, MissesBounded
    <3>. QED
      BY <2>4, <2>6, <3>2 DEF Moves
  <2>. QED
    BY <2>2, <2>5, <2>6
<1>. QED
  BY <1>1, <1>2, <1>3, <1>4, <1>5, <1>6 DEF Next

-----------------------------------------------------------------------------
\* Inv holds in every state that links can be created, deleted and listed into.
THEOREM Invariance == Spec => []Inv
<1>1. Init => Inv
  <2>. SUFFICES ASSUME Init PROVE Inv
    OBVIOUS
  <2>1. TypeOK
    <3>1. 0 \in 0..Cardinality(Links)
      BY FiniteLinks, FS_CardinalityType
    <3>. QED
      BY <3>1, ClockBound DEF Init, TypeOK
  <2>2. HistoryTrue /\ TotalTrue /\ Moves
    BY DEF Init, HistoryTrue, TotalTrue, Moves, Shown
  <2>3. Repeats = {} /\ {l \in steady : listed[l] = 0} = {} /\ arrived = {}
    BY DEF Init, Repeats
  <2>. QED
    BY <2>1, <2>2, <2>3, FS_EmptySet, Table DEF Inv, RepeatsBounded, MissesBounded
<1>2. Inv /\ [Next]_vars => Inv'
  <2>. SUFFICES ASSUME Inv, [Next]_vars PROVE Inv'
    OBVIOUS
  <2>1. CASE Next
    BY <2>1, TypeStep, HistoryStep, TotalStep, MovesStep DEF Inv
  <2>2. CASE UNCHANGED vars
    <3>1. TypeOK' /\ HistoryTrue' /\ TotalTrue'
      BY <2>2 DEF Inv, vars, TypeOK, HistoryTrue, TotalTrue, Shown, Live
    <3>2. IsFiniteSet(Repeats') /\ Moves' /\ RepeatsBounded' /\ MissesBounded'
      BY <2>2, Frozen DEF Inv, vars, Live
    <3>. QED
      BY <3>1, <3>2 DEF Inv
  <2>. QED
    BY <2>1, <2>2
<1>. QED
  BY <1>1, <1>2, PTL DEF Spec

\* Every variable keeps to its type, and no page is asked for beyond the links there are.
THEOREM TypeCorrect == Spec => []TypeOK
<1>1. Inv => TypeOK
  BY DEF Inv
<1>. QED
  BY <1>1, Invariance, PTL

\* However links come and go while list_by_owner is asked for one page after another, the
\* rows that were in an earlier page are no more than the links that arrived, if no two
\* links have one created_at.
THEOREM RepeatsAreFew == Spec => []RepeatsBounded
<1>1. Inv => RepeatsBounded
  BY DEF Inv
<1>. QED
  BY <1>1, Invariance, PTL

\* The links that such a walk over list_by_owner has missed are no more than those that
\* were deleted meanwhile and those that arrived between the statements of the last
\* response, if no two links have one created_at.
THEOREM MissesAreFew == Spec => []MissesBounded
<1>1. Inv => MissesBounded
  BY DEF Inv
<1>. QED
  BY <1>1, Invariance, PTL

\* A response of list_by_owner holds as many rows as its total promises for the page,
\* unless a link came or went between the COUNT and the SELECT of get_by_owner.
THEOREM TotalsAreTrue == Spec => TotalsAgree
<1>. DEFINE shown == {l \in Links : listed'[l] > listed[l]}
            left  == IF Offset < total THEN total - Offset ELSE 0
            Full  == pc = "rows" /\ pc' # "rows" /\ shifted = {}
                       => Cardinality(shown) = IF left < Size THEN left ELSE Size
<1>1. Inv /\ [Next]_vars => [Full]_vars
  <2>. SUFFICES ASSUME Inv, Next, pc = "rows", pc' # "rows", shifted = {}
                PROVE  Cardinality(shown) = IF left < Size THEN left ELSE Size
    OBVIOUS
  <2>. USE DEF Inv
  <2>1. Rows
    BY DEF Next, Tick, BeginCreate, CommitCreate, CommitDelete, StartWalk, Count
  <2>2. PICK skipped, items : PageOf(skipped, items)
    <3>1. \E skipped \in Newest(Offset, Live) : \E items \in Newest(Size, Live \ skipped) :
            listed' = [l \in Links |-> IF l \in items THEN listed[l] + 1 ELSE listed[l]]
      BY <2>1 DEF Rows
    <3>. QED
      BY <3>1 DEF PageOf
  <2>3. /\ skipped \subseteq Live /\ Cardinality(skipped) = AtMost(Offset, Live)
        /\ items \subseteq Live /\ Cardinality(items) = AtMost(Size, Live \ skipped)
    BY <2>2 DEF PageOf, Newest
  <2>4. shown = items
    BY <2>2, <2>3 DEF PageOf, TypeOK, Live
  <2>5. /\ Cardinality(Live \ skipped) \in Nat
        /\ Cardinality(Live) = Cardinality(skipped) + Cardinality(Live \ skipped)
    BY <2>3, Table, Remainder
  <2>6. Cardinality(Live) = total /\ total \in Nat
    BY Table DEF TotalTrue
  <2>7. Offset \in Nat /\ Size \in Nat
    BY Offsets, PageSize DEF TypeOK
  <2>8. Cardinality(skipped) = IF Offset < total THEN Offset ELSE total
    BY <2>3, <2>6 DEF AtMost
  <2>9. Cardinality(Live \ skipped) = left /\ left \in Nat
    BY <2>5, <2>6, <2>7, <2>8
  <2>10. Cardinality(items) = IF Size < left THEN Size ELSE left
    BY <2>3, <2>9 DEF AtMost
  <2>. HIDE DEF shown, left
  <2>. QED
    BY <2>4, <2>7, <2>9, <2>10
<1>. QED
  BY <1>1, Invariance, PTL DEF Spec, TotalsAgree

=============================================================================
