---------------------------- MODULE LinksProofs ----------------------------
(***************************************************************************)
(* Theorems about Links, for every set of links, codes, requests and users,*)
(* and the proof that its table implements LinkRegistry.                   *)
(***************************************************************************)
EXTENDS Links, TLAPS

\* A request working on a link has one, a request working on a code has one:
\* what the types of rows and cache entries rest on.
Typed == TypeOK /\ RequestsPlaced

USE AdminsAreUsers, BoundsAreNat, NoneIsNothing

\* The initial rows, cache and requests have their types.
LEMMA TypedInit == Init => Typed
BY DEF Init, Typed, TypeOK, RequestsPlaced, BlankRow, BlankForm, Row, Form, Status, Deadlines,
       Pcs, WorkingPcs, CodedPcs, CreatePcs, UpdatePcs, DeletePcs

\* Ending a request keeps the types, whatever it wrote to the rows.
LEMMA TypedAnswer ==
  ASSUME Typed, NEW r \in Reqs, Answer(r), rows' \in [Ids -> Row],
         UNCHANGED <<cache, now>>
  PROVE  Typed'
BY DEF Answer, Goto, Typed, TypeOK, RequestsPlaced, BlankForm, Form, Deadlines,
       Pcs, WorkingPcs, CodedPcs, CreatePcs, UpdatePcs, DeletePcs

\* So does moving a request on to a step whose operands it already has.
LEMMA TypedPass ==
  ASSUME Typed, NEW r \in Reqs, NEW there \in Pcs, Pass(r, there),
         there \in WorkingPcs => link[r] \in Ids,
         there \in CodedPcs => code[r] \in Codes,
         there # "warm"
  PROVE  Typed'
BY DEF Pass, Goto, Typed, TypeOK, RequestsPlaced

\* So does opening a request with well-typed operands.
LEMMA TypedBegin ==
  ASSUME Typed, NEW r \in Reqs, NEW there \in Pcs, NEW c \in Codes \cup {None},
         NEW i \in Ids \cup {None}, NEW f \in Form, Begin(r, there, c, i, f),
         there \in WorkingPcs => i \in Ids,
         there \in CodedPcs => c \in Codes,
         there # "warm"
  PROVE  Typed'
BY DEF Begin, Goto, Typed, TypeOK, RequestsPlaced

\* So does deleting a key of the cache (URLCache.delete).
LEMMA TypedPurge ==
  ASSUME Typed, NEW r \in Reqs, NEW there \in Pcs, NEW key, Purge(r, key, there),
         there \in WorkingPcs, link[r] \in Ids, there \notin CodedPcs
  PROVE  Typed'
<1>1. raced' \in [Reqs -> BOOLEAN]
  BY DEF Purge, Typed, TypeOK
<1>2. TypeOK'
  BY <1>1 DEF Purge, Goto, Typed, TypeOK
<1>3. there # "warm"
  BY DEF CodedPcs
<1>. QED
  BY <1>2, <1>3 DEF Purge, Goto, Typed, TypeOK, RequestsPlaced

\* So does an early return or an error answer.
LEMMA TypedRefuse ==
  ASSUME Typed, NEW r \in Reqs, Refuse(r)
  PROVE  Typed'
BY TypedAnswer DEF Refuse, Typed, TypeOK

\* So does the arrival of any of the four requests.
LEMMA TypedStart ==
  ASSUME Typed, NEW r \in Reqs, Start(r)
  PROVE  Typed'
<1>. USE DEF Pcs, CreatePcs, UpdatePcs, DeletePcs, RedirectPcs, WorkingPcs, CodedPcs
<1>1. CASE StartCreate(r)
  <2>1. PICK i \in Ids, u \in Users \cup {None}, c \in Codes \cup {None}, d \in Deadlines :
          Begin(r, IF c = None THEN "probe" ELSE "check_alias", c, i,
                [user |-> u, custom |-> c # None, active |-> None, deadline |-> d])
    BY <1>1 DEF StartCreate
  <2>2. [user |-> u, custom |-> c # None, active |-> None, deadline |-> d] \in Form
    BY DEF Form
  <2>. QED
    BY <2>1, <2>2, TypedBegin
<1>2. CASE StartUpdate(r)
  <2>1. PICK i \in Ids, u \in Users, a \in BOOLEAN \cup {None}, d \in Deadlines :
          Begin(r, "load_update", None, i,
                [user |-> u, custom |-> FALSE, active |-> a, deadline |-> d])
    BY <1>2 DEF StartUpdate
  <2>2. [user |-> u, custom |-> FALSE, active |-> a, deadline |-> d] \in Form
    BY DEF Form
  <2>. QED
    BY <2>1, <2>2, TypedBegin
<1>3. CASE StartDelete(r)
  <2>1. PICK i \in Ids, u \in Users :
          Begin(r, "load_delete", None, i, [BlankForm EXCEPT !.user = u])
    BY <1>3 DEF StartDelete
  <2>2. [BlankForm EXCEPT !.user = u] \in Form
    BY DEF Form, BlankForm, Deadlines
  <2>. QED
    BY <2>1, <2>2, TypedBegin
<1>4. CASE StartRedirect(r)
  <2>1. PICK c \in Codes : Begin(r, "get", c, None, BlankForm)
    BY <1>4 DEF StartRedirect
  <2>2. BlankForm \in Form
    BY DEF Form, BlankForm, Deadlines
  <2>. QED
    BY <2>1, <2>2, TypedBegin
<1>. QED
  BY <1>1, <1>2, <1>3, <1>4 DEF Start

\* A row whose status changes is a row.
LEMMA RowStatus ==
  ASSUME NEW w \in Row, NEW s \in Status
  PROVE  [w EXCEPT !.status = s] \in Row
BY DEF Row

\* A row whose active flag and deadline change is a row.
LEMMA RowContent ==
  ASSUME NEW w \in Row, NEW a \in BOOLEAN, NEW d \in Deadlines
  PROVE  [w EXCEPT !.active = a, !.deadline = d] \in Row
BY DEF Row

\* Request data whose patch changes is request data.
LEMMA FormContent ==
  ASSUME NEW f \in Form, NEW a \in BOOLEAN \cup {None}, NEW d \in Deadlines
  PROVE  [f EXCEPT !.active = a, !.deadline = d] \in Form
BY DEF Form

\* A row that changes in status only is still a row.
LEMMA RowsStatus ==
  ASSUME Typed, NEW i \in Ids, NEW s \in Status,
         rows' = [rows EXCEPT ![i].status = s]
  PROVE  rows' \in [Ids -> Row]
BY RowStatus DEF Typed, TypeOK

\* Every step of URLService.create keeps the types.
LEMMA TypedCreate ==
  ASSUME Typed, NEW r \in Reqs, CreateStep(r)
  PROVE  Typed'
<1>. USE DEF Pcs, CreatePcs, UpdatePcs, DeletePcs, RedirectPcs, WorkingPcs, CodedPcs
<1>1. CASE CheckAlias(r)
  BY <1>1, TypedRefuse, TypedPass DEF CheckAlias, Typed, RequestsPlaced
<1>2. CASE Probe(r)
  <2>1. CASE Refuse(r)
    BY <2>1, TypedRefuse
  <2>2. CASE ~Refuse(r)
    <3>1. PICK c \in Codes :
            IF ShortCodeExists(c)
            THEN /\ tries[r] # MaxRetries
                 /\ tries' = [tries EXCEPT ![r] = @ + 1]
                 /\ UNCHANGED <<rows, cache, now, pc, code, link, form, stamp, raced>>
            ELSE /\ code' = [code EXCEPT ![r] = c]
                 /\ Goto(r, "insert")
                 /\ UNCHANGED <<rows, cache, now, link, form, tries, stamp, raced>>
      BY <1>2, <2>2 DEF Probe
    <3>2. pc[r] = "probe" /\ link[r] \in Ids
      BY <1>2 DEF Probe, Typed, RequestsPlaced
    <3>3. CASE ShortCodeExists(c)
      <4>1. tries[r] + 1 \in 0..MaxRetries
        BY <3>1, <3>3 DEF Typed, TypeOK
      <4>. QED
        BY <3>1, <3>3, <4>1 DEF Typed, TypeOK, RequestsPlaced
    <3>4. CASE ~ShortCodeExists(c)
      BY <3>1, <3>2, <3>4 DEF Goto, Typed, TypeOK, RequestsPlaced
    <3>. QED
      BY <3>3, <3>4
  <2>. QED
    BY <2>1, <2>2
<1>3. CASE Insert(r)
  <2>1. CASE Refuse(r)
    BY <2>1, TypedRefuse
  <2>2. CASE ~Refuse(r)
    <3>1. link[r] \in Ids /\ code[r] \in Codes /\ form[r] \in Form
      BY <1>3 DEF Insert, Typed, TypeOK, RequestsPlaced
    <3>2. [status |-> "pending", code |-> code[r],
           alias |-> IF form[r].custom THEN code[r] ELSE None,
           owner |-> form[r].user, active |-> TRUE, deadline |-> form[r].deadline] \in Row
      BY <3>1 DEF Row, Form, Status
    <3>3. OnlyCaller(form[r]) \in Form
      BY <3>1 DEF OnlyCaller, BlankForm, Form, Deadlines
    <3>4. TypeOK'
      <4>1. rows' \in [Ids -> Row]
        BY <1>3, <2>2, <3>2 DEF Insert, Typed, TypeOK
      <4>2. tries' \in [Reqs -> 0..MaxRetries]
        <5>1. 0 \in 0..MaxRetries
          OBVIOUS
        <5>. QED
          BY <1>3, <2>2, <5>1 DEF Insert, Typed, TypeOK
      <4>. QED
        BY <1>3, <2>2, <3>3, <4>1, <4>2 DEF Insert, Goto, Typed, TypeOK
    <3>. QED
      BY <1>3, <2>2, <3>1, <3>4 DEF Insert, Goto, Typed, TypeOK, RequestsPlaced
  <2>. QED
    BY <2>1, <2>2
<1>4. CASE FillOnCreate(r)
  <2>1. link[r] \in Ids
    BY <1>4 DEF FillOnCreate, Typed, RequestsPlaced
  <2>2. Payload(link[r], FALSE) \in Entry
    BY <2>1 DEF Payload, Entry, Typed, TypeOK, Row
  <2>. QED
    BY <1>4, <2>1, <2>2 DEF FillOnCreate, Goto, Typed, TypeOK, RequestsPlaced
<1>5. CASE CommitCreate(r)
  <2>1. rows' \in [Ids -> Row]
    BY <1>5, RowsStatus DEF CommitCreate, Typed, RequestsPlaced, Status
  <2>. QED
    BY <1>5, <2>1, TypedAnswer DEF CommitCreate
<1>. QED
  BY <1>1, <1>2, <1>3, <1>4, <1>5 DEF CreateStep

\* Every step of URLService.update keeps the types.
LEMMA TypedUpdate ==
  ASSUME Typed, NEW r \in Reqs, UpdateStep(r)
  PROVE  Typed'
<1>. USE DEF Pcs, CreatePcs, UpdatePcs, DeletePcs, RedirectPcs, WorkingPcs, CodedPcs
<1>1. CASE LoadForUpdate(r)
  <2>1. CASE Refuse(r)
    BY <2>1, TypedRefuse
  <2>2. CASE ~Refuse(r)
    <3>. DEFINE Changed(old, new) == IF new = old THEN None ELSE new
                f == [form[r] EXCEPT
                        !.active = Changed(rows[link[r]].active, form[r].active),
                        !.deadline = Changed(rows[link[r]].deadline, form[r].deadline)]
    <3>1. form' = [form EXCEPT ![r] = f] /\ Goto(r, "flush_update")
          /\ UNCHANGED <<rows, cache, now, code, link, tries, stamp, raced>>
      BY <1>1, <2>2 DEF LoadForUpdate, Typed, TypeOK
    <3>2. f \in Form
      <4>1. /\ form[r] \in Form
            /\ Changed(rows[link[r]].active, form[r].active) \in BOOLEAN \cup {None}
            /\ Changed(rows[link[r]].deadline, form[r].deadline) \in Deadlines
        BY DEF Form, Typed, TypeOK, Deadlines
      <4>. QED
        BY <4>1, FormContent
    <3>3. pc[r] = "load_update" /\ link[r] \in Ids
      BY <1>1 DEF LoadForUpdate, Typed, RequestsPlaced
    <3>. HIDE DEF f
    <3>. QED
      BY <3>1, <3>2, <3>3 DEF Goto, Typed, TypeOK, RequestsPlaced
  <2>. QED
    BY <2>1, <2>2
<1>2. CASE FlushUpdate(r)
  BY <1>2, TypedRefuse, TypedPass DEF FlushUpdate, Typed, RequestsPlaced
<1>3. CASE PurgeOnUpdate(r)
  BY <1>3, TypedPurge DEF PurgeOnUpdate, Typed, RequestsPlaced
<1>4. CASE CommitUpdate(r)
  <2>1. rows' \in [Ids -> Row]
    <3>. DEFINE Written(old, new) == IF new = None THEN old ELSE new
                a == Written(rows[link[r]].active, form[r].active)
                d == Written(rows[link[r]].deadline, form[r].deadline)
    <3>1. link[r] \in Ids
      BY <1>4 DEF CommitUpdate, Typed, RequestsPlaced
    <3>2. a \in BOOLEAN /\ d \in Deadlines
      BY <3>1 DEF Typed, TypeOK, Row, Form
    <3>3. rows' = [rows EXCEPT ![link[r]] = [rows[link[r]] EXCEPT !.active = a, !.deadline = d]]
      BY <1>4, <3>1 DEF CommitUpdate, Typed, TypeOK
    <3>. HIDE DEF a, d
    <3>4. [rows[link[r]] EXCEPT !.active = a, !.deadline = d] \in Row
      BY <3>1, <3>2, RowContent DEF Typed, TypeOK
    <3>. QED
      BY <3>3, <3>4 DEF Typed, TypeOK
  <2>. QED
    BY <1>4, <2>1, TypedAnswer DEF CommitUpdate
<1>. QED
  BY <1>1, <1>2, <1>3, <1>4 DEF UpdateStep

\* Every step of URLService.delete keeps the types.
LEMMA TypedDelete ==
  ASSUME Typed, NEW r \in Reqs, DeleteStep(r)
  PROVE  Typed'
<1>. USE DEF Pcs, CreatePcs, UpdatePcs, DeletePcs, RedirectPcs, WorkingPcs, CodedPcs
<1>1. CASE LoadForDelete(r)
  BY <1>1, TypedRefuse, TypedPass DEF LoadForDelete, Typed, RequestsPlaced
<1>2. CASE PurgeOnDelete(r)
  BY <1>2, TypedPurge DEF PurgeOnDelete, Typed, RequestsPlaced
<1>3. CASE FlushDelete(r)
  BY <1>3, TypedPass DEF FlushDelete, Typed, RequestsPlaced
<1>4. CASE CommitDelete(r)
  <2>1. rows' \in [Ids -> Row]
    BY <1>4, RowsStatus DEF CommitDelete, Typed, RequestsPlaced, Status
  <2>. QED
    BY <1>4, <2>1, TypedAnswer DEF CommitDelete
<1>. QED
  BY <1>1, <1>2, <1>3, <1>4 DEF DeleteStep

\* Every step of RedirectService.resolve and its tasks keeps the types.
LEMMA TypedRedirect ==
  ASSUME Typed, NEW r \in Reqs, RedirectStep(r)
  PROVE  Typed'
<1>. USE DEF Pcs, CreatePcs, UpdatePcs, DeletePcs, RedirectPcs, WorkingPcs, CodedPcs
<1>1. CASE CacheGet(r)
  <2>1. CASE Refuse(r)
    BY <2>1, TypedRefuse
  <2>2. CASE ~Refuse(r)
    <3>1. code[r] \in Codes
      BY <1>1 DEF CacheGet, Typed, RequestsPlaced
    <3>2. CASE cache[code[r]] = None
      BY <1>1, <3>1, <3>2 DEF CacheGet, Goto, Typed, TypeOK, RequestsPlaced
    <3>3. CASE cache[code[r]] # None
      <4>1. cache[code[r]].id \in Ids
        BY <3>1, <3>3 DEF Typed, TypeOK, Entry
      <4>. QED
        BY <1>1, <2>2, <3>1, <3>3, <4>1 DEF CacheGet, Goto, Typed, TypeOK, RequestsPlaced
    <3>. QED
      BY <3>2, <3>3
  <2>. QED
    BY <2>1, <2>2
<1>2. CASE Select(r)
  <2>1. CASE Refuse(r)
    BY <2>1, TypedRefuse
  <2>2. CASE ~Refuse(r)
    <3>1. PICK i \in Ids :
            /\ link' = [link EXCEPT ![r] = i]
            /\ form' = [form EXCEPT ![r].active = rows[i].active,
                                    ![r].deadline = rows[i].deadline]
            /\ raced' = [raced EXCEPT ![r] = \E q \in Reqs : Exposed(q, i)]
            /\ stamp' = [stamp EXCEPT ![r] = 0]
            /\ Goto(r, "warm")
            /\ UNCHANGED <<rows, cache, now, code, tries>>
      BY <1>2, <2>2 DEF Select
    <3>2. form' \in [Reqs -> Form] /\ form'[r].active \in BOOLEAN
      <4>1. rows[i].active \in BOOLEAN /\ rows[i].deadline \in Deadlines
        BY DEF Typed, TypeOK, Row
      <4>2. [form[r] EXCEPT !.active = rows[i].active, !.deadline = rows[i].deadline] \in Form
        BY <4>1, FormContent DEF Typed, TypeOK
      <4>3. form' = [form EXCEPT ![r] =
               [form[r] EXCEPT !.active = rows[i].active, !.deadline = rows[i].deadline]]
        BY <3>1 DEF Typed, TypeOK
      <4>. QED
        BY <4>1, <4>2, <4>3 DEF Typed, TypeOK, Form
    <3>3. raced' \in [Reqs -> BOOLEAN]
      BY <3>1 DEF Typed, TypeOK
    <3>4. TypeOK'
      <4>1. stamp' \in [Reqs -> 0..MaxNow]
        BY <3>1 DEF Typed, TypeOK
      <4>. QED
        BY <3>1, <3>2, <3>3, <4>1 DEF Goto, Typed, TypeOK
    <3>5. code[r] \in Codes
      BY <1>2 DEF Select, Typed, RequestsPlaced
    <3>. QED
      BY <3>1, <3>2, <3>4, <3>5 DEF Goto, Typed, TypeOK, RequestsPlaced
  <2>. QED
    BY <2>1, <2>2
<1>3. CASE Warm(r)
  <2>1. [id |-> link[r], active |-> form[r].active,
         deadline |-> form[r].deadline, raced |-> raced[r]] \in Entry
    BY <1>3 DEF Warm, Entry, Form, Typed, TypeOK, RequestsPlaced
  <2>2. BlankForm \in Form
    BY DEF Form, BlankForm, Deadlines
  <2>3. TypeOK'
    BY <1>3, <2>1, <2>2 DEF Warm, Goto, Typed, TypeOK
  <2>. QED
    BY <1>3, <2>3 DEF Warm, Goto, Typed, TypeOK, RequestsPlaced
<1>4. CASE Track(r)
  BY <1>4, TypedPass DEF Track
<1>5. CASE Enqueue(r)
  BY <1>5, TypedRefuse DEF Enqueue
<1>. QED
  BY <1>1, <1>2, <1>3, <1>4, <1>5 DEF RedirectStep

\* Failures, crashes, evictions and the clock keep the types.
LEMMA TypedFaults ==
  ASSUME Typed,
         \/ \E r \in Reqs : Fail(r)
         \/ Crash
         \/ \E c \in Codes : Evict(c)
         \/ Tick
  PROVE  Typed'
<1>. USE DEF Pcs, CreatePcs, UpdatePcs, DeletePcs, RedirectPcs, WorkingPcs, CodedPcs
<1>0. \A i \in Ids : RolledBack(i) \in Row
  BY RowStatus DEF RolledBack, Typed, TypeOK, Status
<1>1. ASSUME NEW r \in Reqs, Fail(r) PROVE Typed'
  <2>1. rows' \in [Ids -> Row]
    BY <1>0, <1>1 DEF Fail, Typed, TypeOK, RequestsPlaced
  <2>. QED
    BY <1>1, <2>1, TypedAnswer DEF Fail
<1>2. CASE Crash
  BY <1>0, <1>2 DEF Crash, Typed, TypeOK, RequestsPlaced, BlankForm, Form, Deadlines
<1>3. ASSUME NEW c \in Codes, Evict(c) PROVE Typed'
  BY <1>3 DEF Evict, Typed, TypeOK, RequestsPlaced
<1>4. CASE Tick
  BY <1>4 DEF Tick, Typed, TypeOK, RequestsPlaced
<1>. QED
  BY <1>1, <1>2, <1>3, <1>4

\* All steps together, and the stuttering step.
LEMMA TypedStep == Typed /\ [Next]_vars => Typed'
<1>1. CASE UNCHANGED vars
  BY <1>1 DEF vars, Typed, TypeOK, RequestsPlaced
<1>2. ASSUME Typed, Next PROVE Typed'
  BY <1>2, TypedStart, TypedCreate, TypedUpdate, TypedDelete, TypedRedirect, TypedFaults
     DEF Next, Step
<1>. QED
  BY <1>1, <1>2

\* TypeOK is an invariant: every row, entry and request stays well formed through
\* every handler, failure and crash, whatever the constants.
THEOREM TypeCorrect == Spec => []TypeOK
<1>1. Typed => TypeOK
  BY DEF Typed
<1>. QED
  BY <1>1, TypedInit, TypedStep, PTL DEF Spec

-----------------------------------------------------------------------------
\* The inductive invariant.
Inv == TypeOK /\ IndInv

\* The invariant contains the typing that the step lemmas above rest on.
LEMMA InvTyped == Inv => Typed
BY DEF Inv, IndInv, Typed

\* The invariant holds of the empty tables and the empty cache.
LEMMA InvInit == Init => Inv
<1>1. Init => TypeOK /\ RequestsPlaced
  BY TypedInit DEF Typed
<1>2. Init => RowsWellFormed /\ KeysUnique /\ RequestsConsistent /\ CreatorsApart /\ LocksHeld
  BY DEF Init, RowsWellFormed, KeysUnique, RequestsConsistent, CreatorsApart, LocksHeld,
         BlankRow, BlankForm, CreatePcs, UpdatePcs, DeletePcs, FlushedPcs, Changes
<1>3. Init => CacheWellFormed /\ ExposureCaught /\ PayloadsFresh /\ StaleOnlyByOverlap
  BY DEF Init, CacheWellFormed, ExposureCaught, PayloadsFresh, StaleOnlyByOverlap
<1>. QED
  BY <1>1, <1>2, <1>3 DEF Inv, IndInv

\* What a request that is over leaves behind keeps the invariant.
LEMMA RefuseKeeps ==
  ASSUME Inv, NEW r \in Reqs, Refuse(r)
  PROVE  IndInv'
<1>. USE DEF CreatePcs, UpdatePcs, DeletePcs, FlushedPcs
<1>0. Typed'
  BY InvTyped, TypedRefuse
<1>1. /\ pc' = [pc EXCEPT ![r] = "idle"]
      /\ link' = [link EXCEPT ![r] = None]
      /\ code' = [code EXCEPT ![r] = None]
      /\ form' = [form EXCEPT ![r] = BlankForm]
      /\ raced' = [raced EXCEPT ![r] = FALSE]
      /\ UNCHANGED <<rows, cache>>
  BY DEF Refuse, Answer, Goto
<1>2. pc'[r] = "idle" /\ \A q \in Reqs \ {r} : /\ pc'[q] = pc[q] /\ link'[q] = link[q]
                                             /\ code'[q] = code[q] /\ form'[q] = form[q]
                                             /\ raced'[q] = raced[q]
  BY <1>1 DEF Inv, TypeOK
<1>3. RowsWellFormed' /\ KeysUnique'
  BY <1>1 DEF Inv, IndInv, RowsWellFormed, KeysUnique
<1>4. RequestsConsistent'
  BY <1>1, <1>2 DEF Inv, IndInv, RequestsConsistent, Published, Matches
<1>5. CreatorsApart'
  BY <1>2 DEF Inv, IndInv, CreatorsApart
<1>6. LocksHeld'
  BY <1>1, <1>2 DEF Inv, IndInv, LocksHeld, Changes, Live, HoldsRow
<1>7. CacheWellFormed'
  BY <1>1 DEF Inv, IndInv, CacheWellFormed, Matches
<1>8. ExposureCaught'
  BY <1>1, <1>2 DEF Inv, IndInv, ExposureCaught, Exposed
<1>9. PayloadsFresh'
  BY <1>1, <1>2 DEF Inv, IndInv, PayloadsFresh, Live
<1>10. StaleOnlyByOverlap'
  BY <1>1 DEF Inv, IndInv, StaleOnlyByOverlap, Uncommitted, Agrees, Live
<1>. QED
  BY <1>0, <1>3, <1>4, <1>5, <1>6, <1>7, <1>8, <1>9, <1>10 DEF IndInv, Typed

\* A request that begins keeps it: a create on a fresh id, an update or a delete
\* of a published one, a redirect of any code.
LEMMA BeginKeeps ==
  ASSUME Inv, NEW r \in Reqs, NEW there \in Pcs, NEW c \in Codes \cup {None},
         NEW i \in Ids \cup {None}, NEW f \in Form, Begin(r, there, c, i, f), Typed',
         \/ there \in {"check_alias", "probe"} /\ i \in Ids /\ FreshId(i)
         \/ there \in {"load_update", "load_delete"} /\ i \in Ids /\ Published(i)
         \/ there = "get"
  PROVE  IndInv'
<1>. USE DEF CreatePcs, UpdatePcs, DeletePcs, FlushedPcs
<1>1. /\ pc' = [pc EXCEPT ![r] = there]
      /\ link' = [link EXCEPT ![r] = i]
      /\ code' = [code EXCEPT ![r] = c]
      /\ form' = [form EXCEPT ![r] = f]
      /\ UNCHANGED <<rows, cache, raced>>
  BY DEF Begin, Goto
<1>2. /\ pc[r] = "idle" /\ pc'[r] = there /\ link'[r] = i
      /\ \A q \in Reqs \ {r} : /\ pc'[q] = pc[q] /\ link'[q] = link[q]
                               /\ code'[q] = code[q] /\ form'[q] = form[q]
  BY <1>1 DEF Begin, Inv, TypeOK
<1>3. RowsWellFormed' /\ KeysUnique'
  BY <1>1 DEF Inv, IndInv, RowsWellFormed, KeysUnique
<1>4. RequestsConsistent'
  BY <1>1, <1>2 DEF Inv, IndInv, RequestsConsistent, Published, Matches, FreshId
<1>5. CreatorsApart'
  BY <1>2 DEF Inv, IndInv, CreatorsApart, FreshId
<1>6. LocksHeld'
  BY <1>1, <1>2 DEF Inv, IndInv, LocksHeld, Changes, Live, HoldsRow
<1>7. CacheWellFormed'
  BY <1>1 DEF Inv, IndInv, CacheWellFormed, Matches
<1>8. ExposureCaught'
  BY <1>1, <1>2 DEF Inv, IndInv, ExposureCaught, Exposed
<1>9. PayloadsFresh'
  BY <1>1, <1>2 DEF Inv, IndInv, PayloadsFresh, Live
<1>10. StaleOnlyByOverlap'
  BY <1>1 DEF Inv, IndInv, StaleOnlyByOverlap, Uncommitted, Agrees, Live
<1>. QED
  BY <1>3, <1>4, <1>5, <1>6, <1>7, <1>8, <1>9, <1>10 DEF IndInv, Typed

\* A step that moves one program counter keeps it, if the request then meets what
\* RequestsConsistent, CreatorsApart and LocksHeld ask of its new place.
LEMMA PassKeeps ==
  ASSUME Inv, NEW r \in Reqs, NEW there \in Pcs, Pass(r, there), Typed',
         \/ pc[r] = "check_alias" /\ there = "insert"
         \/ pc[r] = "flush_update" /\ there = "purge_update" /\ Live(link[r])
            /\ (Changes(r) => ~RowBusy(r))
         \/ pc[r] = "load_delete" /\ there = "purge_delete" /\ Live(link[r])
         \/ pc[r] = "flush_delete" /\ there = "commit_delete" /\ ~RowBusy(r)
         \/ pc[r] = "track" /\ there = "enqueue"
  PROVE  IndInv'
<1>. USE DEF CreatePcs, UpdatePcs, DeletePcs, FlushedPcs
<1>1. /\ pc' = [pc EXCEPT ![r] = there]
      /\ UNCHANGED <<rows, cache, link, code, form, raced>>
  BY DEF Pass, Goto
<1>2. pc'[r] = there /\ \A q \in Reqs \ {r} : pc'[q] = pc[q]
  BY <1>1 DEF Inv, TypeOK
<1>3. RowsWellFormed' /\ KeysUnique'
  BY <1>1 DEF Inv, IndInv, RowsWellFormed, KeysUnique
<1>4. RequestsConsistent'
  BY <1>1, <1>2 DEF Inv, IndInv, RequestsConsistent, Published, Matches, Live
<1>5. CreatorsApart'
  BY <1>1, <1>2 DEF Inv, IndInv, CreatorsApart
<1>6. LocksHeld'
  BY <1>1, <1>2 DEF Inv, IndInv, LocksHeld, Changes, Live, HoldsRow, RowBusy
<1>7. CacheWellFormed'
  BY <1>1 DEF Inv, IndInv, CacheWellFormed, Matches
<1>8. ExposureCaught'
  BY <1>1, <1>2 DEF Inv, IndInv, ExposureCaught, Exposed
<1>9. PayloadsFresh'
  BY <1>1, <1>2 DEF Inv, IndInv, PayloadsFresh, Live
<1>10. StaleOnlyByOverlap'
  BY <1>1 DEF Inv, IndInv, StaleOnlyByOverlap, Uncommitted, Agrees, Live
<1>. QED
  BY <1>3, <1>4, <1>5, <1>6, <1>7, <1>8, <1>9, <1>10 DEF IndInv, Typed

\* A purge that is not a writer's last: only entries disappear.
LEMMA FirstPurgeKeeps ==
  ASSUME Inv, NEW r \in Reqs, NEW there \in Pcs, NEW key, Purge(r, key, there), Typed',
         \/ pc[r] = "purge_update" /\ there = "purge_update_alias"
         \/ pc[r] = "purge_delete" /\ there = "purge_delete_alias",
         rows[link[r]].alias # None
  PROVE  IndInv'
<1>. USE DEF CreatePcs, UpdatePcs, DeletePcs, FlushedPcs
<1>1. /\ pc' = [pc EXCEPT ![r] = there]
      /\ cache' = [cache EXCEPT ![key] = None]
      /\ UNCHANGED <<rows, link, code, form, raced>>
  BY DEF Purge, Goto
<1>2. pc'[r] = there /\ \A q \in Reqs \ {r} : pc'[q] = pc[q]
  BY <1>1 DEF Inv, TypeOK
<1>3. \A c \in Codes : cache'[c] # None => cache'[c] = cache[c]
  BY <1>1 DEF Inv, TypeOK
<1>4. RowsWellFormed' /\ KeysUnique'
  BY <1>1 DEF Inv, IndInv, RowsWellFormed, KeysUnique
<1>5. RequestsConsistent'
  BY <1>1, <1>2 DEF Inv, IndInv, RequestsConsistent, Published, Matches, Live
<1>6. CreatorsApart'
  BY <1>1, <1>2 DEF Inv, IndInv, CreatorsApart
<1>7. LocksHeld'
  BY <1>1, <1>2 DEF Inv, IndInv, LocksHeld, Changes, Live, HoldsRow
<1>8. CacheWellFormed'
  BY <1>1, <1>3 DEF Inv, IndInv, CacheWellFormed, Matches
<1>9. ExposureCaught'
  BY <1>1, <1>2, <1>3 DEF Inv, IndInv, ExposureCaught, Exposed
<1>10. PayloadsFresh'
  BY <1>1, <1>2 DEF Inv, IndInv, PayloadsFresh, Live
<1>11. StaleOnlyByOverlap'
  BY <1>1, <1>3 DEF Inv, IndInv, StaleOnlyByOverlap, Uncommitted, Agrees, Live
<1>. QED
  BY <1>4, <1>5, <1>6, <1>7, <1>8, <1>9, <1>10, <1>11 DEF IndInv, Typed

\* A writer's last purge: from here on its link has no entry, and whoever still
\* carries a payload of it is marked.
LEMMA LastPurgeKeeps ==
  ASSUME Inv, NEW r \in Reqs, NEW there \in Pcs, NEW key, Purge(r, key, there), Typed',
         \/ pc[r] \in {"purge_update", "purge_update_alias"} /\ there = "commit_update"
         \/ pc[r] \in {"purge_delete", "purge_delete_alias"} /\ there = "flush_delete",
         key = rows[link[r]].code
  PROVE  IndInv'
<1>. USE DEF CreatePcs, UpdatePcs, DeletePcs, FlushedPcs
<1>1. /\ pc' = [pc EXCEPT ![r] = there]
      /\ cache' = [cache EXCEPT ![key] = None]
      /\ raced' = [q \in Reqs |-> raced[q] \/ (pc[q] = "warm" /\ link[q] = link[r])]
      /\ UNCHANGED <<rows, link, code, form>>
  BY DEF Purge, Goto
<1>2. pc'[r] = there /\ \A q \in Reqs \ {r} : pc'[q] = pc[q]
  BY <1>1 DEF Inv, TypeOK
<1>3. \A c \in Codes : cache'[c] # None => cache'[c] = cache[c] /\ c # key
  BY <1>1 DEF Inv, TypeOK
<1>4. \A c \in Codes : cache'[c] # None => cache'[c].id # link[r]
  <2>1. RowsWellFormed /\ CacheWellFormed /\ Typed
    BY InvTyped DEF Inv, IndInv
  <2>2. link[r] \in Ids /\ rows[link[r]].status # "unborn"
    BY DEF Inv, IndInv, RequestsPlaced, RequestsConsistent, Published, WorkingPcs
  <2>. QED
    BY <1>3, <2>1, <2>2, NoneIsNothing DEF CacheWellFormed, RowsWellFormed, Matches
<1>5. \A q \in Reqs : pc'[q] = "warm" => /\ pc[q] = "warm"
                                         /\ raced'[q] = (raced[q] \/ link[q] = link[r])
  BY <1>1, <1>2
<1>6. RowsWellFormed' /\ KeysUnique'
  BY <1>1 DEF Inv, IndInv, RowsWellFormed, KeysUnique
<1>7. RequestsConsistent'
  BY <1>1, <1>2 DEF Inv, IndInv, RequestsConsistent, Published, Matches, Live
<1>8. CreatorsApart'
  BY <1>1, <1>2 DEF Inv, IndInv, CreatorsApart
<1>9. LocksHeld'
  BY <1>1, <1>2 DEF Inv, IndInv, LocksHeld, Changes, Live, HoldsRow
<1>10. CacheWellFormed'
  BY <1>1, <1>3 DEF Inv, IndInv, CacheWellFormed, Matches
<1>11. ExposureCaught'
  <2>1. \A q \in Reqs : \A c \in Codes :
          cache'[c] # None /\ Exposed(q, cache[c].id)' => cache'[c].raced
    BY <1>1, <1>2, <1>3, <1>4 DEF Inv, IndInv, ExposureCaught, Exposed
  <2>2. \A q \in Reqs : \A p \in Reqs :
          pc'[p] = "warm" /\ Exposed(q, link[p])' => raced'[p]
    BY <1>1, <1>2, <1>5 DEF Inv, IndInv, ExposureCaught, Exposed
  <2>. QED
    BY <2>1, <2>2 DEF ExposureCaught, Exposed
<1>12. PayloadsFresh'
  BY <1>1, <1>2, <1>5 DEF Inv, IndInv, PayloadsFresh, Live
<1>13. StaleOnlyByOverlap'
  BY <1>1, <1>3 DEF Inv, IndInv, StaleOnlyByOverlap, Uncommitted, Agrees, Live
<1>. QED
  BY <1>6, <1>7, <1>8, <1>9, <1>10, <1>11, <1>12, <1>13 DEF IndInv, Typed

\* An arriving request changes no row and no entry.
LEMMA StartKeeps ==
  ASSUME Inv, NEW r \in Reqs, Start(r)
  PROVE  IndInv'
<1>. USE DEF Pcs, CreatePcs, UpdatePcs, DeletePcs, RedirectPcs
<1>0. Typed'
  BY InvTyped, TypedStart
<1>1. CASE StartCreate(r)
  <2>1. PICK i \in Ids, u \in Users \cup {None}, c \in Codes \cup {None}, d \in Deadlines :
          FreshId(i) /\
          Begin(r, IF c = None THEN "probe" ELSE "check_alias", c, i,
                [user |-> u, custom |-> c # None, active |-> None, deadline |-> d])
    BY <1>1 DEF StartCreate
  <2>2. [user |-> u, custom |-> c # None, active |-> None, deadline |-> d] \in Form
    BY DEF Form
  <2>. QED
    BY <1>0, <2>1, <2>2, BeginKeeps
<1>2. CASE StartUpdate(r)
  <2>1. PICK i \in Ids, u \in Users, a \in BOOLEAN \cup {None}, d \in Deadlines :
          Published(i) /\
          Begin(r, "load_update", None, i,
                [user |-> u, custom |-> FALSE, active |-> a, deadline |-> d])
    BY <1>2 DEF StartUpdate
  <2>2. [user |-> u, custom |-> FALSE, active |-> a, deadline |-> d] \in Form
    BY DEF Form
  <2>. QED
    BY <1>0, <2>1, <2>2, BeginKeeps
<1>3. CASE StartDelete(r)
  <2>1. PICK i \in Ids, u \in Users :
          Published(i) /\ Begin(r, "load_delete", None, i, [BlankForm EXCEPT !.user = u])
    BY <1>3 DEF StartDelete
  <2>2. [BlankForm EXCEPT !.user = u] \in Form
    BY DEF Form, BlankForm, Deadlines
  <2>. QED
    BY <1>0, <2>1, <2>2, BeginKeeps
<1>4. CASE StartRedirect(r)
  <2>1. PICK c \in Codes : Begin(r, "get", c, None, BlankForm)
    BY <1>4 DEF StartRedirect
  <2>2. BlankForm \in Form
    BY DEF Form, BlankForm, Deadlines
  <2>. QED
    BY <1>0, <2>1, <2>2, BeginKeeps
<1>. QED
  BY <1>1, <1>2, <1>3, <1>4 DEF Start

\* The INSERT of a create: the unique index keeps open and live rows apart.
LEMMA InsertKeeps ==
  ASSUME Inv, NEW r \in Reqs, Insert(r), ~Refuse(r)
  PROVE  IndInv'
<1>. USE DEF CreatePcs, UpdatePcs, DeletePcs, FlushedPcs
<1>0. Typed'
  BY InvTyped, TypedCreate DEF CreateStep
<1>1. /\ pc[r] = "insert" /\ link[r] \in Ids /\ code[r] \in Codes
      /\ rows[link[r]].status = "unborn"
  BY DEF Insert, Inv, IndInv, RequestsPlaced, RequestsConsistent, WorkingPcs, CodedPcs
<1>. DEFINE i == link[r]
            row == [status |-> "pending", code |-> code[r],
                    alias |-> IF form[r].custom THEN code[r] ELSE None,
                    owner |-> form[r].user, active |-> TRUE, deadline |-> form[r].deadline]
<1>2. /\ rows' = [rows EXCEPT ![i] = row]
      /\ pc' = [pc EXCEPT ![r] = "fill"]
      /\ form' = [form EXCEPT ![r] = OnlyCaller(@)]
      /\ UNCHANGED <<cache, code, link, raced>>
      /\ ~KeyBusy(code[r]) /\ ~ShortCodeExists(code[r])
  BY DEF Insert, Goto
<1>3. /\ pc'[r] = "fill"
      /\ \A q \in Reqs \ {r} : pc'[q] = pc[q] /\ form'[q] = form[q]
      /\ rows'[i] = row
      /\ \A j \in Ids \ {i} : rows'[j] = rows[j]
  BY <1>1, <1>2 DEF Inv, TypeOK
<1>4. /\ row.status = "pending" /\ row.code = code[r] /\ row.active = TRUE
      /\ row.alias \in {None, code[r]}
  OBVIOUS
<1>5. \A q \in Reqs \ {r} : pc[q] \in CreatePcs => link[q] # i
  BY <1>1 DEF Inv, IndInv, CreatorsApart
<1>6. \A q \in Reqs \ {r} : pc[q] \in UpdatePcs \cup DeletePcs \cup {"warm"} => link[q] # i
  BY <1>1 DEF Inv, IndInv, RequestsConsistent, Published
<1>7. \A c \in Codes : cache[c] # None => cache[c].id # i /\ cache[c].id \in Ids
  BY <1>1 DEF Inv, IndInv, CacheWellFormed, TypeOK, Entry
<1>. HIDE DEF row, i
<1>8. RowsWellFormed'
  BY <1>1, <1>3, <1>4 DEF Inv, IndInv, RowsWellFormed
<1>9. KeysUnique'
  <2>1. \A j \in Ids : rows[j].status \in {"pending", "live"} => rows[j].code # code[r]
    BY <1>2 DEF KeyBusy, ShortCodeExists, Live, Matches
  <2>. QED
    BY <1>3, <1>4, <2>1 DEF Inv, IndInv, KeysUnique
<1>10. RequestsConsistent'
  BY <1>0, <1>1, <1>2, <1>3, <1>4, <1>5, <1>6
     DEF Inv, IndInv, RequestsConsistent, Published, Matches, Typed, RequestsPlaced, WorkingPcs, i
<1>11. CreatorsApart'
  BY <1>1, <1>2, <1>3 DEF Inv, IndInv, CreatorsApart
<1>12. LocksHeld'
  BY <1>1, <1>2, <1>3, <1>6 DEF Inv, IndInv, LocksHeld, Changes, Live, HoldsRow, RequestsPlaced, WorkingPcs
<1>13. CacheWellFormed'
  BY <1>2, <1>3, <1>7 DEF Inv, IndInv, CacheWellFormed, Matches
<1>14. ExposureCaught'
  BY <1>2, <1>3 DEF Inv, IndInv, ExposureCaught, Exposed
<1>15. PayloadsFresh'
  BY <1>2, <1>3, <1>6 DEF Inv, IndInv, PayloadsFresh, Live, RequestsPlaced, WorkingPcs
<1>16. StaleOnlyByOverlap'
  BY <1>2, <1>3, <1>7 DEF Inv, IndInv, StaleOnlyByOverlap, Uncommitted, Agrees, Live
<1>. QED
  BY <1>0, <1>8, <1>9, <1>10, <1>11, <1>12, <1>13, <1>14, <1>15, <1>16 DEF IndInv, Typed

\* The cache write of a create: its payload is that of its pending row.
LEMMA FillOnCreateKeeps ==
  ASSUME Inv, NEW r \in Reqs, FillOnCreate(r)
  PROVE  IndInv'
<1>. USE DEF CreatePcs, UpdatePcs, DeletePcs, FlushedPcs
<1>0. Typed'
  BY InvTyped, TypedCreate DEF CreateStep
<1>. DEFINE i == link[r]
            e == Payload(i, FALSE)
<1>1. /\ pc[r] = "fill" /\ i \in Ids /\ code[r] \in Codes
      /\ rows[i].status = "pending" /\ rows[i].code = code[r] /\ rows[i].active
  BY DEF FillOnCreate, Inv, IndInv, RequestsPlaced, RequestsConsistent, RowsWellFormed,
         WorkingPcs, CodedPcs
<1>2. /\ cache' = [cache EXCEPT ![code[r]] = e]
      /\ pc' = [pc EXCEPT ![r] = "commit_create"]
      /\ UNCHANGED <<rows, code, link, form, raced>>
  BY DEF FillOnCreate, Goto
<1>3. /\ pc'[r] = "commit_create"
      /\ \A q \in Reqs \ {r} : pc'[q] = pc[q]
      /\ cache'[code[r]] = e
      /\ \A c \in Codes \ {code[r]} : cache'[c] = cache[c]
  BY <1>1, <1>2 DEF Inv, TypeOK
<1>4. e.id = i /\ e.active = rows[i].active /\ e.deadline = rows[i].deadline
  BY DEF Payload
<1>5. \A q \in Reqs : pc[q] \in UpdatePcs \cup DeletePcs => link[q] # i
  BY <1>1 DEF Inv, IndInv, RequestsConsistent, Published
<1>. HIDE DEF e, i
<1>6. RowsWellFormed' /\ KeysUnique'
  BY <1>2 DEF Inv, IndInv, RowsWellFormed, KeysUnique
<1>7. RequestsConsistent'
  BY <1>1, <1>2, <1>3 DEF Inv, IndInv, RequestsConsistent, Published, Matches, i
<1>8. CreatorsApart'
  BY <1>1, <1>2, <1>3 DEF Inv, IndInv, CreatorsApart
<1>9. LocksHeld'
  BY <1>1, <1>2, <1>3 DEF Inv, IndInv, LocksHeld, Changes, Live, HoldsRow
<1>10. CacheWellFormed'
  <2>1. \A c \in Codes \ {code[r]} : cache'[c] # None =>
          /\ rows[cache[c].id].status # "unborn"
          /\ Matches(cache[c].id, c)
          /\ cache[c].active
          /\ rows[cache[c].id].status = "pending" =>
               cache[c].active = rows[cache[c].id].active /\ cache[c].deadline = rows[cache[c].id].deadline
    BY <1>3 DEF Inv, IndInv, CacheWellFormed
  <2>2. rows[e.id].status # "unborn" /\ Matches(e.id, code[r]) /\ e.active
    BY <1>1, <1>4 DEF Matches
  <2>3. SUFFICES ASSUME NEW c \in Codes, cache'[c] # None
                 PROVE  /\ rows[cache'[c].id].status # "unborn"
                        /\ Matches(cache'[c].id, c)
                        /\ cache'[c].active
                        /\ rows[cache'[c].id].status = "pending" =>
                             /\ cache'[c].active = rows[cache'[c].id].active
                             /\ cache'[c].deadline = rows[cache'[c].id].deadline
    BY <1>2 DEF CacheWellFormed, Matches
  <2>4. CASE c = code[r]
    BY <1>3, <1>4, <2>2, <2>4 DEF i
  <2>5. CASE c # code[r]
    BY <1>3, <2>1, <2>3, <2>5
  <2>. QED
    BY <2>4, <2>5
<1>11. ExposureCaught'
  BY <1>1, <1>2, <1>3, <1>4, <1>5 DEF Inv, IndInv, ExposureCaught, Exposed
<1>12. PayloadsFresh'
  BY <1>1, <1>2, <1>3 DEF Inv, IndInv, PayloadsFresh, Live
<1>13. StaleOnlyByOverlap'
  BY <1>1, <1>2, <1>3, <1>4 DEF Inv, IndInv, StaleOnlyByOverlap, Uncommitted, Agrees, Live
<1>. QED
  BY <1>0, <1>6, <1>7, <1>8, <1>9, <1>10, <1>11, <1>12, <1>13 DEF IndInv, Typed

\* What the steps that end a request and change one row have in common.
LEMMA EndedOthers ==
  ASSUME Inv, NEW r \in Reqs, Answer(r)
  PROVE  /\ pc'[r] = "idle" /\ link'[r] = None
         /\ \A q \in Reqs \ {r} : /\ pc'[q] = pc[q] /\ link'[q] = link[q]
                                  /\ code'[q] = code[q] /\ form'[q] = form[q]
                                  /\ raced'[q] = raced[q]
BY DEF Answer, Goto, Inv, TypeOK

\* The commit of a create: the row becomes live under a key of its own.
LEMMA CommitCreateKeeps ==
  ASSUME Inv, NEW r \in Reqs, CommitCreate(r)
  PROVE  IndInv'
<1>. USE DEF CreatePcs, UpdatePcs, DeletePcs, FlushedPcs
<1>0. Typed'
  BY InvTyped, TypedCreate DEF CreateStep
<1>. DEFINE i == link[r]
<1>1. pc[r] = "commit_create" /\ i \in Ids /\ rows[i].status = "pending" /\ cache' = cache
  BY DEF CommitCreate, Inv, IndInv, RequestsPlaced, RequestsConsistent, WorkingPcs
<1>2. /\ rows'[i] = [rows[i] EXCEPT !.status = "live"]
      /\ \A j \in Ids \ {i} : rows'[j] = rows[j]
  BY <1>1 DEF CommitCreate, Inv, TypeOK
<1>3. /\ rows'[i].status = "live" /\ rows'[i].code = rows[i].code
      /\ rows'[i].alias = rows[i].alias /\ rows'[i].active = rows[i].active
      /\ rows'[i].deadline = rows[i].deadline
  BY <1>1, <1>2 DEF Inv, TypeOK, Row
<1>4. /\ pc'[r] = "idle" /\ link'[r] = None
      /\ \A q \in Reqs \ {r} : /\ pc'[q] = pc[q] /\ link'[q] = link[q]
                               /\ code'[q] = code[q] /\ form'[q] = form[q]
                               /\ raced'[q] = raced[q]
  BY EndedOthers DEF CommitCreate
<1>5. \A q \in Reqs \ {r} : pc[q] \in CreatePcs => link[q] # i
  BY <1>1 DEF Inv, IndInv, CreatorsApart
<1>6. \A q \in Reqs \ {r} : pc[q] \in UpdatePcs \cup DeletePcs \cup {"warm"} => link[q] # i
  BY <1>1 DEF Inv, IndInv, RequestsConsistent, Published
<1>. HIDE DEF i
<1>7. RowsWellFormed'
  BY <1>1, <1>2, <1>3 DEF Inv, IndInv, RowsWellFormed
<1>8. KeysUnique'
  <2>1. \A j \in Ids : /\ rows'[j].code = rows[j].code
                       /\ rows'[j].status \in {"pending", "live"} =>
                            rows[j].status \in {"pending", "live"}
    BY <1>1, <1>2, <1>3
  <2>. QED
    BY <2>1 DEF Inv, IndInv, KeysUnique
<1>9. RequestsConsistent'
  BY <1>0, <1>1, <1>2, <1>3, <1>4, <1>5, <1>6
     DEF Inv, IndInv, RequestsConsistent, Published, Matches, Typed, RequestsPlaced, WorkingPcs
<1>10. CreatorsApart'
  BY <1>4 DEF Inv, IndInv, CreatorsApart
<1>11. LocksHeld'
  BY <1>2, <1>4, <1>6 DEF Inv, IndInv, LocksHeld, Changes, Live, HoldsRow, RequestsPlaced, WorkingPcs
<1>12. CacheWellFormed'
  <2>1. \A j \in Ids : /\ rows'[j].code = rows[j].code /\ rows'[j].alias = rows[j].alias
                       /\ rows'[j].status = "unborn" => rows[j].status = "unborn"
                       /\ rows'[j].status = "pending" => rows'[j] = rows[j]
    BY <1>1, <1>2, <1>3
  <2>2. \A c \in Codes : cache[c] # None => cache[c].id \in Ids
    BY DEF Inv, TypeOK, Entry
  <2>. QED
    BY <1>1, <2>1, <2>2 DEF Inv, IndInv, CacheWellFormed, Matches
<1>13. ExposureCaught'
  BY <1>1, <1>4 DEF Inv, IndInv, ExposureCaught, Exposed
<1>14. PayloadsFresh'
  BY <1>2, <1>4, <1>6 DEF Inv, IndInv, PayloadsFresh, Live, RequestsPlaced, WorkingPcs
<1>15. StaleOnlyByOverlap'
  <2>1. SUFFICES ASSUME NEW c \in Codes, cache[c] # None
                 PROVE  (cache[c].raced \/ Uncommitted(cache[c].id) \/ Agrees(cache[c]))'
    BY <1>1 DEF StaleOnlyByOverlap
  <2>2. cache[c].id \in Ids
    BY <2>1 DEF Inv, TypeOK, Entry
  <2>3. CASE cache[c].id = i
    BY <1>1, <1>3, <2>1, <2>3 DEF Inv, IndInv, CacheWellFormed, Agrees, Live
  <2>4. CASE cache[c].id # i
    BY <1>1, <1>2, <2>1, <2>2, <2>4 DEF Inv, IndInv, StaleOnlyByOverlap, Uncommitted, Agrees, Live
  <2>. QED
    BY <2>3, <2>4
<1>. QED
  BY <1>0, <1>7, <1>8, <1>9, <1>10, <1>11, <1>12, <1>13, <1>14, <1>15 DEF IndInv, Typed

\* Steps of one request that leave rows, cache and marks alone.
LEMMA QuietKeeps ==
  ASSUME Inv, NEW r \in Reqs, NEW there, Typed', UNCHANGED <<rows, cache, raced>>,
         pc' = [pc EXCEPT ![r] = there],
         \A q \in Reqs \ {r} : link'[q] = link[q] /\ code'[q] = code[q] /\ form'[q] = form[q],
         \/ pc[r] = "probe" /\ there \in {"probe", "insert"} /\ link'[r] = link[r]
         \/ pc[r] = "load_update" /\ there = "flush_update" /\ link'[r] = link[r] /\ Live(link[r])
         \/ pc[r] = "get" /\ there \in {"select", "track"}
  PROVE  IndInv'
<1>. USE DEF CreatePcs, UpdatePcs, DeletePcs, FlushedPcs
<1>1. pc'[r] = there /\ \A q \in Reqs \ {r} : pc'[q] = pc[q]
  BY DEF Inv, TypeOK
<1>2. RowsWellFormed' /\ KeysUnique'
  BY DEF Inv, IndInv, RowsWellFormed, KeysUnique
<1>3. RequestsConsistent'
  BY <1>1 DEF Inv, IndInv, RequestsConsistent, Published, Matches, Live
<1>4. CreatorsApart'
  BY <1>1 DEF Inv, IndInv, CreatorsApart
<1>5. LocksHeld'
  BY <1>1 DEF Inv, IndInv, LocksHeld, Changes, Live, HoldsRow
<1>6. CacheWellFormed'
  BY DEF Inv, IndInv, CacheWellFormed, Matches
<1>7. ExposureCaught'
  BY <1>1 DEF Inv, IndInv, ExposureCaught, Exposed
<1>8. PayloadsFresh'
  BY <1>1 DEF Inv, IndInv, PayloadsFresh, Live
<1>9. StaleOnlyByOverlap'
  BY DEF Inv, IndInv, StaleOnlyByOverlap, Uncommitted, Agrees, Live
<1>. QED
  BY <1>2, <1>3, <1>4, <1>5, <1>6, <1>7, <1>8, <1>9 DEF IndInv, Typed

\* The commit of an update or a delete: of the row it writes, whose id is x,
\* nothing unmarked is cached or on its way to the cache, and, if it changes,
\* nobody else holds it.
LEMMA CommitKeeps ==
  ASSUME Inv, NEW r \in Reqs, Typed', Answer(r), UNCHANGED cache,
         NEW x \in Ids, x = link[r], Exposed(r, x),
         \A j \in Ids \ {x} : rows'[j] = rows[j],
         rows'[x].code = rows[x].code, rows'[x].alias = rows[x].alias,
         \/ pc[r] = "commit_update" /\ rows'[x].status = rows[x].status
         \/ pc[r] = "commit_delete" /\ rows'[x].status = "gone"
  PROVE  IndInv'
<1>. USE DEF CreatePcs, UpdatePcs, DeletePcs, FlushedPcs
<1>1. pc[r] \in {"commit_update", "commit_delete"} /\ Published(x) /\ Published(x)'
  BY DEF Inv, IndInv, RequestsConsistent, Published
<1>2. /\ pc'[r] = "idle" /\ link'[r] = None
      /\ \A q \in Reqs \ {r} : /\ pc'[q] = pc[q] /\ link'[q] = link[q]
                               /\ code'[q] = code[q] /\ form'[q] = form[q]
                               /\ raced'[q] = raced[q]
  BY EndedOthers
<1>3. \A j \in Ids : /\ rows'[j].code = rows[j].code /\ rows'[j].alias = rows[j].alias
                     /\ rows'[j].status # rows[j].status =>
                          /\ j = x /\ pc[r] = "commit_delete"
                          /\ rows[j].status \in {"live", "gone"} /\ rows'[j].status = "gone"
                     /\ rows'[j].status \notin {"live", "gone"} => rows'[j] = rows[j]
  BY <1>1 DEF Published
<1>4. \A c \in Codes : cache[c] # None => cache[c].id \in Ids
  BY DEF Inv, TypeOK, Entry
<1>5. RowsWellFormed'
  BY <1>3 DEF Inv, IndInv, RowsWellFormed
<1>6. KeysUnique'
  BY <1>3 DEF Inv, IndInv, KeysUnique
<1>7. RequestsConsistent'
  BY <1>2, <1>3 DEF Inv, IndInv, RequestsConsistent, Published, Matches, RequestsPlaced, WorkingPcs
<1>8. CreatorsApart'
  BY <1>2 DEF Inv, IndInv, CreatorsApart
<1>9. LocksHeld'
  <2>1. SUFFICES ASSUME NEW q \in Reqs \ {r}, pc[q] \in FlushedPcs, Changes(q)
                 PROVE  /\ Live(link[q])'
                        /\ \A p \in Reqs \ {q} : link'[p] = link'[q] => ~HoldsRow(p)'
    BY <1>2 DEF LocksHeld, Changes
  <2>2. /\ Live(link[q]) /\ link[q] \in Ids
        /\ \A p \in Reqs \ {q} : link[p] = link[q] => ~HoldsRow(p)
    BY <2>1 DEF Inv, IndInv, LocksHeld, RequestsPlaced, WorkingPcs
  <2>3. pc[r] = "commit_delete" => link[q] # x
    BY <2>2 DEF HoldsRow
  <2>4. Live(link[q])'
    BY <1>2, <1>3, <2>2, <2>3 DEF Live
  <2>5. \A p \in Reqs \ {q} : link'[p] = link'[q] => ~HoldsRow(p)'
    BY <1>2, <2>2 DEF HoldsRow, Changes
  <2>. QED
    BY <2>4, <2>5
<1>10. CacheWellFormed'
  BY <1>1, <1>3, <1>4 DEF Inv, IndInv, CacheWellFormed, Matches, Published
<1>11. ExposureCaught'
  BY <1>2 DEF Inv, IndInv, ExposureCaught, Exposed
<1>12. PayloadsFresh'
  <2>1. SUFFICES ASSUME NEW q \in Reqs \ {r}, pc[q] = "warm", ~raced[q]
                 PROVE  (/\ Live(link[q])
                         /\ form[q].active = rows[link[q]].active
                         /\ form[q].deadline = rows[link[q]].deadline)'
    BY <1>2 DEF PayloadsFresh
  <2>2. link[q] # x /\ link[q] \in Ids
    BY <2>1 DEF Inv, IndInv, ExposureCaught, RequestsPlaced, WorkingPcs
  <2>. QED
    BY <1>2, <2>1, <2>2 DEF Inv, IndInv, PayloadsFresh, Live
<1>13. StaleOnlyByOverlap'
  <2>1. SUFFICES ASSUME NEW c \in Codes, cache[c] # None, ~cache[c].raced
                 PROVE  (Uncommitted(cache[c].id) \/ Agrees(cache[c]))'
    BY DEF StaleOnlyByOverlap
  <2>2. cache[c].id # x
    BY <2>1 DEF Inv, IndInv, ExposureCaught
  <2>. QED
    BY <1>4, <2>1, <2>2 DEF Inv, IndInv, StaleOnlyByOverlap, Uncommitted, Agrees, Live
<1>. QED
  BY <1>5, <1>6, <1>7, <1>8, <1>9, <1>10, <1>11, <1>12, <1>13 DEF IndInv, Typed

\* Every step of URLService.create keeps the invariant.
LEMMA CreateKeeps ==
  ASSUME Inv, NEW r \in Reqs, CreateStep(r)
  PROVE  IndInv'
<1>0. Typed'
  BY InvTyped, TypedCreate
<1>1. CASE CheckAlias(r)
  BY <1>0, <1>1, RefuseKeeps, PassKeeps DEF CheckAlias, Pcs, CreatePcs
<1>2. CASE Probe(r)
  <2>1. CASE Refuse(r)
    BY <2>1, RefuseKeeps
  <2>2. CASE ~Refuse(r)
    <3>1. \/ pc' = [pc EXCEPT ![r] = "probe"]
          \/ pc' = [pc EXCEPT ![r] = "insert"]
      BY <1>2, <2>2 DEF Probe, Goto, Inv, TypeOK
    <3>2. \A q \in Reqs \ {r} : link'[q] = link[q] /\ code'[q] = code[q] /\ form'[q] = form[q]
      BY <1>2, <2>2 DEF Probe, Inv, TypeOK
    <3>3. link' = link /\ UNCHANGED <<rows, cache, raced>> /\ pc[r] = "probe"
      BY <1>2, <2>2 DEF Probe
    <3>. QED
      BY <1>0, <3>1, <3>2, <3>3, QuietKeeps
  <2>. QED
    BY <2>1, <2>2
<1>3. CASE Insert(r)
  BY <1>3, RefuseKeeps, InsertKeeps
<1>4. CASE FillOnCreate(r)
  BY <1>4, FillOnCreateKeeps
<1>5. CASE CommitCreate(r)
  BY <1>5, CommitCreateKeeps
<1>. QED
  BY <1>1, <1>2, <1>3, <1>4, <1>5 DEF CreateStep

\* The key an update or delete purges is a code of its link.
LEMMA PurgeKey ==
  ASSUME Inv, NEW r \in Reqs,
         pc[r] \in {"purge_update", "purge_update_alias", "purge_delete", "purge_delete_alias"}
  PROVE  /\ pc[r] \in {"purge_update_alias", "purge_delete_alias"} =>
              rows[link[r]].alias = rows[link[r]].code
         /\ rows[link[r]].alias # None => rows[link[r]].alias = rows[link[r]].code
<1>1. link[r] \in Ids /\ rows[link[r]].status # "unborn"
  BY DEF Inv, IndInv, RequestsPlaced, RequestsConsistent, Published, WorkingPcs, UpdatePcs, DeletePcs
<1>. QED
  BY <1>1 DEF Inv, IndInv, RowsWellFormed, RequestsConsistent

\* Every step of URLService.update: after its last purge every copy of the link
\* that is, or gets, cached is marked as overtaken.
LEMMA UpdateKeeps ==
  ASSUME Inv, NEW r \in Reqs, UpdateStep(r)
  PROVE  IndInv'
<1>0. Typed'
  BY InvTyped, TypedUpdate
<1>1. CASE LoadForUpdate(r)
  <2>1. CASE Refuse(r)
    BY <2>1, RefuseKeeps
  <2>2. CASE ~Refuse(r)
    <3>1. /\ pc[r] = "load_update" /\ Live(link[r]) /\ Goto(r, "flush_update")
          /\ UNCHANGED <<rows, cache, code, link, raced>>
      BY <1>1, <2>2 DEF LoadForUpdate
    <3>2. \A q \in Reqs \ {r} : form'[q] = form[q]
      BY <1>1, <2>2 DEF LoadForUpdate, Inv, TypeOK
    <3>. QED
      BY <1>0, <3>1, <3>2, QuietKeeps DEF Goto
  <2>. QED
    BY <2>1, <2>2
<1>2. CASE FlushUpdate(r)
  BY <1>0, <1>2, RefuseKeeps, PassKeeps DEF FlushUpdate, Pcs, UpdatePcs
<1>3. CASE PurgeOnUpdate(r)
  <2>. USE DEF Pcs, UpdatePcs
  <2>1. CASE pc[r] = "purge_update" /\ rows[link[r]].alias = None
    BY <1>0, <1>3, <2>1, LastPurgeKeeps DEF PurgeOnUpdate
  <2>2. CASE pc[r] = "purge_update" /\ rows[link[r]].alias # None
    BY <1>0, <1>3, <2>2, FirstPurgeKeeps DEF PurgeOnUpdate
  <2>3. CASE pc[r] = "purge_update_alias"
    BY <1>0, <1>3, <2>3, PurgeKey, LastPurgeKeeps DEF PurgeOnUpdate
  <2>. QED
    BY <1>3, <2>1, <2>2, <2>3 DEF PurgeOnUpdate
<1>4. CASE CommitUpdate(r)
  <2>1. pc[r] = "commit_update" /\ link[r] \in Ids /\ Exposed(r, link[r])
    BY <1>4 DEF CommitUpdate, Exposed, Inv, IndInv, RequestsPlaced, WorkingPcs, UpdatePcs
  <2>2. \A j \in Ids \ {link[r]} : rows'[j] = rows[j]
    BY <1>4, <2>1 DEF CommitUpdate, Inv, TypeOK
  <2>3. /\ rows'[link[r]].status = rows[link[r]].status
        /\ rows'[link[r]].code = rows[link[r]].code
        /\ rows'[link[r]].alias = rows[link[r]].alias
    BY <1>4, <2>1 DEF CommitUpdate, Inv, TypeOK, Row
  <2>4. Answer(r) /\ UNCHANGED cache
    BY <1>4 DEF CommitUpdate
  <2>. QED
    BY <1>0, <2>1, <2>2, <2>3, <2>4, CommitKeeps
<1>. QED
  BY <1>1, <1>2, <1>3, <1>4 DEF UpdateStep

\* Every step of URLService.delete, for the same reason.
LEMMA DeleteKeeps ==
  ASSUME Inv, NEW r \in Reqs, DeleteStep(r)
  PROVE  IndInv'
<1>. USE DEF Pcs, DeletePcs
<1>0. Typed'
  BY InvTyped, TypedDelete
<1>1. CASE LoadForDelete(r)
  BY <1>0, <1>1, RefuseKeeps, PassKeeps DEF LoadForDelete
<1>2. CASE PurgeOnDelete(r)
  <2>1. CASE pc[r] = "purge_delete" /\ rows[link[r]].alias = None
    BY <1>0, <1>2, <2>1, LastPurgeKeeps DEF PurgeOnDelete
  <2>2. CASE pc[r] = "purge_delete" /\ rows[link[r]].alias # None
    BY <1>0, <1>2, <2>2, FirstPurgeKeeps DEF PurgeOnDelete
  <2>3. CASE pc[r] = "purge_delete_alias"
    BY <1>0, <1>2, <2>3, PurgeKey, LastPurgeKeeps DEF PurgeOnDelete
  <2>. QED
    BY <1>2, <2>1, <2>2, <2>3 DEF PurgeOnDelete
<1>3. CASE FlushDelete(r)
  BY <1>0, <1>3, PassKeeps DEF FlushDelete
<1>4. CASE CommitDelete(r)
  <2>1. pc[r] = "commit_delete" /\ link[r] \in Ids /\ Exposed(r, link[r])
    BY <1>4 DEF CommitDelete, Exposed, Inv, IndInv, RequestsPlaced, WorkingPcs
  <2>2. \A j \in Ids \ {link[r]} : rows'[j] = rows[j]
    BY <1>4, <2>1 DEF CommitDelete, Inv, TypeOK
  <2>3. /\ rows'[link[r]].status = "gone"
        /\ rows'[link[r]].code = rows[link[r]].code
        /\ rows'[link[r]].alias = rows[link[r]].alias
    BY <1>4, <2>1 DEF CommitDelete, Inv, TypeOK, Row
  <2>4. Answer(r) /\ UNCHANGED cache
    BY <1>4 DEF CommitDelete
  <2>. QED
    BY <1>0, <2>1, <2>2, <2>3, <2>4, CommitKeeps
<1>. QED
  BY <1>1, <1>2, <1>3, <1>4 DEF DeleteStep

\* The SELECT of a redirect: its payload is fresh, or a writer is past its purge.
LEMMA SelectKeeps ==
  ASSUME Inv, NEW r \in Reqs, Select(r), ~Refuse(r)
  PROVE  IndInv'
<1>. USE DEF CreatePcs, UpdatePcs, DeletePcs, FlushedPcs
<1>0. Typed'
  BY InvTyped, TypedRedirect DEF RedirectStep
<1>1. PICK i \in Ids :
        /\ ActiveByCode(i, code[r], stamp[r])
        /\ link' = [link EXCEPT ![r] = i]
        /\ form' = [form EXCEPT ![r].active = rows[i].active, ![r].deadline = rows[i].deadline]
        /\ raced' = [raced EXCEPT ![r] = \E q \in Reqs : Exposed(q, i)]
        /\ Goto(r, "warm")
        /\ UNCHANGED <<rows, cache, code>>
  BY DEF Select
<1>2. UNCHANGED <<rows, cache, code>> /\ pc[r] = "select" /\ Live(i) /\ Matches(i, code[r]) /\ rows[i].active
  BY <1>1 DEF Select, ActiveByCode
<1>3. /\ pc'[r] = "warm" /\ link'[r] = i /\ raced'[r] = (\E q \in Reqs : Exposed(q, i))
      /\ \A q \in Reqs \ {r} : /\ pc'[q] = pc[q] /\ link'[q] = link[q]
                               /\ form'[q] = form[q] /\ raced'[q] = raced[q]
  BY <1>1 DEF Goto, Inv, TypeOK
<1>4. form'[r].active = rows[i].active /\ form'[r].deadline = rows[i].deadline
  BY <1>1 DEF Inv, TypeOK, Form
<1>5. rows[i].active = TRUE
  BY <1>2 DEF Inv, TypeOK, Row
<1>6. RowsWellFormed' /\ KeysUnique'
  BY <1>2 DEF Inv, IndInv, RowsWellFormed, KeysUnique
<1>7. RequestsConsistent'
  <2>1. Published(i) /\ Matches(i, code[r]) /\ form'[r].active = TRUE
    BY <1>2, <1>4, <1>5 DEF Published, Live
  <2>2. Published(link[r])' /\ Matches(link[r], code[r])'
    BY <1>2, <1>3, <2>1 DEF Published, Matches
  <2>. QED
    BY <1>2, <1>3, <2>1, <2>2 DEF Inv, IndInv, RequestsConsistent, Published, Matches
<1>8. CreatorsApart'
  BY <1>3 DEF Inv, IndInv, CreatorsApart
<1>9. LocksHeld'
  BY <1>2, <1>3 DEF Inv, IndInv, LocksHeld, Changes, Live, HoldsRow
<1>10. CacheWellFormed'
  BY <1>2 DEF Inv, IndInv, CacheWellFormed, Matches
<1>11. ExposureCaught'
  <2>1. \A q \in Reqs, j \in Ids : Exposed(q, j)' => Exposed(q, j)
    BY <1>3 DEF Exposed
  <2>2. \A p \in Reqs : pc'[p] = "warm" => link'[p] \in Ids
    BY <1>0 DEF Typed, RequestsPlaced, WorkingPcs
  <2>3. \A c \in Codes : cache[c] # None => cache[c].id \in Ids
    BY DEF Inv, TypeOK, Entry
  <2>4. \A q \in Reqs : \A c \in Codes :
          cache'[c] # None /\ Exposed(q, cache[c].id)' => cache'[c].raced
    BY <1>2, <2>1, <2>3 DEF Inv, IndInv, ExposureCaught, Exposed
  <2>5. \A q \in Reqs : \A p \in Reqs :
          pc'[p] = "warm" /\ Exposed(q, link[p])' => raced'[p]
    <3>1. \A q \in Reqs : \A p \in Reqs \ {r} : pc[p] = "warm" /\ Exposed(q, link[p]) => raced[p]
      BY DEF Inv, IndInv, ExposureCaught
    <3>2. \A q \in Reqs : \A p \in Reqs :
            pc'[p] = "warm" /\ Exposed(q, link'[p]) => raced'[p]
      BY <1>3, <3>1
    <3>. QED
      BY <2>1, <2>2, <3>2 DEF Exposed
  <2>. QED
    BY <1>2, <2>4, <2>5 DEF ExposureCaught
<1>12. PayloadsFresh'
  <2>1. \A q \in Reqs \ {r} : pc'[q] = pc[q] /\ link'[q] = link[q] /\ form'[q] = form[q]
                             /\ raced'[q] = raced[q]
    BY <1>3
  <2>2. \A q \in Reqs \ {r} : pc[q] = "warm" /\ ~raced[q] =>
          /\ Live(link[q])
          /\ form[q].active = rows[link[q]].active
          /\ form[q].deadline = rows[link[q]].deadline
    BY DEF Inv, IndInv, PayloadsFresh
  <2>3. /\ Live(link[r])'
        /\ form'[r].active = rows'[link'[r]].active
        /\ form'[r].deadline = rows'[link'[r]].deadline
    BY <1>2, <1>3, <1>4 DEF Live
  <2>4. \A q \in Reqs \ {r} : pc'[q] = "warm" /\ ~raced'[q] =>
          /\ Live(link[q])'
          /\ form'[q].active = rows'[link'[q]].active
          /\ form'[q].deadline = rows'[link'[q]].deadline
    BY <1>2, <2>1, <2>2 DEF Live
  <2>. QED
    BY <2>3, <2>4 DEF PayloadsFresh
<1>13. StaleOnlyByOverlap'
  BY <1>2 DEF Inv, IndInv, StaleOnlyByOverlap, Uncommitted, Agrees, Live
<1>. QED
  BY <1>0, <1>6, <1>7, <1>8, <1>9, <1>10, <1>11, <1>12, <1>13 DEF IndInv, Typed

\* The background write of a redirect: a payload not overtaken is still fresh.
LEMMA WarmKeeps ==
  ASSUME Inv, NEW r \in Reqs, Warm(r)
  PROVE  IndInv'
<1>. USE DEF CreatePcs, UpdatePcs, DeletePcs, FlushedPcs
<1>0. Typed'
  BY InvTyped, TypedRedirect DEF RedirectStep
<1>. DEFINE e == [id |-> link[r], active |-> form[r].active,
                  deadline |-> form[r].deadline, raced |-> raced[r]]
<1>1. /\ pc[r] = "warm" /\ link[r] \in Ids /\ code[r] \in Codes
      /\ Published(link[r]) /\ Matches(link[r], code[r]) /\ form[r].active = TRUE
  BY DEF Warm, Inv, IndInv, RequestsPlaced, RequestsConsistent, WorkingPcs, CodedPcs
<1>2. /\ cache' = [cache EXCEPT ![code[r]] = e]
      /\ pc' = [pc EXCEPT ![r] = "track"]
      /\ form' = [form EXCEPT ![r] = BlankForm]
      /\ raced' = [raced EXCEPT ![r] = FALSE]
      /\ UNCHANGED <<rows, code, link>>
  BY DEF Warm, Goto
<1>3. /\ pc'[r] = "track"
      /\ \A q \in Reqs \ {r} : pc'[q] = pc[q] /\ form'[q] = form[q] /\ raced'[q] = raced[q]
      /\ cache'[code[r]] = e
      /\ \A c \in Codes \ {code[r]} : cache'[c] = cache[c]
  BY <1>1, <1>2 DEF Inv, TypeOK
<1>4. /\ e.id = link[r] /\ e.active = TRUE /\ e.deadline = form[r].deadline
      /\ e.raced = raced[r]
  BY <1>1
<1>. HIDE DEF e
<1>5. RowsWellFormed' /\ KeysUnique'
  BY <1>2 DEF Inv, IndInv, RowsWellFormed, KeysUnique
<1>6. RequestsConsistent'
  BY <1>2, <1>3 DEF Inv, IndInv, RequestsConsistent, Published, Matches
<1>7. CreatorsApart'
  BY <1>2, <1>3 DEF Inv, IndInv, CreatorsApart
<1>8. LocksHeld'
  BY <1>2, <1>3 DEF Inv, IndInv, LocksHeld, Changes, Live, HoldsRow
<1>9. CacheWellFormed'
  <2>1. SUFFICES ASSUME NEW c \in Codes, cache'[c] # None
                 PROVE  /\ rows[cache'[c].id].status # "unborn"
                        /\ Matches(cache'[c].id, c)
                        /\ cache'[c].active
                        /\ rows[cache'[c].id].status = "pending" =>
                             /\ cache'[c].active = rows[cache'[c].id].active
                             /\ cache'[c].deadline = rows[cache'[c].id].deadline
    BY <1>2 DEF CacheWellFormed, Matches
  <2>2. CASE c = code[r]
    BY <1>1, <1>3, <1>4, <2>2 DEF Published
  <2>3. CASE c # code[r]
    BY <1>3, <2>1, <2>3 DEF Inv, IndInv, CacheWellFormed
  <2>. QED
    BY <2>2, <2>3
<1>10. ExposureCaught'
  <2>1. \A q \in Reqs : \A c \in Codes :
          cache'[c] # None /\ Exposed(q, cache'[c].id) => cache'[c].raced
    BY <1>1, <1>3, <1>4 DEF Inv, IndInv, ExposureCaught
  <2>2. \A q \in Reqs, j \in Ids : Exposed(q, j)' => Exposed(q, j)
    BY <1>2, <1>3 DEF Exposed
  <2>3. \A c \in Codes : cache'[c] # None => cache'[c].id \in Ids
    BY <1>0 DEF Typed, TypeOK, Entry
  <2>4. \A q \in Reqs : \A c \in Codes :
          cache'[c] # None /\ Exposed(q, cache[c].id)' => cache'[c].raced
    BY <2>1, <2>2, <2>3 DEF Exposed
  <2>5. \A q \in Reqs : \A p \in Reqs :
          pc'[p] = "warm" /\ Exposed(q, link[p])' => raced'[p]
    BY <1>2, <1>3 DEF Inv, IndInv, ExposureCaught, Exposed
  <2>. QED
    BY <2>4, <2>5 DEF ExposureCaught
<1>11. PayloadsFresh'
  BY <1>2, <1>3 DEF Inv, IndInv, PayloadsFresh, Live
<1>12. StaleOnlyByOverlap'
  <2>1. SUFFICES ASSUME NEW c \in Codes, cache'[c] # None
                 PROVE  cache'[c].raced \/ Uncommitted(cache'[c].id) \/ Agrees(cache'[c])
    BY <1>2 DEF StaleOnlyByOverlap, Uncommitted, Agrees, Live
  <2>2. CASE c = code[r]
    <3>1. raced[r] \/ ( /\ Live(link[r])
                       /\ form[r].active = rows[link[r]].active
                       /\ form[r].deadline = rows[link[r]].deadline)
      BY <1>1 DEF Inv, IndInv, PayloadsFresh
    <3>2. cache'[c] = e
      BY <1>3, <2>2
    <3>3. raced[r] => cache'[c].raced
      BY <1>4, <3>2
    <3>4. e.active = form[r].active
      BY <1>1, <1>4
    <3>5. ~raced[r] => Agrees(e)
      BY <1>4, <3>1, <3>4 DEF Agrees
    <3>. QED
      BY <3>2, <3>3, <3>5
  <2>3. CASE c # code[r]
    BY <1>3, <2>1, <2>3 DEF Inv, IndInv, StaleOnlyByOverlap
  <2>. QED
    BY <2>2, <2>3
<1>. QED
  BY <1>0, <1>5, <1>6, <1>7, <1>8, <1>9, <1>10, <1>11, <1>12 DEF IndInv, Typed

\* Every step of RedirectService.resolve and its tasks keeps the invariant.
LEMMA RedirectKeeps ==
  ASSUME Inv, NEW r \in Reqs, RedirectStep(r)
  PROVE  IndInv'
<1>0. Typed'
  BY InvTyped, TypedRedirect
<1>1. CASE CacheGet(r)
  <2>1. CASE Refuse(r)
    BY <2>1, RefuseKeeps
  <2>2. CASE ~Refuse(r)
    <3>1. /\ pc[r] = "get" /\ UNCHANGED <<rows, cache, code, form, raced>>
          /\ \/ pc' = [pc EXCEPT ![r] = "select"]
             \/ pc' = [pc EXCEPT ![r] = "track"]
      BY <1>1, <2>2 DEF CacheGet, Goto
    <3>2. \A q \in Reqs \ {r} : link'[q] = link[q]
      BY <1>1, <2>2 DEF CacheGet, Inv, TypeOK
    <3>. QED
      BY <1>0, <3>1, <3>2, QuietKeeps
  <2>. QED
    BY <2>1, <2>2
<1>2. CASE Select(r)
  BY <1>2, RefuseKeeps, SelectKeeps
<1>3. CASE Warm(r)
  BY <1>3, WarmKeeps
<1>4. CASE Track(r)
  BY <1>0, <1>4, PassKeeps DEF Track, Pcs, RedirectPcs
<1>5. CASE Enqueue(r)
  BY <1>5, RefuseKeeps DEF Enqueue
<1>. QED
  BY <1>1, <1>2, <1>3, <1>4, <1>5 DEF RedirectStep

\* A rollback of open inserts: no row but a pending one changes, and only in
\* status, whether one request fails or all of them vanish.
LEMMA RollbackKeeps ==
  ASSUME Inv, Typed', UNCHANGED cache, NEW Dead \in SUBSET Reqs,
         \A r \in Dead : pc'[r] = "idle" /\ link'[r] = None,
         \A q \in Reqs \ Dead : /\ pc'[q] = pc[q] /\ link'[q] = link[q]
                                /\ code'[q] = code[q] /\ form'[q] = form[q]
                                /\ raced'[q] = raced[q],
         \A i \in Ids : \/ rows'[i] = rows[i]
                        \/ /\ rows[i].status = "pending"
                           /\ rows'[i] = [rows[i] EXCEPT !.status = "void"]
                           /\ \A q \in Reqs \ Dead : pc[q] \in CreatePcs => link[q] # i
  PROVE  IndInv'
<1>. USE DEF CreatePcs, UpdatePcs, DeletePcs, FlushedPcs
<1>1. \A i \in Ids :
        \/ rows'[i] = rows[i]
        \/ /\ rows[i].status = "pending" /\ rows'[i].status = "void"
           /\ rows'[i].code = rows[i].code /\ rows'[i].alias = rows[i].alias
           /\ \A q \in Reqs \ Dead : pc[q] \in CreatePcs => link[q] # i
  <2>1. ASSUME NEW i \in Ids, rows'[i] = [rows[i] EXCEPT !.status = "void"]
        PROVE  /\ rows'[i].status = "void" /\ rows'[i].code = rows[i].code
               /\ rows'[i].alias = rows[i].alias
    BY <2>1 DEF Inv, TypeOK, Row
  <2>. QED
    BY <2>1
<1>2. \A c \in Codes : cache[c] # None => cache[c].id \in Ids
  BY DEF Inv, TypeOK, Entry
<1>3. \A q \in Reqs \ Dead : pc[q] \in CreatePcs \cup UpdatePcs \cup DeletePcs \cup {"warm"} =>
        link[q] \in Ids /\ rows'[link[q]] = rows[link[q]]
  BY <1>1 DEF Inv, IndInv, RequestsPlaced, RequestsConsistent, Published, WorkingPcs
<1>4. RowsWellFormed'
  BY <1>1 DEF Inv, IndInv, RowsWellFormed
<1>5. KeysUnique'
  <2>1. \A j \in Ids : rows'[j].status \in {"pending", "live"} => rows'[j] = rows[j]
    BY <1>1
  <2>. QED
    BY <2>1 DEF Inv, IndInv, KeysUnique
<1>6. RequestsConsistent'
  <2>1. \A q \in Dead : pc'[q] = "idle"
    OBVIOUS
  <2>2. SUFFICES ASSUME NEW q \in Reqs \ Dead
                 PROVE  (/\ pc[q] \in {"check_alias", "probe", "insert"} => rows[link[q]].status = "unborn"
                         /\ pc[q] \in {"fill", "commit_create"} =>
                              rows[link[q]].status = "pending" /\ rows[link[q]].code = code[q]
                         /\ pc[q] \in UpdatePcs \cup DeletePcs \cup {"warm"} => Published(link[q])
                         /\ pc[q] \in {"purge_update_alias", "purge_delete_alias"} =>
                              rows[link[q]].alias # None
                         /\ pc[q] = "warm" => Matches(link[q], code[q]) /\ form[q].active = TRUE)'
    BY <2>1 DEF RequestsConsistent
  <2>. QED
    BY <1>3 DEF Inv, IndInv, RequestsConsistent, Published, Matches
<1>7. CreatorsApart'
  BY DEF Inv, IndInv, CreatorsApart
<1>8. LocksHeld'
  <2>1. SUFFICES ASSUME NEW q \in Reqs \ Dead, pc[q] \in FlushedPcs, Changes(q)
                 PROVE  /\ Live(link[q])'
                        /\ \A p \in Reqs \ {q} : link'[p] = link'[q] => ~HoldsRow(p)'
    BY DEF LocksHeld, Changes
  <2>2. /\ Live(link[q])
        /\ \A p \in Reqs \ {q} : link[p] = link[q] => ~HoldsRow(p)
    BY <2>1 DEF Inv, IndInv, LocksHeld
  <2>3. Live(link[q])'
    BY <1>3, <2>1, <2>2 DEF Live
  <2>4. \A p \in Reqs \ {q} : link'[p] = link'[q] => ~HoldsRow(p)'
    BY <2>2 DEF HoldsRow, Changes
  <2>. QED
    BY <2>3, <2>4
<1>9. CacheWellFormed'
  <2>1. \A i \in Ids : /\ rows'[i].code = rows[i].code /\ rows'[i].alias = rows[i].alias
                       /\ rows'[i].status = "unborn" => rows[i].status = "unborn"
                       /\ rows'[i].status = "pending" => rows'[i] = rows[i]
    BY <1>1
  <2>. QED
    BY <1>2, <2>1 DEF Inv, IndInv, CacheWellFormed, Matches
<1>10. ExposureCaught'
  BY DEF Inv, IndInv, ExposureCaught, Exposed
<1>11. PayloadsFresh'
  BY <1>3 DEF Inv, IndInv, PayloadsFresh, Live
<1>12. StaleOnlyByOverlap'
  <2>1. SUFFICES ASSUME NEW c \in Codes, cache[c] # None, ~cache[c].raced
                 PROVE  (Uncommitted(cache[c].id) \/ Agrees(cache[c]))'
    BY DEF StaleOnlyByOverlap
  <2>2. CASE rows'[cache[c].id] = rows[cache[c].id]
    BY <2>1, <2>2 DEF Inv, IndInv, StaleOnlyByOverlap, Uncommitted, Agrees, Live
  <2>3. CASE rows'[cache[c].id].status = "void"
    BY <2>3 DEF Uncommitted
  <2>. QED
    BY <1>1, <1>2, <2>1, <2>2, <2>3
<1>. QED
  BY <1>4, <1>5, <1>6, <1>7, <1>8, <1>9, <1>10, <1>11, <1>12 DEF IndInv, Typed

\* A rollback frees what the request held; evictions only remove copies.
LEMMA FaultsKeep ==
  ASSUME Inv,
         \/ \E r \in Reqs : Fail(r)
         \/ Crash
         \/ \E c \in Codes : Evict(c)
         \/ Tick
  PROVE  IndInv'
<1>. USE DEF CreatePcs, UpdatePcs, DeletePcs, FlushedPcs
<1>0. Typed'
  BY InvTyped, TypedFaults
<1>1. ASSUME NEW r \in Reqs, Fail(r) PROVE IndInv'
  <2>1. /\ pc'[r] = "idle" /\ link'[r] = None
        /\ \A q \in Reqs \ {r} : /\ pc'[q] = pc[q] /\ link'[q] = link[q]
                                 /\ code'[q] = code[q] /\ form'[q] = form[q]
                                 /\ raced'[q] = raced[q]
    BY <1>1, EndedOthers DEF Fail
  <2>2. CASE pc[r] \in {"fill", "commit_create"}
    <3>1. link[r] \in Ids /\ rows[link[r]].status = "pending"
      BY <2>2 DEF Inv, IndInv, RequestsPlaced, RequestsConsistent, WorkingPcs
    <3>2. /\ rows'[link[r]] = [rows[link[r]] EXCEPT !.status = "void"]
          /\ \A i \in Ids \ {link[r]} : rows'[i] = rows[i]
      BY <1>1, <2>2, <3>1 DEF Fail, RolledBack, Inv, TypeOK
    <3>3. \A q \in Reqs \ {r} : pc[q] \in CreatePcs => link[q] # link[r]
      BY <2>2 DEF Inv, IndInv, CreatorsApart
    <3>4. UNCHANGED cache
      BY <1>1 DEF Fail
    <3>. DEFINE Dead == {r}
    <3>5. /\ Dead \in SUBSET Reqs
          /\ \A q \in Dead : pc'[q] = "idle" /\ link'[q] = None
          /\ \A q \in Reqs \ Dead : /\ pc'[q] = pc[q] /\ link'[q] = link[q]
                                    /\ code'[q] = code[q] /\ form'[q] = form[q]
                                    /\ raced'[q] = raced[q]
      BY <2>1
    <3>6. \A i \in Ids : \/ rows'[i] = rows[i]
                         \/ /\ rows[i].status = "pending"
                            /\ rows'[i] = [rows[i] EXCEPT !.status = "void"]
                            /\ \A q \in Reqs \ Dead : pc[q] \in CreatePcs => link[q] # i
      BY <3>1, <3>2, <3>3
    <3>. HIDE DEF Dead, CreatePcs, UpdatePcs, DeletePcs, FlushedPcs
    <3>. QED
      BY <1>0, <3>4, <3>5, <3>6, RollbackKeeps
  <2>3. CASE pc[r] \notin {"fill", "commit_create"}
    <3>1. rows' = rows /\ cache' = cache
      BY <1>1, <2>3 DEF Fail
    <3>. DEFINE Dead == {r}
    <3>2. /\ Dead \in SUBSET Reqs
          /\ \A q \in Dead : pc'[q] = "idle" /\ link'[q] = None
          /\ \A q \in Reqs \ Dead : /\ pc'[q] = pc[q] /\ link'[q] = link[q]
                                    /\ code'[q] = code[q] /\ form'[q] = form[q]
                                    /\ raced'[q] = raced[q]
      BY <2>1
    <3>. HIDE DEF Dead, CreatePcs, UpdatePcs, DeletePcs, FlushedPcs
    <3>. QED
      BY <1>0, <3>1, <3>2, RollbackKeeps
  <2>. QED
    BY <2>2, <2>3
<1>2. CASE Crash
  <2>1. \A i \in Ids : \/ rows'[i] = rows[i]
                       \/ /\ rows[i].status = "pending"
                          /\ rows'[i] = [rows[i] EXCEPT !.status = "void"]
    BY <1>2 DEF Crash, RolledBack
  <2>2. \A r \in Reqs : pc'[r] = "idle" /\ link'[r] = None
    BY <1>2 DEF Crash
  <2>3. UNCHANGED cache
    BY <1>2 DEF Crash
  <2>. QED
    BY <1>0, <2>1, <2>2, <2>3, RollbackKeeps
<1>3. ASSUME NEW c \in Codes, Evict(c) PROVE IndInv'
  <2>1. /\ UNCHANGED <<rows, now, pc, code, link, form, raced>>
        /\ \A d \in Codes : cache'[d] # None => cache'[d] = cache[d]
    BY <1>3 DEF Evict, Inv, TypeOK
  <2>2. RowsWellFormed' /\ KeysUnique' /\ CreatorsApart' /\ LocksHeld' /\ PayloadsFresh'
    BY <2>1 DEF Inv, IndInv, RowsWellFormed, KeysUnique, CreatorsApart, LocksHeld,
                PayloadsFresh, Live, HoldsRow, Changes
  <2>3. RequestsConsistent'
    BY <2>1 DEF Inv, IndInv, RequestsConsistent, Published, Matches
  <2>4. CacheWellFormed'
    BY <2>1 DEF Inv, IndInv, CacheWellFormed, Matches
  <2>5. ExposureCaught'
    BY <2>1 DEF Inv, IndInv, ExposureCaught, Exposed
  <2>6. StaleOnlyByOverlap'
    BY <2>1 DEF Inv, IndInv, StaleOnlyByOverlap, Uncommitted, Agrees, Live
  <2>. QED
    BY <1>0, <2>2, <2>3, <2>4, <2>5, <2>6 DEF IndInv, Typed
<1>4. CASE Tick
  <2>1. UNCHANGED <<rows, cache, pc, code, link, form, raced>>
    BY <1>4 DEF Tick
  <2>. DEFINE Dead == {}
  <2>2. Dead \in SUBSET Reqs /\ \A q \in Dead : pc'[q] = "idle" /\ link'[q] = None
    OBVIOUS
  <2>. HIDE DEF Dead, CreatePcs, UpdatePcs, DeletePcs, FlushedPcs
  <2>. QED
    BY <1>0, <2>1, <2>2, RollbackKeeps
<1>. QED
  BY <1>1, <1>2, <1>3, <1>4

\* A step that changes nothing changes nothing of the invariant.
LEMMA StutterKeeps == Inv /\ UNCHANGED vars => Inv'
<1>. SUFFICES ASSUME Inv, UNCHANGED vars PROVE Inv'
  OBVIOUS
<1>1. TypeOK'
  BY DEF vars, Inv, TypeOK
<1>2. RowsWellFormed' /\ KeysUnique' /\ CreatorsApart'
  BY DEF vars, Inv, IndInv, RowsWellFormed, KeysUnique, CreatorsApart
<1>3. LocksHeld'
  BY DEF vars, Inv, IndInv, LocksHeld, Live, HoldsRow, Changes
<1>4. RequestsPlaced'
  BY DEF vars, Inv, IndInv, RequestsPlaced
<1>5. RequestsConsistent'
  BY DEF vars, Inv, IndInv, RequestsConsistent, Published, Matches
<1>6. CacheWellFormed' /\ StaleOnlyByOverlap'
  BY DEF vars, Inv, IndInv, CacheWellFormed, StaleOnlyByOverlap, Matches, Live, Uncommitted, Agrees
<1>7. ExposureCaught'
  BY DEF vars, Inv, IndInv, ExposureCaught, Exposed, Changes
<1>8. PayloadsFresh'
  BY DEF vars, Inv, IndInv, PayloadsFresh, Live
<1>. QED
  BY <1>1, <1>2, <1>3, <1>4, <1>5, <1>6, <1>7, <1>8 DEF Inv, IndInv

\* All steps together: the invariant is inductive.
LEMMA InvStep == Inv /\ [Next]_vars => Inv'
<1>1. ASSUME Inv, Next PROVE IndInv'
  BY <1>1, StartKeeps, CreateKeeps, UpdateKeeps, DeleteKeeps, RedirectKeeps, FaultsKeep
     DEF Next, Step
<1>2. ASSUME Inv, Next PROVE TypeOK'
  BY <1>2, InvTyped, TypedStep DEF Typed
<1>. QED
  BY <1>1, <1>2, StutterKeeps DEF Inv

\* The invariant behind the theorems below: keys unique among open and live rows,
\* locks held where the handlers rely on them, and every copy or payload of a link
\* that may be stale marked as overtaken.
THEOREM Invariance == Spec => []Inv
BY InvInit, InvStep, PTL DEF Spec

\* At most one live link answers to a code, for any number of requests creating
\* and deleting links under it.
THEOREM UniqueResolution == Spec => []CodeResolvesUniquely
<1>1. Inv => CodeResolvesUniquely
  <2>1. SUFFICES ASSUME Inv, NEW i \in Ids, NEW j \in Ids, NEW c \in Codes,
                        Live(i), Live(j), Matches(i, c), Matches(j, c)
                 PROVE  i = j
    BY DEF CodeResolvesUniquely
  <2>2. rows[i].code = c /\ rows[j].code = c
    BY <2>1 DEF Inv, IndInv, RowsWellFormed, Live, Matches
  <2>. QED
    BY <2>1, <2>2 DEF Inv, IndInv, KeysUnique, Live
<1>. QED
  BY <1>1, Invariance, PTL

\* The hit path may omit the is_active check: nobody caches an inactive payload.
THEOREM ActiveCopies == Spec => []OnlyActiveCached
<1>1. Inv => OnlyActiveCached
  BY DEF Inv, IndInv, CacheWellFormed, OnlyActiveCached
<1>. QED
  BY <1>1, Invariance, PTL

\* A stale copy is always the work of a redirect whose SELECT and SETEX enclose a
\* writer's last purge or fall before its commit, or of a create not committed.
THEOREM StalenessBounded == Spec => []StaleOnlyByOverlap
<1>1. Inv => StaleOnlyByOverlap
  BY DEF Inv, IndInv
<1>. QED
  BY <1>1, Invariance, PTL

\* A request moves its own program counter only.
LEMMA OwnCounter ==
  ASSUME TypeOK, NEW r \in Reqs, NEW q \in Reqs, q # r, Start(q) \/ Step(q) \/ Fail(q)
  PROVE  pc'[r] = pc[r]
<1>. USE DEF Goto, Refuse, Answer, Pass, Begin, Purge, TypeOK
<1>1. CASE Start(q)
  BY <1>1 DEF Start, StartCreate, StartUpdate, StartDelete, StartRedirect
<1>2. CASE CreateStep(q)
  BY <1>2 DEF CreateStep, CheckAlias, Probe, Insert, FillOnCreate, CommitCreate
<1>3. CASE UpdateStep(q)
  BY <1>3 DEF UpdateStep, LoadForUpdate, FlushUpdate, PurgeOnUpdate, CommitUpdate
<1>4. CASE DeleteStep(q)
  BY <1>4 DEF DeleteStep, LoadForDelete, PurgeOnDelete, FlushDelete, CommitDelete
<1>5. CASE RedirectStep(q)
  BY <1>5 DEF RedirectStep, CacheGet, Select, Warm, Track, Enqueue
<1>6. CASE Fail(q)
  BY <1>6 DEF Fail
<1>. QED
  BY <1>1, <1>2, <1>3, <1>4, <1>5, <1>6 DEF Step

\* Only CacheGet answers a redirect from the cache.
LEMMA HitIsCacheGet ==
  ASSUME TypeOK, Next, NEW r \in Reqs, pc[r] = "get", pc'[r] = "track"
  PROVE  CacheGet(r) /\ ~Refuse(r)
<1>1. pc'[r] # pc[r] /\ pc'[r] # "idle"
  OBVIOUS
<1>2. ~Crash /\ ~Tick /\ \A c \in Codes : ~Evict(c)
  BY <1>1 DEF Crash, Tick, Evict
<1>3. PICK q \in Reqs : Start(q) \/ Step(q) \/ Fail(q)
  BY <1>2 DEF Next
<1>4. q = r
  BY <1>1, <1>3, OwnCounter
<1>5. ~Start(r)
  BY DEF Start, StartCreate, StartUpdate, StartDelete, StartRedirect, Begin
<1>6. ~Fail(r) /\ ~Refuse(r)
  BY DEF Fail, Refuse, Answer, Goto, TypeOK
<1>7. ~CreateStep(r) /\ ~UpdateStep(r) /\ ~DeleteStep(r)
  BY DEF CreateStep, CheckAlias, Probe, Insert, FillOnCreate, CommitCreate,
         UpdateStep, LoadForUpdate, FlushUpdate, PurgeOnUpdate, CommitUpdate,
         DeleteStep, LoadForDelete, PurgeOnDelete, FlushDelete, CommitDelete
<1>8. ~Select(r) /\ ~Warm(r) /\ ~Track(r) /\ ~Enqueue(r)
  BY DEF Select, Warm, Track, Enqueue
<1>. QED
  BY <1>3, <1>4, <1>5, <1>6, <1>7, <1>8 DEF Step, RedirectStep

\* Outside that overlap a 302 from the cache leads where the row leads.
THEOREM FreshHits == Spec => HitsServeTheRow
<1>1. ASSUME Inv, [Next]_vars, NEW r \in Reqs, pc[r] = "get", pc'[r] = "track"
      PROVE  LET e == cache[code[r]] IN
               e.raced \/ Uncommitted(e.id) \/ ActiveByCode(e.id, code[r], now)
  <2>. DEFINE e == cache[code[r]]
  <2>1. code[r] \in Codes
    BY <1>1 DEF Inv, IndInv, RequestsPlaced, CodedPcs
  <2>2. Next
    BY <1>1 DEF vars
  <2>3. CacheGet(r) /\ ~Refuse(r)
    BY <1>1, <2>2, HitIsCacheGet DEF Inv
  <2>4. pc' # [pc EXCEPT ![r] = "select"]
    BY <1>1 DEF Inv, TypeOK
  <2>5. e # None /\ ~Expired(e.deadline, now)
    BY <2>3, <2>4 DEF CacheGet, Goto
  <2>6. CacheWellFormed /\ StaleOnlyByOverlap
    BY <1>1 DEF Inv, IndInv
  <2>. QED
    BY <2>1, <2>5, <2>6 DEF CacheWellFormed, StaleOnlyByOverlap, ActiveByCode, Agrees
<1>2. Inv /\ [Next]_vars =>
        [\A r \in Reqs : pc[r] = "get" /\ pc'[r] = "track" =>
           LET e == cache[code[r]] IN
             e.raced \/ Uncommitted(e.id) \/ ActiveByCode(e.id, code[r], now)]_vars
  BY <1>1
<1>. QED
  BY <1>2, Invariance, PTL DEF Spec, HitsServeTheRow

-----------------------------------------------------------------------------
(***************************************************************************)
(* The table of links implements LinkRegistry.                             *)
(***************************************************************************)

-----------------------------------------------------------------------------

LoadPcs    == {"load_update", "load_delete"}
GrantedPcs == (UpdatePcs \cup DeletePcs) \ LoadPcs

\* current_user stays with its request, and the check of the owner outlives the load:
\* an update or delete that has passed it works on a link that its own caller may
\* change, because nothing ever changes an owner; an insert made its caller the owner.
Authorised ==
  \A r \in Reqs :
    /\ pc[r] \in UpdatePcs \cup DeletePcs => form[r].user \in Users
    /\ pc[r] \in GrantedPcs => MayEdit(form[r].user, link[r])
    /\ pc[r] \in {"fill", "commit_create"} => rows[link[r]].owner = form[r].user

-----------------------------------------------------------------------------
\* A request moves its own program counter and operands only.
LEMMA OwnOperands ==
  ASSUME TypeOK, NEW r \in Reqs, NEW q \in Reqs, q # r, Start(q) \/ Step(q) \/ Fail(q)
  PROVE  pc'[r] = pc[r] /\ link'[r] = link[r] /\ form'[r] = form[r]
<1>. USE DEF Goto, Refuse, Answer, Pass, Begin, Purge, TypeOK
<1>1. CASE Start(q)
  BY <1>1 DEF Start, StartCreate, StartUpdate, StartDelete, StartRedirect
<1>2. CASE CreateStep(q)
  BY <1>2 DEF CreateStep, CheckAlias, Probe, Insert, FillOnCreate, CommitCreate
<1>3. CASE UpdateStep(q)
  BY <1>3 DEF UpdateStep, LoadForUpdate, FlushUpdate, PurgeOnUpdate, CommitUpdate
<1>4. CASE DeleteStep(q)
  BY <1>4 DEF DeleteStep, LoadForDelete, PurgeOnDelete, FlushDelete, CommitDelete
<1>5. CASE RedirectStep(q)
  BY <1>5 DEF RedirectStep, CacheGet, Select, Warm, Track, Enqueue
<1>6. CASE Fail(q)
  BY <1>6 DEF Fail
<1>. QED
  BY <1>1, <1>2, <1>3, <1>4, <1>5, <1>6 DEF Step

\* No statement writes the owner of a row that exists.
LEMMA OwnersKept ==
  ASSUME Inv, [Next]_vars, NEW i \in Ids, rows[i].status # "unborn"
  PROVE  rows'[i].owner = rows[i].owner
<1>. USE DEF Goto, Refuse, Answer, Pass, Begin, Purge
<1>0. TypeOK /\ RequestsConsistent /\ RequestsPlaced
  BY DEF Inv, IndInv
<1>1. ASSUME NEW r \in Reqs, Start(r) PROVE rows'[i].owner = rows[i].owner
  BY <1>1 DEF Start, StartCreate, StartUpdate, StartDelete, StartRedirect
<1>2. ASSUME NEW r \in Reqs, CreateStep(r) PROVE rows'[i].owner = rows[i].owner
  <2>1. CASE Insert(r)
    <3>1. link[r] # i
      BY <2>1, <1>0 DEF Insert, RequestsConsistent
    <3>. QED
      BY <3>1, <2>1, <1>0 DEF Insert, TypeOK
  <2>2. CASE CommitCreate(r)
    BY <2>2, <1>0 DEF CommitCreate, TypeOK, Row
  <2>3. CASE CheckAlias(r) \/ Probe(r) \/ FillOnCreate(r)
    BY <2>3 DEF CheckAlias, Probe, FillOnCreate
  <2>. QED
    BY <1>2, <2>1, <2>2, <2>3 DEF CreateStep
<1>3. ASSUME NEW r \in Reqs, UpdateStep(r) PROVE rows'[i].owner = rows[i].owner
  <2>1. CASE CommitUpdate(r)
    BY <2>1, <1>0 DEF CommitUpdate, TypeOK, Row
  <2>2. CASE LoadForUpdate(r) \/ FlushUpdate(r) \/ PurgeOnUpdate(r)
    BY <2>2 DEF LoadForUpdate, FlushUpdate, PurgeOnUpdate
  <2>. QED
    BY <1>3, <2>1, <2>2 DEF UpdateStep
<1>4. ASSUME NEW r \in Reqs, DeleteStep(r) PROVE rows'[i].owner = rows[i].owner
  <2>1. CASE CommitDelete(r)
    BY <2>1, <1>0 DEF CommitDelete, TypeOK, Row
  <2>2. CASE LoadForDelete(r) \/ PurgeOnDelete(r) \/ FlushDelete(r)
    BY <2>2 DEF LoadForDelete, PurgeOnDelete, FlushDelete
  <2>. QED
    BY <1>4, <2>1, <2>2 DEF DeleteStep
<1>5. ASSUME NEW r \in Reqs, RedirectStep(r) PROVE rows'[i].owner = rows[i].owner
  BY <1>5 DEF RedirectStep, CacheGet, Select, Warm, Track, Enqueue
<1>6. ASSUME NEW r \in Reqs, Fail(r) PROVE rows'[i].owner = rows[i].owner
  BY <1>6, <1>0 DEF Fail, RolledBack, TypeOK, Row
<1>7. CASE Crash
  BY <1>7 DEF Crash, RolledBack
<1>8. CASE Tick \/ UNCHANGED vars \/ \E c \in Codes : Evict(c)
  BY <1>8 DEF Tick, Evict, vars
<1>. QED
  BY <1>1, <1>2, <1>3, <1>4, <1>5, <1>6, <1>7, <1>8 DEF Next, Step

\* The step of a request inside a write: it goes on with the same call, which ends or
\* stays what it is, and only the load puts it past the check of the owner.
LEMMA SameCall ==
  ASSUME Inv, NEW r \in Reqs, Step(r) \/ Fail(r), pc'[r] \in WritingPcs
  PROVE  /\ pc[r] \in WritingPcs
         /\ Verb[pc'[r]] = Verb[pc[r]]
         /\ link'[r] = link[r]
         /\ form'[r].user = form[r].user
<1>. USE DEF Goto, WritingPcs, Verb, CreatePcs, UpdatePcs, DeletePcs
<1>0. TypeOK
  BY DEF Inv
<1>1. CASE CheckAlias(r) \/ Probe(r)
  BY <1>1, <1>0 DEF CheckAlias, Probe, Refuse, Answer, Pass, TypeOK
<1>2. CASE Insert(r)
  BY <1>2, <1>0 DEF Insert, Refuse, Answer, OnlyCaller, BlankForm, TypeOK
<1>3. CASE FillOnCreate(r) \/ CommitCreate(r)
  BY <1>3, <1>0 DEF FillOnCreate, CommitCreate, Answer, TypeOK
<1>4. CASE LoadForUpdate(r)
  <2>1. pc[r] = "load_update"
    BY <1>4 DEF LoadForUpdate
  <2>2. form[r] \in Form /\ pc' \in [Reqs -> Pcs]
    BY <1>4, <1>0 DEF TypeOK, LoadForUpdate, Refuse, Answer, Pcs
  <2>3. CASE Refuse(r)
    BY <1>0, <2>3 DEF Refuse, Answer, TypeOK
  <2>4. CASE ~Refuse(r)
    <3>1. pc'[r] \in UpdatePcs /\ link' = link
      BY <1>4, <1>0, <2>4 DEF LoadForUpdate, TypeOK
    <3>2. form'[r].user = form[r].user
      <4>1. PICK a, d : form' = [form EXCEPT ![r] = [@ EXCEPT !.active = a, !.deadline = d]]
        BY <1>4, <2>4 DEF LoadForUpdate
      <4>2. form'[r] = [form[r] EXCEPT !.active = a, !.deadline = d]
        BY <1>0, <4>1 DEF TypeOK
      <4>. QED
        BY <2>2, <4>2 DEF Form
    <3>. QED
      BY <2>1, <3>1, <3>2
  <2>. QED
    BY <2>3, <2>4
<1>5. CASE FlushUpdate(r) \/ PurgeOnUpdate(r) \/ CommitUpdate(r)
  BY <1>5, <1>0 DEF FlushUpdate, PurgeOnUpdate, CommitUpdate, Refuse, Answer, Pass, Purge, TypeOK
<1>6. CASE DeleteStep(r)
  <2>1. pc \in [Reqs -> Pcs]
    BY <1>0 DEF TypeOK
  <2>2. CASE Refuse(r)
    BY <2>1, <2>2 DEF Refuse, Answer
  <2>3. CASE LoadForDelete(r) /\ ~Refuse(r)
    BY <2>1, <2>3 DEF LoadForDelete, Pass
  <2>4. CASE PurgeOnDelete(r)
    BY <2>1, <2>4 DEF PurgeOnDelete, Purge
  <2>5. CASE FlushDelete(r) /\ ~Refuse(r)
    BY <2>1, <2>5 DEF FlushDelete, Pass
  <2>6. CASE CommitDelete(r)
    BY <2>1, <2>6 DEF CommitDelete, Answer
  <2>. QED
    BY <1>6, <2>2, <2>3, <2>4, <2>5, <2>6 DEF DeleteStep
<1>7. CASE RedirectStep(r)
  <2>1. pc \in [Reqs -> Pcs]
    BY <1>0 DEF TypeOK
  <2>2. CASE Refuse(r)
    BY <2>1, <2>2 DEF Refuse, Answer
  <2>3. CASE CacheGet(r) /\ ~Refuse(r)
    BY <2>1, <2>3 DEF CacheGet
  <2>4. CASE Select(r) /\ ~Refuse(r)
    BY <2>1, <2>4 DEF Select
  <2>5. CASE Warm(r)
    BY <2>1, <2>5 DEF Warm
  <2>6. CASE Track(r)
    BY <2>1, <2>6 DEF Track, Pass
  <2>. QED
    BY <1>7, <2>2, <2>3, <2>4, <2>5, <2>6 DEF RedirectStep, Enqueue
<1>8. CASE Fail(r)
  BY <1>8, <1>0 DEF Fail, Answer, TypeOK
<1>. QED
  BY <1>1, <1>2, <1>3, <1>4, <1>5, <1>6, <1>7, <1>8 DEF Step, CreateStep, UpdateStep

\* A call that begins has a caller, unless it is a create.
LEMMA NewCall ==
  ASSUME Inv, NEW r \in Reqs, Start(r)
  PROVE  /\ pc[r] = "idle"
         /\ pc'[r] \in WritingPcs =>
              /\ pc'[r] \notin GrantedPcs \cup {"fill", "commit_create"}
              /\ link'[r] \in Ids
              /\ form'[r].user \in Users \cup {None}
              /\ pc'[r] \in UpdatePcs \cup DeletePcs => form'[r].user \in Users
<1>. USE DEF Goto, Begin, WritingPcs, GrantedPcs, LoadPcs, CreatePcs, UpdatePcs, DeletePcs, Inv,
             TypeOK
<1>1. CASE StartCreate(r)
  BY <1>1 DEF StartCreate
<1>2. CASE StartUpdate(r)
  BY <1>2 DEF StartUpdate
<1>3. CASE StartDelete(r)
  BY <1>3 DEF StartDelete, BlankForm
<1>4. CASE StartRedirect(r)
  BY <1>4 DEF StartRedirect
<1>. QED
  BY <1>1, <1>2, <1>3, <1>4 DEF Start

\* A request comes past the check of the owner only by passing it.
LEMMA OwnGrant ==
  ASSUME Inv, Authorised, NEW r \in Reqs, Step(r) \/ Fail(r), pc'[r] \in GrantedPcs
  PROVE  MayEdit(form[r].user, link[r])
<1>. USE DEF Goto, LoadPcs, GrantedPcs, UpdatePcs, DeletePcs
<1>0. pc \in [Reqs -> {pc[q] : q \in Reqs}]
  BY DEF Inv, TypeOK
<1>1. pc[r] \in GrantedPcs \cup LoadPcs
  BY SameCall DEF WritingPcs, Verb, CreatePcs
<1>2. CASE pc[r] \in GrantedPcs
  BY <1>2 DEF Authorised
<1>3. CASE pc[r] = "load_update"
  <2>1. LoadForUpdate(r) \/ Fail(r)
    BY <1>3 DEF Step, CreateStep, UpdateStep, DeleteStep, RedirectStep, CheckAlias, Probe, Insert,
                FillOnCreate, CommitCreate, FlushUpdate, PurgeOnUpdate, CommitUpdate, LoadForDelete,
                PurgeOnDelete, FlushDelete, CommitDelete, CacheGet, Select, Warm, Track, Enqueue
  <2>2. ~Fail(r) /\ ~Refuse(r)
    BY <1>0 DEF Fail, Refuse, Answer
  <2>. QED
    BY <2>1, <2>2 DEF LoadForUpdate
<1>4. CASE pc[r] = "load_delete"
  <2>1. LoadForDelete(r) \/ Fail(r)
    BY <1>4 DEF Step, CreateStep, UpdateStep, DeleteStep, RedirectStep, CheckAlias, Probe, Insert,
                FillOnCreate, CommitCreate, LoadForUpdate, FlushUpdate, PurgeOnUpdate, CommitUpdate,
                PurgeOnDelete, FlushDelete, CommitDelete, CacheGet, Select, Warm, Track, Enqueue
  <2>2. ~Fail(r) /\ ~Refuse(r)
    BY <1>0 DEF Fail, Refuse, Answer
  <2>. QED
    BY <2>1, <2>2 DEF LoadForDelete
<1>. QED
  BY <1>1, <1>2, <1>3, <1>4

\* The request that has inserted a row has made its caller the owner.
LEMMA OwnInsert ==
  ASSUME Inv, Authorised, NEW r \in Reqs, Step(r) \/ Fail(r),
         pc'[r] \in {"fill", "commit_create"}
  PROVE  rows'[link[r]].owner = form[r].user
<1>. USE DEF Goto, CreatePcs, UpdatePcs, DeletePcs
<1>0. pc \in [Reqs -> {pc[q] : q \in Reqs}]
  BY DEF Inv, TypeOK
<1>1. pc[r] \in CreatePcs
  BY SameCall DEF WritingPcs, Verb
<1>2. ~Fail(r) /\ ~Refuse(r)
  BY <1>0 DEF Fail, Refuse, Answer
<1>3. Insert(r) \/ FillOnCreate(r)
  <2>1. CreateStep(r)
    BY <1>1, <1>2 DEF Step, UpdateStep, DeleteStep, RedirectStep, LoadForUpdate, FlushUpdate,
                      PurgeOnUpdate, CommitUpdate, LoadForDelete, PurgeOnDelete, FlushDelete,
                      CommitDelete, CacheGet, Select, Warm, Track, Enqueue
  <2>. QED
    BY <2>1, <1>0, <1>2 DEF CreateStep, CheckAlias, Probe, CommitCreate, Pass, Answer
<1>4. link[r] \in Ids
  BY <1>1 DEF Inv, IndInv, RequestsPlaced, WorkingPcs
<1>5. CASE Insert(r)
  BY <1>2, <1>4, <1>5 DEF Insert, Inv, TypeOK
<1>6. CASE FillOnCreate(r)
  BY <1>6 DEF FillOnCreate, Authorised
<1>. QED
  BY <1>3, <1>5, <1>6

\* What is granted stays granted.
LEMMA AuthorisedStep == Inv /\ Authorised /\ [Next]_vars => Authorised'
<1>1. SUFFICES ASSUME Inv, Authorised, [Next]_vars, NEW r \in Reqs
               PROVE  /\ pc'[r] \in UpdatePcs \cup DeletePcs => form'[r].user \in Users
                      /\ pc'[r] \in GrantedPcs => MayEdit(form[r].user, link[r])'
                      /\ pc'[r] \in {"fill", "commit_create"} =>
                           rows'[link'[r]].owner = form'[r].user
  BY DEF Authorised
<1>2. ASSUME pc[r] \in WritingPcs \ {"check_alias", "probe", "insert"}
      PROVE  rows'[link[r]].owner = rows[link[r]].owner
  <2>1. link[r] \in Ids /\ rows[link[r]].status # "unborn"
    <3>1. pc[r] \in {"fill", "commit_create"} \cup UpdatePcs \cup DeletePcs
      BY <1>2 DEF WritingPcs, CreatePcs
    <3>2. pc[r] \in WorkingPcs
      BY <1>2 DEF WritingPcs, WorkingPcs
    <3>3. RequestsPlaced /\ RequestsConsistent
      BY <1>1 DEF Inv, IndInv
    <3>4. link[r] \in Ids
      BY <3>2, <3>3 DEF RequestsPlaced
    <3>5. CASE pc[r] \in {"fill", "commit_create"}
      BY <3>3, <3>4, <3>5 DEF RequestsConsistent
    <3>6. CASE pc[r] \in UpdatePcs \cup DeletePcs
      BY <3>3, <3>4, <3>6 DEF RequestsConsistent, Published
    <3>. QED
      BY <3>1, <3>4, <3>5, <3>6
  <2>. QED
    BY <1>1, <2>1, OwnersKept
<1>3. CASE Start(r)
  BY <1>3, <1>1, NewCall DEF WritingPcs, GrantedPcs, LoadPcs, CreatePcs, UpdatePcs, DeletePcs
<1>4. CASE Step(r) \/ Fail(r)
  <2>1. CASE pc'[r] \notin WritingPcs
    BY <2>1 DEF WritingPcs, GrantedPcs, CreatePcs
  <2>2. CASE pc'[r] \in WritingPcs
    <3>1. /\ pc[r] \in WritingPcs /\ Verb[pc'[r]] = Verb[pc[r]]
          /\ link'[r] = link[r] /\ form'[r].user = form[r].user
      BY <1>1, <1>4, <2>2, SameCall
    <3>2. pc'[r] \in UpdatePcs \cup DeletePcs => form'[r].user \in Users
      BY <1>1, <2>2, <3>1 DEF Authorised, Verb, WritingPcs, CreatePcs, UpdatePcs, DeletePcs
    <3>3. ASSUME pc'[r] \in GrantedPcs PROVE MayEdit(form[r].user, link[r])'
      <4>1. pc[r] \notin {"check_alias", "probe", "insert"}
        BY <3>1, <3>3 DEF Verb, WritingPcs, GrantedPcs, CreatePcs, UpdatePcs, DeletePcs
      <4>2. MayEdit(form[r].user, link[r])
        BY <1>1, <1>4, <3>3, OwnGrant
      <4>. QED
        BY <1>2, <3>1, <4>1, <4>2 DEF MayEdit
    <3>4. ASSUME pc'[r] \in {"fill", "commit_create"}
          PROVE  rows'[link'[r]].owner = form'[r].user
      BY <1>1, <1>4, <3>1, <3>4, OwnInsert
    <3>. QED
      BY <3>2, <3>3, <3>4
  <2>. QED
    BY <2>1, <2>2
<1>5. ASSUME pc'[r] = pc[r], link'[r] = link[r], form'[r] = form[r]
      PROVE  /\ pc'[r] \in UpdatePcs \cup DeletePcs => form'[r].user \in Users
             /\ pc'[r] \in GrantedPcs => MayEdit(form[r].user, link[r])'
             /\ pc'[r] \in {"fill", "commit_create"} => rows'[link'[r]].owner = form'[r].user
  <2>1. pc[r] \in GrantedPcs \cup {"fill", "commit_create"} =>
          rows'[link[r]].owner = rows[link[r]].owner
    BY <1>2 DEF WritingPcs, GrantedPcs, CreatePcs, UpdatePcs, DeletePcs
  <2>. QED
    BY <1>1, <1>5, <2>1 DEF Authorised, MayEdit
<1>6. CASE \E q \in Reqs \ {r} : Start(q) \/ Step(q) \/ Fail(q)
  BY <1>1, <1>5, <1>6, OwnOperands DEF Inv
<1>7. CASE Crash
  BY <1>7 DEF Crash, GrantedPcs, UpdatePcs, DeletePcs
<1>8. CASE Tick \/ UNCHANGED vars \/ \E c \in Codes : Evict(c)
  <2>1. UNCHANGED <<pc, link, form>>
    BY <1>8 DEF Tick, Evict, vars
  <2>. QED
    BY <1>5, <2>1
<1>. QED
  BY <1>1, <1>3, <1>4, <1>6, <1>7, <1>8 DEF Next

-----------------------------------------------------------------------------
\* The calls under way, those of the other requests and that of r.
Others(r)    == {CallOf(q) : q \in {p \in Reqs \ {r} : pc[p] \in WritingPcs}}
SplitFrom(r) == /\ Calls = Others(r) \cup (IF pc[r] \in WritingPcs THEN {CallOf(r)} ELSE {})
                /\ \A k \in Others(r) : k.req # r

\* A request has at most one call, before a step and after it.
LEMMA CallsSplit ==
  ASSUME NEW r \in Reqs
  PROVE  SplitFrom(r) /\ SplitFrom(r)'
BY DEF SplitFrom, Others, Calls, CallOf

\* A step of one request leaves the calls of the others alone.
LEMMA OthersCalls ==
  ASSUME Inv, NEW r \in Reqs, Start(r) \/ Step(r) \/ Fail(r)
  PROVE  Others(r)' = Others(r)
<1>1. \A q \in Reqs \ {r} : pc'[q] = pc[q] /\ link'[q] = link[q] /\ form'[q] = form[q]
  BY OwnOperands DEF Inv
<1>2. \A q \in Reqs \ {r} : CallOf(q)' = CallOf(q)
  BY <1>1 DEF CallOf
<1>. QED
  BY <1>1, <1>2 DEF Others

\* A write that is answered ends its call and no other.
LEMMA CallEnds ==
  ASSUME Inv, NEW r \in Reqs, Step(r), Answer(r), pc[r] \in WritingPcs
  PROVE  CallOf(r) \in Calls /\ Calls' = Calls \ {CallOf(r)}
<1>1. pc'[r] \notin WritingPcs
  BY EndedOthers DEF WritingPcs, CreatePcs, UpdatePcs, DeletePcs
<1>2. CallOf(r).req = r
  BY DEF CallOf
<1>3. Others(r)' = Others(r)
  BY OthersCalls
<1>4. Calls' = Others(r) /\ Calls = Others(r) \cup {CallOf(r)} /\ \A k \in Others(r) : k.req # r
  BY <1>1, <1>3, CallsSplit DEF SplitFrom
<1>. QED
  BY <1>2, <1>4

\* A step of a request makes a new call or none, and changes no call under way.
LEMMA CallsMove ==
  ASSUME Inv, NEW r \in Reqs, Start(r) \/ Step(r) \/ Fail(r), Table' = Table
  PROVE  Registry!RegistryNext
<1>1. /\ Others(r)' = Others(r) /\ \A k \in Others(r) : k.req # r
      /\ Calls = Others(r) \cup (IF pc[r] \in WritingPcs THEN {CallOf(r)} ELSE {})
      /\ Calls' = Others(r)' \cup (IF pc'[r] \in WritingPcs THEN {CallOf(r)'} ELSE {})
  BY OthersCalls, CallsSplit DEF SplitFrom
<1>2. CASE pc'[r] \notin WritingPcs
  <2>1. Calls' \subseteq Calls
    BY <1>1, <1>2
  <2>. QED
    BY <2>1 DEF Registry!RegistryNext, Registry!GiveUp
<1>3. CASE pc'[r] \in WritingPcs /\ ~Start(r)
  <2>1. pc[r] \in WritingPcs /\ CallOf(r)' = CallOf(r)
    BY <1>3, SameCall DEF CallOf
  <2>2. Calls' \subseteq Calls
    BY <1>1, <1>3, <2>1
  <2>. QED
    BY <2>2 DEF Registry!RegistryNext, Registry!GiveUp
<1>4. CASE pc'[r] \in WritingPcs /\ Start(r)
  <2>. DEFINE u == form'[r].user
              i == link'[r]
              verb == Verb[pc'[r]]
  <2>1. pc[r] = "idle" /\ i \in Ids /\ u \in Users \cup {None}
        /\ (pc'[r] \in UpdatePcs \cup DeletePcs => u \in Users)
    BY <1>4, NewCall
  <2>2. /\ verb \in {"create", "change", "remove"}
        /\ verb = "create" \/ u \in Users
    BY <1>4, <2>1 DEF Verb, WritingPcs
  <2>3. pc[r] \notin WritingPcs
    BY <2>1 DEF WritingPcs, CreatePcs, UpdatePcs, DeletePcs
  <2>4. /\ \A k \in Calls : k.req # r
        /\ Calls' = Calls \cup {CallOf(r)'}
    BY <1>1, <1>4, <2>3
  <2>5. CallOf(r)' = [req |-> r, who |-> u, id |-> i, verb |-> verb]
    BY DEF CallOf
  <2>. HIDE DEF u, i, verb
  <2>6. Registry!Call(r)
    BY <2>1, <2>2, <2>4, <2>5 DEF Registry!Call
  <2>. QED
    BY <2>6 DEF Registry!RegistryNext
<1>. QED
  BY <1>2, <1>3, <1>4

-----------------------------------------------------------------------------
\* A row's entry depends on what the registry knows of the row alone.
LEMMA EntryKept ==
  ASSUME NEW i \in Ids,
         \/ rows'[i] = rows[i]
         \/ rows[i].status \notin {"live", "gone"} /\ rows'[i].status \notin {"live", "gone"}
  PROVE  Entered(i)' = Entered(i)
BY DEF Entered, Live

\* The commit of a create opens its link for its caller, under a code that no open link has.
LEMMA CreateOpens ==
  ASSUME Inv, Authorised, NEW r \in Reqs, CommitCreate(r)
  PROVE  Registry!RegistryNext
<1>1. PICK i \in Ids :
        /\ i = link[r] /\ rows[i].status = "pending" /\ rows[i].code \in Codes
        /\ rows[i] \in Row /\ rows[i].active = TRUE
  BY DEF Inv, IndInv, TypeOK, RequestsPlaced, RequestsConsistent, RowsWellFormed, WorkingPcs,
         CreatePcs, CommitCreate
<1>2. /\ rows'[i] = [rows[i] EXCEPT !.status = "live"]
      /\ \A j \in Ids \ {i} : rows'[j] = rows[j]
  BY <1>1 DEF CommitCreate, Inv, TypeOK
<1>3. \A j \in Ids : Live(j) => rows[j].code # rows[i].code
  BY <1>1 DEF Inv, IndInv, KeysUnique, Live
<1>4. \A j \in Ids \ {i} : Entered(j)' = Entered(j)
  BY <1>2, EntryKept
<1>5. Table[i] = Registry!Absent
  BY <1>1 DEF Table, Entered, Live, Registry!Absent, Registry!Without
<1>6. Entered(i)' = Registry!Held(rows[i].code, rows[i].owner, TRUE, rows[i].deadline)
  BY <1>1, <1>2 DEF Entered, Live, Row, Registry!Held
<1>7. \A j \in Ids : Registry!IsOpen(j) => Table[j].code # rows[i].code
  BY <1>3 DEF Table, Registry!IsOpen, Entered, Live
<1>8. rows[i].deadline \in Deadlines
  BY <1>1 DEF Row
<1>9. /\ CallOf(r) \in Calls /\ Calls' = Calls \ {CallOf(r)}
      /\ CallOf(r).verb = "create" /\ CallOf(r).id = i /\ CallOf(r).who = rows[i].owner
  <2>1. pc[r] = "commit_create" /\ Answer(r) /\ Step(r)
    BY DEF CommitCreate, Step, CreateStep
  <2>2. CallOf(r).verb = "create" /\ CallOf(r).id = i
    BY <1>1, <2>1 DEF CallOf, Verb, WritingPcs, CreatePcs
  <2>3. CallOf(r).who = rows[i].owner
    BY <1>1, <2>1 DEF CallOf, Authorised
  <2>4. pc[r] \in WritingPcs
    BY <2>1 DEF WritingPcs, CreatePcs
  <2>. QED
    BY <2>1, <2>2, <2>3, <2>4, CallEnds
<1>10. Registry!Open(CallOf(r))
  <2>1. Table' = [Table EXCEPT ![i] =
           Registry!Held(rows[i].code, CallOf(r).who, TRUE, rows[i].deadline)]
    BY <1>1, <1>4, <1>6, <1>9 DEF Table
  <2>. QED
    BY <2>1, <1>1, <1>5, <1>7, <1>8, <1>9 DEF Registry!Open, Registry!Ends
<1>. QED
  BY <1>9, <1>10 DEF Registry!RegistryNext

\* The caller of a granted request may change what it works on.
LEMMA GrantedMayChange ==
  ASSUME Inv, Authorised, NEW r \in Reqs, pc[r] \in GrantedPcs, Live(link[r])
  PROVE  /\ link[r] \in Ids
         /\ Registry!IsOpen(link[r])
         /\ Registry!MayChange(form[r].user, link[r])
<1>1. link[r] \in Ids
  BY DEF Inv, IndInv, RequestsPlaced, WorkingPcs, GrantedPcs
<1>2. MayEdit(form[r].user, link[r])
  BY DEF Authorised
<1>. QED
  BY <1>1, <1>2 DEF Registry!IsOpen, Registry!MayChange, Table, Entered, MayEdit, Live

\* The commit of an update changes its link, or nothing when its body changed nothing.
LEMMA UpdateChanges ==
  ASSUME Inv, Authorised, NEW r \in Reqs, CommitUpdate(r), rows' \in [Ids -> Row]
  PROVE  Registry!RegistryNext
<1>1. PICK i \in Ids : i = link[r] /\ pc[r] = "commit_update" /\ rows \in [Ids -> Row]
  BY DEF Inv, IndInv, TypeOK, RequestsPlaced, WorkingPcs, UpdatePcs, CommitUpdate
<1>2. /\ \A j \in Ids \ {i} : rows'[j] = rows[j]
      /\ \E a \in BOOLEAN, d \in Deadlines : rows'[i] = [rows[i] EXCEPT !.active = a, !.deadline = d]
  <2>1. \A j \in Ids \ {i} : rows'[j] = rows[j]
    BY <1>1 DEF CommitUpdate
  <2>2. rows'[i] = [rows[i] EXCEPT !.active = rows'[i].active, !.deadline = rows'[i].deadline]
    BY <1>1 DEF CommitUpdate, Row
  <2>3. rows'[i].active \in BOOLEAN /\ rows'[i].deadline \in Deadlines
    BY <1>1 DEF Row
  <2>. QED
    BY <2>1, <2>2, <2>3
<1>3. \A j \in Ids \ {i} : Entered(j)' = Entered(j)
  BY <1>2, EntryKept
<1>0. /\ CallOf(r) \in Calls /\ Calls' = Calls \ {CallOf(r)}
      /\ CallOf(r).verb = "change" /\ CallOf(r).id = i /\ CallOf(r).who = form[r].user
  <2>1. Answer(r) /\ Step(r)
    BY DEF CommitUpdate, Step, UpdateStep
  <2>2. /\ pc[r] \in WritingPcs
        /\ CallOf(r).verb = "change" /\ CallOf(r).id = i /\ CallOf(r).who = form[r].user
    BY <1>1 DEF CallOf, Verb, WritingPcs, CreatePcs, UpdatePcs
  <2>. QED
    BY <2>1, <2>2, CallEnds
<1>4. CASE Live(i)
  <2>1. Registry!IsOpen(i) /\ Registry!MayChange(CallOf(r).who, i)
    BY <1>0, <1>1, <1>4, GrantedMayChange DEF GrantedPcs, LoadPcs, UpdatePcs
  <2>2. PICK a \in BOOLEAN, d \in Deadlines :
          rows'[i] = [rows[i] EXCEPT !.active = a, !.deadline = d]
    BY <1>2
  <2>3. Entered(i)' = Registry!Held(Table[i].code, Table[i].owner, a, d)
    <3>1. rows[i] \in Row /\ rows[i].status = "live"
      BY <1>1, <1>4 DEF Live
    <3>2. /\ rows'[i].status = "live" /\ rows'[i].active = a /\ rows'[i].deadline = d
          /\ rows'[i].code = rows[i].code /\ rows'[i].owner = rows[i].owner
      BY <3>1, <2>2 DEF Row
    <3>3. Table[i].code = rows[i].code /\ Table[i].owner = rows[i].owner
      BY <1>1, <3>1 DEF Table, Entered, Live
    <3>. QED
      BY <3>2, <3>3 DEF Entered, Live, Registry!Held
  <2>4. Table' = [Table EXCEPT ![i] = Registry!Held(Table[i].code, Table[i].owner, a, d)]
    BY <1>1, <1>3, <2>3 DEF Table
  <2>5. Registry!Change(CallOf(r))
    BY <1>0, <2>1, <2>4 DEF Registry!Change, Registry!Ends
  <2>. QED
    BY <1>0, <2>5 DEF Registry!RegistryNext
<1>5. CASE ~Live(i)
  <2>1. Entered(i)' = Entered(i)
    BY <1>1, <1>2, <1>5 DEF Entered, Live, Row
  <2>2. Table' = Table
    BY <1>3, <2>1 DEF Table
  <2>. QED
    BY <1>0, <2>2 DEF Registry!RegistryNext, Registry!GiveUp
<1>. QED
  BY <1>4, <1>5

\* The commit of a delete removes its link, or nothing when another was faster.
LEMMA DeleteRemoves ==
  ASSUME Inv, Authorised, NEW r \in Reqs, CommitDelete(r)
  PROVE  Registry!RegistryNext
<1>1. PICK i \in Ids :
        i = link[r] /\ pc[r] = "commit_delete" /\ rows \in [Ids -> Row] /\ Published(i)
  BY DEF Inv, IndInv, TypeOK, RequestsPlaced, RequestsConsistent, WorkingPcs, DeletePcs,
         CommitDelete
<1>2. /\ \A j \in Ids \ {i} : rows'[j] = rows[j]
      /\ rows'[i].status = "gone"
  BY <1>1 DEF CommitDelete, Row
<1>3. \A j \in Ids \ {i} : Entered(j)' = Entered(j)
  BY <1>2, EntryKept
<1>4. Entered(i)' = Registry!Removed
  BY <1>2 DEF Entered, Live, Registry!Removed, Registry!Without
<1>0. /\ CallOf(r) \in Calls /\ Calls' = Calls \ {CallOf(r)}
      /\ CallOf(r).verb = "remove" /\ CallOf(r).id = i /\ CallOf(r).who = form[r].user
  <2>1. Answer(r) /\ Step(r)
    BY DEF CommitDelete, Step, DeleteStep
  <2>2. /\ pc[r] \in WritingPcs
        /\ CallOf(r).verb = "remove" /\ CallOf(r).id = i /\ CallOf(r).who = form[r].user
    BY <1>1 DEF CallOf, Verb, WritingPcs, CreatePcs, UpdatePcs, DeletePcs
  <2>. QED
    BY <2>1, <2>2, CallEnds
<1>5. CASE Live(i)
  <2>1. Registry!IsOpen(i) /\ Registry!MayChange(CallOf(r).who, i)
    BY <1>0, <1>1, <1>5, GrantedMayChange DEF GrantedPcs, LoadPcs, DeletePcs
  <2>2. Table' = [Table EXCEPT ![i] = Registry!Removed]
    BY <1>1, <1>3, <1>4 DEF Table
  <2>3. Registry!Remove(CallOf(r))
    BY <1>0, <2>1, <2>2 DEF Registry!Remove, Registry!Ends
  <2>. QED
    BY <1>0, <2>3 DEF Registry!RegistryNext
<1>6. CASE ~Live(i)
  <2>1. Entered(i) = Registry!Removed
    BY <1>1, <1>6 DEF Entered, Live, Published, Registry!Removed, Registry!Without
  <2>2. Table' = Table
    BY <1>3, <1>4, <2>1 DEF Table
  <2>. QED
    BY <1>0, <2>2 DEF Registry!RegistryNext, Registry!GiveUp
<1>. QED
  BY <1>5, <1>6

\* Every other step leaves the book alone: inserts and rollbacks are not in it.
LEMMA OthersInvisible ==
  ASSUME Inv, [Next]_vars,
         \A r \in Reqs : ~CommitCreate(r) /\ ~CommitUpdate(r) /\ ~CommitDelete(r)
  PROVE  Table' = Table
<1>. USE DEF Goto, Refuse, Answer, Pass, Begin, Purge
<1>. DEFINE Same == \A i \in Ids : \/ rows'[i] = rows[i]
                                  \/ /\ rows[i].status \notin {"live", "gone"}
                                     /\ rows'[i].status \notin {"live", "gone"}
<1>0. TypeOK /\ RequestsConsistent /\ RequestsPlaced
  BY DEF Inv, IndInv
<1>1. ASSUME NEW r \in Reqs, Start(r) \/ RedirectStep(r) PROVE Same
  BY <1>1 DEF Start, StartCreate, StartUpdate, StartDelete, StartRedirect,
              RedirectStep, CacheGet, Select, Warm, Track, Enqueue
<1>2. ASSUME NEW r \in Reqs, UpdateStep(r) \/ DeleteStep(r) PROVE Same
  BY <1>2 DEF UpdateStep, LoadForUpdate, FlushUpdate, PurgeOnUpdate,
              DeleteStep, LoadForDelete, PurgeOnDelete, FlushDelete
<1>3. ASSUME NEW r \in Reqs, CreateStep(r) PROVE Same
  <2>1. CASE Insert(r)
    <3>1. link[r] \in Ids /\ rows[link[r]].status = "unborn"
      BY <2>1, <1>0 DEF Insert, RequestsConsistent, RequestsPlaced, WorkingPcs, CreatePcs
    <3>2. \A i \in Ids \ {link[r]} : rows'[i] = rows[i]
      BY <2>1, <1>0 DEF Insert, TypeOK
    <3>3. rows'[link[r]] = rows[link[r]] \/ rows'[link[r]].status = "pending"
      BY <2>1, <3>1, <1>0 DEF Insert, TypeOK
    <3>. QED
      BY <3>1, <3>2, <3>3
  <2>2. CASE CheckAlias(r) \/ Probe(r) \/ FillOnCreate(r)
    BY <2>2 DEF CheckAlias, Probe, FillOnCreate
  <2>. QED
    BY <1>3, <2>1, <2>2 DEF CreateStep
<1>4. ASSUME NEW r \in Reqs, Fail(r) PROVE Same
  <2>1. rows' = rows \/ rows' = [rows EXCEPT ![link[r]] = RolledBack(link[r])]
    BY <1>4 DEF Fail
  <2>2. \A i \in Ids : rows'[i] = rows[i] \/ rows'[i] = RolledBack(i)
    BY <2>1, <1>0 DEF TypeOK
  <2>. QED
    BY <2>2, <1>0 DEF RolledBack, TypeOK, Row
<1>5. ASSUME Crash PROVE Same
  BY <1>5, <1>0 DEF Crash, RolledBack, TypeOK, Row
<1>6. ASSUME Tick \/ UNCHANGED vars \/ \E c \in Codes : Evict(c) PROVE Same
  BY <1>6 DEF Tick, Evict, vars
<1>7. Same
  BY <1>1, <1>2, <1>3, <1>4, <1>5, <1>6 DEF Next, Step
<1>. QED
  BY <1>7, EntryKept DEF Table

\* Every step is one of the registry or changes nothing of it.
LEMMA RegistryStep ==
  ASSUME Inv, Authorised, [Next]_vars
  PROVE  Registry!RegistryNext
<1>1. rows' \in [Ids -> Row]
  BY InvStep DEF Inv, TypeOK
<1>2. CASE \E r \in Reqs : CommitCreate(r) \/ CommitUpdate(r) \/ CommitDelete(r)
  BY <1>1, <1>2, CreateOpens, UpdateChanges, DeleteRemoves
<1>3. CASE \A r \in Reqs : ~CommitCreate(r) /\ ~CommitUpdate(r) /\ ~CommitDelete(r)
  <2>1. Table' = Table
    BY <1>3, OthersInvisible
  <2>2. CASE \E r \in Reqs : Start(r) \/ Step(r) \/ Fail(r)
    BY <2>1, <2>2, CallsMove
  <2>3. CASE Crash
    <3>1. Calls' = {}
      BY <2>3 DEF Crash, Calls, WritingPcs, CreatePcs, UpdatePcs, DeletePcs
    <3>. QED
      BY <2>1, <3>1 DEF Registry!RegistryNext, Registry!GiveUp
  <2>4. CASE Tick \/ UNCHANGED vars \/ \E c \in Codes : Evict(c)
    <3>1. UNCHANGED <<pc, link, form>>
      BY <2>4 DEF Tick, Evict, vars
    <3>2. Calls' = Calls
      BY <3>1 DEF Calls, CallOf
    <3>. QED
      BY <2>1, <3>2 DEF Registry!RegistryNext, Registry!GiveUp
  <2>. QED
    BY <2>2, <2>3, <2>4 DEF Next
<1>. QED
  BY <1>2, <1>3

\* To its clients the table is a registry in which links are opened, changed and removed
\* one at a time, each under the rights of the user whose request does it: what a request
\* opens belongs to its caller, and it changes or removes a link only if its caller is
\* the owner or an administrator, for any number of requests, failures and restarts.
THEOREM TableIsRegistry == Spec => ImplementsRegistry
<1>1. Init => Authorised
  BY DEF Init, Authorised, GrantedPcs, UpdatePcs, DeletePcs
<1>2. Init => Registry!RegistryInit
  <2>1. ASSUME Init, NEW i \in Ids PROVE Entered(i) = Registry!Absent
    BY <2>1 DEF Init, BlankRow, Entered, Live, Registry!Absent, Registry!Without
  <2>2. ASSUME Init PROVE Calls = {}
    BY <2>2 DEF Init, Calls, WritingPcs, CreatePcs, UpdatePcs, DeletePcs
  <2>. QED
    BY <2>1, <2>2 DEF Table, Registry!RegistryInit
<1>3. Inv /\ Authorised /\ [Next]_vars => [Registry!RegistryNext]_<<Table, Calls>>
  BY RegistryStep
<1>4. Spec => []Authorised
  BY <1>1, AuthorisedStep, Invariance, PTL DEF Spec
<1>. QED
  BY <1>2, <1>3, <1>4, Invariance, PTL DEF Spec, ImplementsRegistry, Registry!RegistrySpec

=============================================================================
