-------------------------- MODULE DashboardSyncProofs --------------------------
(***************************************************************************)
(* What a full refresh has dropped from the dashboard stays away, the page *)
(* never holds more than an answer, and one that has caught up with a log  *)
(* stays so until the log changes: for a log of any length, answers of any *)
(* size.                                                                   *)
(***************************************************************************)
EXTENDS DashboardSync, FiniteSetTheorems, WellFoundedInduction, TLAPS

FetchRecord == [full : BOOLEAN, since : {0} \cup {Cursor(rows) : rows \in SUBSET Entries},
                at : {"sent", "answered"}, rows : SUBSET Entries, deleted : SUBSET Entries]

(* A number is given to one entry, which is on its way, in the log, or     *)
(* deleted for good.                                                       *)
LogInv ==
    /\ begun \in 0..Top
    /\ writing \subseteq 1..begun /\ log \subseteq 1..begun /\ deleted \subseteq 1..begun
    /\ writing \cap log = {} /\ writing \cap deleted = {} /\ log \cap deleted = {}

(* Answers do not overlap, and the one on its way holds nothing that had   *)
(* been deleted when it was put together, or dropped from the page since.  *)
FetchInv ==
    /\ fetches \subseteq FetchRecord
    /\ \A f, g \in fetches : f = g
    /\ \A f \in fetches : f.at = "answered" =>
          f.rows \cap (gone \cup f.deleted) = {} /\ f.deleted \subseteq deleted

SyncInv ==
    /\ LogInv
    /\ FetchInv
    /\ entries \subseteq Entries /\ gone \subseteq deleted /\ fullDue \in BOOLEAN
    /\ NoResurrection

-----------------------------------------------------------------------------
LEMMA NewestSelects ==
    ASSUME NEW rows
    PROVE  Newest(rows) \subseteq rows
  BY DEF Newest

LEMMA LogInEntries ==
    ASSUME LogInv
    PROVE  log \subseteq Entries /\ deleted \subseteq Entries
  BY SyncConstants DEF LogInv, Entries

LEMMA NewFetchTyped ==
    ASSUME entries \subseteq Entries, NEW full \in BOOLEAN
    PROVE  NewFetch(full) \in FetchRecord /\ NewFetch(full).at = "sent"
<1>1. (IF full THEN 0 ELSE Cursor(entries)) \in {0} \cup {Cursor(rows) : rows \in SUBSET Entries}
  OBVIOUS
<1>2. QED
  BY <1>1 DEF NewFetch, FetchRecord

(* fetchData() keeps the order of answers. *)
LEMMA FetchDataPreserves ==
    ASSUME SyncInv, NEW full \in BOOLEAN, FetchData(full), gone' = gone, deleted' = deleted
    PROVE  FetchInv'
<1>1. CASE fetches = {}
  <2>1. fetches' = {NewFetch(full)}
    BY <1>1 DEF FetchData
  <2>2. NewFetch(full) \in FetchRecord /\ NewFetch(full).at = "sent"
    BY NewFetchTyped DEF SyncInv
  <2>3. QED
    BY <2>1, <2>2 DEF FetchInv
<1>2. CASE fetches # {}
  BY <1>2 DEF FetchData, SyncInv, FetchInv
<1>3. QED
  BY <1>1, <1>2

(* Nothing in the log comes back to it. *)
LEMMA DeletePreserves ==
    ASSUME SyncInv, NEW rows, Delete(rows), UNCHANGED page
    PROVE  /\ LogInv'
           /\ UNCHANGED fetches => SyncInv'
<1>1. LogInv'
  BY DEF SyncInv, LogInv, Delete
<1>2. ASSUME UNCHANGED fetches PROVE SyncInv'
  BY <1>1, <1>2 DEF SyncInv, FetchInv, Delete, page, NoResurrection
<1>3. QED
  BY <1>1, <1>2

LEMMA DataAnswersPreserves ==
    ASSUME SyncInv, NEW f \in fetches, DataAnswers(f)
    PROVE  SyncInv'
<1> DEFINE rows == Newest({e \in log : e >= f.since})
           answer == [f EXCEPT !.at = "answered", !.deleted = deleted, !.rows = rows]
<1>1. rows \subseteq log
  BY NewestSelects
<1>2. f \in FetchRecord /\ fetches = {f}
  BY DEF SyncInv, FetchInv
<1>3. rows \in SUBSET Entries /\ deleted \in SUBSET Entries
  BY <1>1, LogInEntries DEF SyncInv
<1>4. /\ answer \in FetchRecord
      /\ answer.at = "answered" /\ answer.deleted = deleted /\ answer.rows = rows
  <2> HIDE DEF rows
  <2>1. QED
    BY <1>2, <1>3 DEF FetchRecord
<1>5. fetches' = {answer}
  BY <1>2 DEF DataAnswers
<1>6. rows \cap (gone \cup deleted) = {}
  BY <1>1 DEF SyncInv, LogInv
<1>7. UNCHANGED <<begun, writing, log, deleted, entries, gone, fullDue>>
  BY DEF DataAnswers, server, page
<1>8. FetchInv'
  <2> HIDE DEF answer, rows
  <2>1. QED
    BY <1>4, <1>5, <1>6, <1>7 DEF FetchInv
<1>9. QED
  BY <1>7, <1>8 DEF SyncInv, LogInv, NoResurrection

LEMMA ReplacePreserves ==
    ASSUME SyncInv, NEW f \in fetches, ReplaceEntries(f)
    PROVE  SyncInv'
<1>1. f \in FetchRecord /\ fetches = {f}
  BY DEF SyncInv, FetchInv
<1>2. f.rows \cap (gone \cup f.deleted) = {} /\ f.deleted \subseteq deleted
  BY DEF SyncInv, FetchInv, ReplaceEntries
<1>3. f.rows \subseteq Entries
  BY <1>1 DEF FetchRecord
<1>4. fetches' = {} /\ UNCHANGED <<begun, writing, log, deleted>>
  BY <1>1 DEF ReplaceEntries, server
<1>5. QED
  BY <1>2, <1>3, <1>4 DEF SyncInv, LogInv, FetchInv, ReplaceEntries, NoResurrection

LEMMA MergePreserves ==
    ASSUME SyncInv, NEW f \in fetches, MergeEntries(f)
    PROVE  SyncInv'
<1>1. f \in FetchRecord /\ fetches = {f}
  BY DEF SyncInv, FetchInv
<1>2. f.rows \cap gone = {}
  BY DEF SyncInv, FetchInv, MergeEntries
<1>3. entries' \subseteq entries \cup f.rows
  BY NewestSelects DEF MergeEntries
<1>4. f.rows \subseteq Entries
  BY <1>1 DEF FetchRecord
<1>5. fetches' = {} /\ UNCHANGED <<begun, writing, log, deleted, gone, fullDue>>
  BY <1>1 DEF MergeEntries, server
<1>6. QED
  BY <1>2, <1>3, <1>4, <1>5 DEF SyncInv, LogInv, FetchInv, NoResurrection

-----------------------------------------------------------------------------
LEMMA SyncStart ==
    ASSUME Init
    PROVE  SyncInv
  BY SyncConstants DEF Init, SyncInv, LogInv, FetchInv, NoResurrection

LEMMA SyncStep ==
    ASSUME SyncInv, [Next]_vars
    PROVE  SyncInv'
<1>1. CASE BeginEntry
  <2>1. begun \in 0..Top /\ begun < Top /\ begun' = begun + 1
    BY <1>1 DEF SyncInv, LogInv, BeginEntry
  <2>2. begun + 1 \notin log /\ begun + 1 \notin deleted
    BY <2>1 DEF SyncInv, LogInv
  <2>3. LogInv'
    BY <1>1, <2>1, <2>2, SyncConstants DEF SyncInv, LogInv, BeginEntry
  <2>4. QED
    BY <1>1, <2>3 DEF SyncInv, FetchInv, BeginEntry, page, NoResurrection
<1>2. ASSUME NEW e \in Entries, AppendAudit(e)
      PROVE  SyncInv'
  <2>1. LogInv'
    BY <1>2 DEF SyncInv, LogInv, AppendAudit
  <2>2. QED
    BY <1>2, <2>1 DEF SyncInv, FetchInv, AppendAudit, page, NoResurrection
<1>3. ASSUME NEW e \in Entries, AppendFails(e)
      PROVE  SyncInv'
  <2>1. LogInv'
    BY <1>3 DEF SyncInv, LogInv, AppendFails
  <2>2. QED
    BY <1>3, <2>1 DEF SyncInv, FetchInv, AppendFails, page, NoResurrection
<1>4. ASSUME NEW e \in Entries, Prune(e)
      PROVE  SyncInv'
  BY <1>4, DeletePreserves DEF Prune
<1>5. ASSUME NEW rows, DeleteLogs(rows)
      PROVE  SyncInv'
  BY <1>5, DeletePreserves DEF DeleteLogs
<1>6. ASSUME NEW full \in BOOLEAN, FetchData(full),
             UNCHANGED <<begun, writing, log, deleted, entries, gone, fullDue>>
      PROVE  SyncInv'
  <2>1. FetchInv'
    BY <1>6, FetchDataPreserves
  <2>2. QED
    BY <1>6, <2>1 DEF SyncInv, LogInv, NoResurrection
<1>7. ASSUME UNCHANGED <<begun, writing, log, deleted, entries, gone>>,
             fetches' \subseteq fetches, fullDue' \in BOOLEAN
      PROVE  SyncInv'
  BY <1>7 DEF SyncInv, LogInv, FetchInv, NoResurrection
<1>8. CASE Poll
  <2>1. fullDue \in BOOLEAN
    BY DEF SyncInv
  <2>2. QED
    BY <1>6, <1>8, <2>1 DEF Poll, server, page
<1>9. CASE Unhide
  <2>1. fullDue \in BOOLEAN
    BY DEF SyncInv
  <2>2. QED
    BY <1>6, <1>9, <2>1 DEF Unhide, server
<1>10. CASE ToggleLive \/ Refresh \/ RemovalReturns
  BY <1>6, <1>10 DEF ToggleLive, Refresh, RemovalReturns, server, page
<1>11. CASE MinutePasses \/ Hide \/ RemovalFails \/ UNCHANGED vars
  BY <1>7, <1>11 DEF SyncInv, MinutePasses, Hide, RemovalFails, vars, server, page
<1>12. ASSUME NEW f \in fetches, FetchFails(f)
       PROVE  SyncInv'
  BY <1>7, <1>12 DEF SyncInv, FetchFails, server, page
<1>13. ASSUME NEW e \in Entries, DeleteEntries(e)
       PROVE  SyncInv'
  BY <1>5, <1>13 DEF DeleteEntries
<1>14. ASSUME NEW ids \in SUBSET Entries, DeleteByIds(ids)
       PROVE  SyncInv'
  BY <1>5, <1>14 DEF DeleteByIds
<1>15. QED
  BY <1>1, <1>2, <1>3, <1>4, <1>8, <1>9, <1>10, <1>11, <1>12, <1>13, <1>14,
     DataAnswersPreserves, ReplacePreserves, MergePreserves DEF Next

(* Whatever rows are written, pruned and deleted while fetches are under   *)
(* way, an entry that a full refresh has dropped never returns to the page.*)
THEOREM ResurrectionExcluded == Spec => []NoResurrection
<1>1. Init => SyncInv
  BY SyncStart
<1>2. SyncInv /\ [Next]_vars => SyncInv'
  BY SyncStep
<1>3. SyncInv => NoResurrection
  BY DEF SyncInv
<1>4. QED
  BY <1>1, <1>2, <1>3, PTL DEF Spec

-----------------------------------------------------------------------------
(* A family of subsets of a finite set has a smallest one. *)
LEMMA SmallestSubset ==
    ASSUME NEW S, IsFiniteSet(S), NEW T, T \subseteq SUBSET S, T # {}
    PROVE  \E x \in T : \A y \in T : y \subseteq x => y = x
<1>1. FiniteSubsetsOf(S) = SUBSET S
  BY FS_FiniteSubsetsOfFinite
<1>2. IsWellFoundedOn(StrictSubsetOrdering(S), SUBSET S)
  BY <1>1, FS_StrictSubsetOrderingWellFounded
<1>3. PICK x \in T : \A y \in T : ~(<<y, x>> \in StrictSubsetOrdering(S))
  BY <1>2, WFMin
<1>4. QED
  BY <1>3 DEF StrictSubsetOrdering

(* A finite set of numbers has a lowest one. *)
LEMMA LowestEntry ==
    ASSUME NEW S, IsFiniteSet(S), \A x \in S : x \in Int, S # {}
    PROVE  \E m \in S : \A e \in S : m <= e
<1> DEFINE upTo(e) == {f \in S : f <= e}
           T == {upTo(e) : e \in S}
<1>1. T \subseteq SUBSET S /\ T # {}
  OBVIOUS
<1>2. PICK x \in T : \A y \in T : y \subseteq x => y = x
  <2> HIDE DEF T
  <2>1. QED
    BY <1>1, SmallestSubset
<1>3. PICK m \in S : x = upTo(m)
  OBVIOUS
<1>4. ASSUME NEW e \in S
      PROVE  m <= e
  <2>1. CASE e <= m
    <3>0. upTo(e) \in T
      OBVIOUS
    <3>1. upTo(e) \subseteq upTo(m)
      <4>1. ASSUME NEW f \in S, f <= e
            PROVE  f <= m
        <5>1. f \in Int /\ e \in Int /\ m \in Int
          OBVIOUS
        <5>2. QED
          BY <2>1, <4>1, <5>1
      <4>2. QED
        BY <4>1
    <3>2. upTo(e) = upTo(m)
      BY <1>2, <1>3, <3>0, <3>1
    <3>3. m \in upTo(m)
      OBVIOUS
    <3>4. QED
      BY <3>2, <3>3
  <2>2. QED
    BY <2>1
<1>5. QED
  BY <1>4

(* A finite set of numbers has a highest one. *)
LEMMA HighestEntry ==
    ASSUME NEW S, IsFiniteSet(S), \A x \in S : x \in Int, S # {}
    PROVE  \E m \in S : \A e \in S : e <= m
<1> DEFINE from(e) == {f \in S : e <= f}
           T == {from(e) : e \in S}
<1>1. T \subseteq SUBSET S /\ T # {}
  OBVIOUS
<1>2. PICK x \in T : \A y \in T : y \subseteq x => y = x
  <2> HIDE DEF T
  <2>1. QED
    BY <1>1, SmallestSubset
<1>3. PICK m \in S : x = from(m)
  OBVIOUS
<1>4. ASSUME NEW e \in S
      PROVE  e <= m
  <2>1. CASE m <= e
    <3>0. from(e) \in T
      OBVIOUS
    <3>1. from(e) \subseteq from(m)
      <4>1. ASSUME NEW f \in S, e <= f
            PROVE  m <= f
        <5>1. f \in Int /\ e \in Int /\ m \in Int
          OBVIOUS
        <5>2. QED
          BY <2>1, <4>1, <5>1
      <4>2. QED
        BY <4>1
    <3>2. from(e) = from(m)
      BY <1>2, <1>3, <3>0, <3>1
    <3>3. m \in from(m)
      OBVIOUS
    <3>4. QED
      BY <3>2, <3>3
  <2>2. QED
    BY <2>1
<1>5. QED
  BY <1>4

LEMMA EntriesAreNumbers == IsFiniteSet(Entries) /\ \A e \in Entries : e \in Int
<1>1. Top \in Nat
  BY SyncConstants
<1>2. IsFiniteSet(1..Top)
  BY <1>1, FS_Interval
<1>3. QED
  BY <1>1, <1>2 DEF Entries

(* The cursor is an entry, or zero. *)
LEMMA CursorTyped ==
    ASSUME NEW rows \in SUBSET Entries
    PROVE  Cursor(rows) \in 0..Top
<1>1. CASE rows = {}
  BY <1>1, SyncConstants DEF Cursor
<1>2. CASE rows # {}
  <2>1. IsFiniteSet(rows) /\ \A e \in rows : e \in Int
    BY EntriesAreNumbers, FS_Subset
  <2>2. PICK e \in rows : \A f \in rows : f <= e
    BY <1>2, <2>1, HighestEntry
  <2>3. Cursor(rows) \in rows
    BY <1>2, <2>2 DEF Cursor
  <2>4. Top \in Nat /\ Cursor(rows) \in 1..Top
    BY <2>3, SyncConstants DEF Entries
  <2>5. PICK c : c = Cursor(rows)
    OBVIOUS
  <2>6. QED
    BY <2>4, <2>5
<1>3. QED
  BY <1>1, <1>2

(* No more rows are newest than an answer holds: the oldest of them has    *)
(* fewer above it.                                                         *)
LEMMA NewestAreFew ==
    ASSUME NEW rows \in SUBSET Entries
    PROVE  IsFiniteSet(Newest(rows)) /\ Cardinality(Newest(rows)) <= Limit
<1>1. IsFiniteSet(rows) /\ \A e \in rows : e \in Int
  BY EntriesAreNumbers, FS_Subset
<1>2. IsFiniteSet(Newest(rows)) /\ \A e \in Newest(rows) : e \in Int
  BY <1>1, NewestSelects, FS_Subset
<1>3. Limit \in Nat \ {0}
  BY SyncConstants
<1>4. CASE Newest(rows) = {}
  BY <1>2, <1>3, <1>4, FS_EmptySet
<1>5. CASE Newest(rows) # {}
  <2>1. PICK m \in Newest(rows) : \A e \in Newest(rows) : m <= e
    BY <1>2, <1>5, LowestEntry
  <2> DEFINE above == {f \in rows : f > m}
  <2>2. Cardinality(above) < Limit
    BY <2>1 DEF Newest
  <2>3. IsFiniteSet(above) /\ m \notin above
    BY <1>1, <1>2, FS_Subset
  <2>4. Newest(rows) \subseteq above \cup {m}
    <3>1. ASSUME NEW e \in Newest(rows), e # m
          PROVE  e \in above
      BY <1>2, <2>1, <3>1, NewestSelects
    <3>2. QED
      BY <3>1
  <2> HIDE DEF above
  <2>5. IsFiniteSet(above \cup {m}) /\ Cardinality(above \cup {m}) = Cardinality(above) + 1
        /\ Cardinality(above) \in Nat
    BY <2>3, FS_AddElement, FS_CardinalityType
  <2>6. Cardinality(Newest(rows)) <= Cardinality(above \cup {m})
        /\ Cardinality(Newest(rows)) \in Nat
    BY <1>2, <2>4, <2>5, FS_Subset, FS_CardinalityType
  <2>7. QED
    BY <1>2, <1>3, <2>2, <2>5, <2>6
<1>6. QED
  BY <1>4, <1>5

(* What the page holds, and what is on its way to it, has begun, and is    *)
(* short enough.                                                           *)
PageInv ==
    /\ entries \subseteq 1..begun /\ Cardinality(entries) <= Limit
    /\ \A f \in fetches : f.rows \subseteq 1..begun
                          /\ (f.at = "answered" => Cardinality(f.rows) <= Limit)
    /\ removals \in 0..MaxRemovals
    /\ mode \in {"live", "hidden", "paused"}

LEMMA PageStart ==
    ASSUME Init
    PROVE  PageInv
<1>1. Cardinality({}) = 0 /\ Limit \in Nat /\ MaxRemovals \in Nat
  BY FS_EmptySet, SyncConstants
<1>2. QED
  BY <1>1 DEF Init, PageInv

LEMMA FetchDataKeeps ==
    ASSUME PageInv, NEW full, FetchData(full), UNCHANGED <<begun, entries>>,
           removals' \in 0..MaxRemovals, mode' \in {"live", "hidden", "paused"}
    PROVE  PageInv'
<1>1. NewFetch(full).rows = {} /\ NewFetch(full).at = "sent"
  BY DEF NewFetch
<1>2. QED
  BY <1>1 DEF PageInv, FetchData

LEMMA PageUntouched ==
    ASSUME PageInv, UNCHANGED <<begun, entries>>, fetches' \subseteq fetches,
           removals' \in 0..MaxRemovals, mode' \in {"live", "hidden", "paused"}
    PROVE  PageInv'
  BY DEF PageInv

LEMMA PageStep ==
    ASSUME SyncInv, PageInv, [Next]_vars
    PROVE  PageInv'
<1>0. /\ removals \in 0..MaxRemovals /\ MaxRemovals \in Nat
      /\ mode \in {"live", "hidden", "paused"} /\ begun \in 0..Top /\ Top \in Nat
      /\ log \subseteq 1..begun
  BY SyncConstants DEF PageInv, SyncInv, LogInv
<1>1. CASE BeginEntry
  <2>1. 1..begun \subseteq 1..begun'
    BY <1>0, <1>1 DEF BeginEntry
  <2>2. QED
    BY <1>1, <2>1 DEF BeginEntry, PageInv, page
<1>2. ASSUME NEW e \in Entries, AppendAudit(e) \/ AppendFails(e) \/ Prune(e)
      PROVE  PageInv'
  BY <1>0, <1>2, PageUntouched DEF AppendAudit, AppendFails, Prune, Delete, page
<1>3. ASSUME NEW rows, DeleteLogs(rows)
      PROVE  PageInv'
  <2>1. removals + 1 \in 0..MaxRemovals
    BY <1>0, <1>3 DEF DeleteLogs
  <2>2. QED
    BY <1>0, <1>3, <2>1, PageUntouched DEF DeleteLogs, Delete, page
<1>4. CASE \E e \in Entries : DeleteEntries(e)
  BY <1>3, <1>4 DEF DeleteEntries
<1>5. CASE \E ids \in SUBSET Entries : DeleteByIds(ids)
  BY <1>3, <1>5 DEF DeleteByIds
<1>6. CASE Poll \/ Refresh
  BY <1>0, <1>6, FetchDataKeeps DEF Poll, Refresh, server, page
<1>7. CASE ToggleLive \/ Unhide
  BY <1>0, <1>7, FetchDataKeeps DEF ToggleLive, Unhide, server
<1>8. CASE MinutePasses \/ Hide
  BY <1>0, <1>8, PageUntouched DEF MinutePasses, Hide, server
<1>9. ASSUME NEW f \in fetches, DataAnswers(f)
      PROVE  PageInv'
  <2> DEFINE rows == Newest({e \in log : e >= f.since})
             answer == [f EXCEPT !.at = "answered", !.deleted = deleted, !.rows = rows]
  <2>1. f \in FetchRecord
    BY DEF SyncInv, FetchInv
  <2>2. rows \subseteq log
    BY NewestSelects
  <2>3. Cardinality(rows) <= Limit
    BY NewestAreFew, LogInEntries DEF SyncInv
  <2>4. fetches' = (fetches \ {f}) \cup {answer}
        /\ UNCHANGED <<begun, entries, removals, mode>>
    BY <1>9 DEF DataAnswers, server, page
  <2> HIDE DEF rows
  <2>5. answer.rows = rows
    BY <2>1 DEF FetchRecord
  <2> HIDE DEF answer
  <2>6. QED
    BY <1>0, <2>2, <2>3, <2>4, <2>5 DEF PageInv
<1>10. ASSUME NEW f \in fetches, ReplaceEntries(f)
       PROVE  PageInv'
  BY <1>0, <1>10 DEF ReplaceEntries, server, PageInv
<1>11. ASSUME NEW f \in fetches, MergeEntries(f)
       PROVE  PageInv'
  <2>1. entries \cup f.rows \subseteq 1..begun
    BY DEF PageInv
  <2>2. entries \cup f.rows \subseteq Entries
    BY <1>0, <2>1 DEF Entries
  <2>3. entries' \subseteq 1..begun /\ Cardinality(entries') <= Limit
    BY <1>11, <2>1, <2>2, NewestSelects, NewestAreFew DEF MergeEntries
  <2>4. QED
    BY <1>0, <1>11, <2>3 DEF MergeEntries, server, PageInv
<1>12. ASSUME NEW f \in fetches, FetchFails(f)
       PROVE  PageInv'
  BY <1>0, <1>12, PageUntouched DEF FetchFails, server, page
<1>13. CASE RemovalReturns
  <2>1. removals - 1 \in 0..MaxRemovals
    BY <1>0, <1>13 DEF RemovalReturns
  <2>2. QED
    BY <1>0, <1>13, <2>1, FetchDataKeeps DEF RemovalReturns, server, page
<1>14. CASE RemovalFails
  <2>1. removals - 1 \in 0..MaxRemovals
    BY <1>0, <1>14 DEF RemovalFails
  <2>2. QED
    BY <1>0, <1>14, <2>1, PageUntouched DEF RemovalFails, server, page
<1>15. CASE UNCHANGED vars
  BY <1>0, <1>15, PageUntouched DEF vars, server, page
<1>16. QED
  BY <1>1, <1>2, <1>4, <1>5, <1>6, <1>7, <1>8, <1>9, <1>10, <1>11, <1>12, <1>13, <1>14, <1>15
     DEF Next

(* However many polls are merged, the page never holds more entries than   *)
(* an answer, and none that has not been begun.                            *)
THEOREM SyncTypeCorrect == Spec => []TypeOK
<1>1. Init => SyncInv /\ PageInv
  BY SyncStart, PageStart
<1>2. SyncInv /\ PageInv /\ [Next]_vars => (SyncInv /\ PageInv)'
  BY SyncStep, PageStep
<1>3. SyncInv /\ PageInv => TypeOK
  <2> SUFFICES ASSUME SyncInv, PageInv
               PROVE  TypeOK
    OBVIOUS
  <2>1. begun \in 0..Top /\ removals \in 0..MaxRemovals
    BY DEF SyncInv, LogInv, PageInv
  <2>2. {writing, log, deleted, entries, gone} \subseteq SUBSET (1..begun)
    BY DEF SyncInv, LogInv, PageInv
  <2>3. fetches \subseteq Fetches
    <3>1. 0 \in 0..Top
      BY SyncConstants
    <3>2. {0} \cup {Cursor(rows) : rows \in SUBSET Entries} \subseteq 0..Top
      BY <3>1, CursorTyped
    <3>3. FetchRecord \subseteq Fetches
      BY <3>2 DEF FetchRecord, Fetches
    <3>4. QED
      BY <3>3 DEF SyncInv, FetchInv
  <2>4. /\ fullDue \in BOOLEAN /\ mode \in {"live", "hidden", "paused"}
        /\ Cardinality(entries) <= Limit
    BY DEF SyncInv, PageInv
  <2>5. QED
    BY <2>1, <2>2, <2>3, <2>4 DEF TypeOK
<1>4. QED
  BY <1>1, <1>2, <1>3, PTL DEF Spec

-----------------------------------------------------------------------------
(***************************************************************************)
(* The safety half of Converges.  An answer is up to date if the log has   *)
(* not changed since it was put together; the page has caught up if it     *)
(* shows the newest rows of the log and the answer on its way, if there is *)
(* one, is up to date.                                                     *)
(***************************************************************************)
UpToDate == \A f \in fetches : f.at = "answered" => f.rows = Newest({e \in log : e >= f.since})
CaughtUp == entries = Newest(log) /\ UpToDate

(* A full refresh asks from the start. *)
FromStart == \A f \in fetches : f.full => f.since = 0

(* There are as many newest rows as fit, if some are left out. *)
LEMMA NewestAreEnough ==
    ASSUME NEW rows \in SUBSET Entries, NEW e \in rows, e \notin Newest(rows)
    PROVE  /\ IsFiniteSet(Newest(rows)) /\ Cardinality(Newest(rows)) >= Limit
           /\ \A f \in Newest(rows) : f > e
<1> DEFINE above(x) == {f \in rows : f > x}
<1>1. \A x \in rows : x \in Int /\ above(x) \subseteq rows
  BY EntriesAreNumbers
<1>2. IsFiniteSet(rows) /\ Limit \in Nat
  BY EntriesAreNumbers, FS_Subset, SyncConstants
<1>3. \A x \in rows : IsFiniteSet(above(x)) /\ Cardinality(above(x)) \in Nat
  BY <1>1, <1>2, FS_Subset, FS_CardinalityType
<1>4. Newest(rows) = {x \in rows : Cardinality(above(x)) < Limit}
  BY DEF Newest
<1> HIDE DEF above
<1>5. PICK m \in rows \ Newest(rows) : \A x \in rows \ Newest(rows) : x <= m
  <2>1. IsFiniteSet(rows \ Newest(rows)) /\ rows \ Newest(rows) # {}
    BY <1>2, FS_Subset
  <2>2. QED
    BY <1>1, <2>1, HighestEntry
<1>6. above(m) \subseteq Newest(rows)
  BY <1>1, <1>5 DEF above
<1>7. IsFiniteSet(Newest(rows)) /\ Cardinality(Newest(rows)) \in Nat
  BY <1>2, <1>4, FS_Subset, FS_CardinalityType
<1>8. Cardinality(above(m)) <= Cardinality(Newest(rows))
  BY <1>6, <1>7, FS_Subset
<1>9. Cardinality(above(m)) >= Limit
  BY <1>2, <1>3, <1>4, <1>5
<1>10. Cardinality(Newest(rows)) >= Limit
  BY <1>2, <1>3, <1>5, <1>7, <1>8, <1>9
<1>11. ASSUME NEW f \in Newest(rows)
       PROVE  f > e
  <2>1. f \in rows /\ Cardinality(above(f)) < Limit /\ ~(Cardinality(above(e)) < Limit)
    BY <1>4, <1>11
  <2>2. f \in Int /\ e \in Int
    BY <1>1, <2>1
  <2>3. CASE f <= e
    <3>1. above(e) \subseteq above(f)
      <4>1. ASSUME NEW x \in rows, x > e
            PROVE  x > f
        <5>1. x \in Int
          BY <1>1
        <5>2. QED
          BY <2>2, <2>3, <4>1, <5>1
      <4>2. QED
        BY <4>1 DEF above
    <3>2. Cardinality(above(e)) <= Cardinality(above(f))
      BY <1>3, <2>1, <3>1, FS_Subset
    <3>3. QED
      BY <1>2, <1>3, <2>1, <3>2
  <2>4. QED
    BY <2>2, <2>3
<1>12. QED
  BY <1>7, <1>10, <1>11

(* The newest rows stay the newest when others of their log join them. *)
LEMMA NewestJoined ==
    ASSUME NEW rows \in SUBSET Entries, NEW some \in SUBSET rows
    PROVE  Newest(Newest(rows) \cup some) = Newest(rows)
<1> DEFINE all == Newest(rows) \cup some
           above(x) == {f \in rows : f > x}
           aboveIn(x) == {f \in all : f > x}
<1>1. all \subseteq rows /\ Newest(rows) \subseteq all
  BY NewestSelects
<1>2. \A x \in rows : x \in Int /\ aboveIn(x) \subseteq above(x) /\ above(x) \subseteq rows
  BY <1>1, EntriesAreNumbers
<1>3. IsFiniteSet(rows) /\ Limit \in Nat
  BY EntriesAreNumbers, FS_Subset, SyncConstants
<1>4. \A x \in rows : /\ IsFiniteSet(above(x)) /\ Cardinality(above(x)) \in Nat
                      /\ IsFiniteSet(aboveIn(x)) /\ Cardinality(aboveIn(x)) \in Nat
                      /\ Cardinality(aboveIn(x)) <= Cardinality(above(x))
  <2> HIDE DEF all, above, aboveIn
  <2>1. QED
    BY <1>2, <1>3, FS_Subset, FS_CardinalityType
<1>5. /\ Newest(rows) = {x \in rows : Cardinality(above(x)) < Limit}
      /\ Newest(all) = {x \in all : Cardinality(aboveIn(x)) < Limit}
  BY DEF Newest
<1>6. Newest(rows) \subseteq Newest(all)
  <2> HIDE DEF all, above, aboveIn
  <2>1. QED
    BY <1>1, <1>3, <1>4, <1>5
<1>7. ASSUME NEW e \in Newest(all), e \notin Newest(rows)
      PROVE  FALSE
  <2>1. e \in rows /\ e \in all /\ Cardinality(aboveIn(e)) < Limit
    <3> HIDE DEF all, above, aboveIn
    <3>1. QED
      BY <1>1, <1>5, <1>7
  <2>2. /\ IsFiniteSet(Newest(rows)) /\ Cardinality(Newest(rows)) >= Limit
        /\ \A f \in Newest(rows) : f > e
    BY <1>7, <2>1, NewestAreEnough
  <2>3. Newest(rows) \subseteq aboveIn(e)
    BY <1>1, <2>2
  <2>4. Cardinality(Newest(rows)) <= Cardinality(aboveIn(e)) /\ Cardinality(Newest(rows)) \in Nat
    <3> HIDE DEF all, above, aboveIn
    <3>1. QED
      BY <1>4, <2>1, <2>2, <2>3, FS_Subset, FS_CardinalityType
  <2>5. QED
    <3> HIDE DEF all, above, aboveIn
    <3>1. QED
      BY <1>3, <1>4, <2>1, <2>2, <2>4
<1>8. QED
  BY <1>6, <1>7

(* What a step does to the fetch under way. *)
LEMMA FetchesStep ==
    ASSUME [Next]_vars
    PROVE  \/ fetches' \subseteq fetches
           \/ \E full \in {TRUE, FALSE, fullDue} : fetches' = {NewFetch(full)}
           \/ \E f \in fetches : DataAnswers(f)
<1>1. ASSUME NEW full \in {TRUE, FALSE, fullDue}, FetchData(full)
      PROVE  fetches' \subseteq fetches
             \/ \E some \in {TRUE, FALSE, fullDue} : fetches' = {NewFetch(some)}
  BY <1>1 DEF FetchData
<1>2. CASE Poll \/ ToggleLive \/ Unhide \/ Refresh \/ RemovalReturns
  BY <1>1, <1>2 DEF Poll, ToggleLive, Unhide, Refresh, RemovalReturns
<1>3. ASSUME NEW f \in fetches, ReplaceEntries(f) \/ MergeEntries(f) \/ FetchFails(f)
      PROVE  fetches' \subseteq fetches
  BY <1>3 DEF ReplaceEntries, MergeEntries, FetchFails
<1>4. CASE BeginEntry \/ MinutePasses \/ Hide \/ RemovalFails \/ UNCHANGED vars
  BY <1>4 DEF BeginEntry, MinutePasses, Hide, RemovalFails, vars
<1>5. ASSUME NEW e, AppendAudit(e) \/ AppendFails(e) \/ Prune(e) \/ DeleteEntries(e)
      PROVE  fetches' \subseteq fetches
  BY <1>5 DEF AppendAudit, AppendFails, Prune, DeleteEntries, DeleteLogs
<1>6. ASSUME NEW ids, DeleteByIds(ids)
      PROVE  fetches' \subseteq fetches
  BY <1>6 DEF DeleteByIds, DeleteLogs
<1>7. QED
  BY <1>2, <1>3, <1>4, <1>5, <1>6 DEF Next

(* What it does to the page. *)
LEMMA EntriesStep ==
    ASSUME [Next]_vars
    PROVE  \/ entries' = entries
           \/ \E f \in fetches : ReplaceEntries(f) \/ MergeEntries(f)
<1>1. CASE Poll \/ ToggleLive \/ Unhide \/ Refresh \/ RemovalReturns \/ BeginEntry
           \/ MinutePasses \/ Hide \/ RemovalFails \/ UNCHANGED vars
  BY <1>1 DEF Poll, ToggleLive, Unhide, Refresh, RemovalReturns, BeginEntry, MinutePasses, Hide,
             RemovalFails, vars, page
<1>2. ASSUME NEW f \in fetches, DataAnswers(f) \/ FetchFails(f)
      PROVE  entries' = entries
  BY <1>2 DEF DataAnswers, FetchFails, page
<1>3. ASSUME NEW e, AppendAudit(e) \/ AppendFails(e) \/ Prune(e) \/ DeleteEntries(e)
      PROVE  entries' = entries
  BY <1>3 DEF AppendAudit, AppendFails, Prune, DeleteEntries, DeleteLogs, page
<1>4. ASSUME NEW ids, DeleteByIds(ids)
      PROVE  entries' = entries
  BY <1>4 DEF DeleteByIds, DeleteLogs, page
<1>5. QED
  BY <1>1, <1>2, <1>3, <1>4 DEF Next

(* The answer that takes a fetch's place. *)
LEMMA AnswerIs ==
    ASSUME SyncInv, NEW f \in fetches, DataAnswers(f)
    PROVE  \E answer : /\ fetches' = {answer} /\ answer.full = f.full
                       /\ answer.since = f.since
                       /\ answer.rows = Newest({e \in log : e >= f.since})
<1> DEFINE rows == Newest({e \in log : e >= f.since})
           answer == [f EXCEPT !.at = "answered", !.deleted = deleted, !.rows = rows]
<1>1. f \in FetchRecord /\ fetches = {f}
  BY DEF SyncInv, FetchInv
<1>2. fetches' = {answer}
  BY <1>1 DEF DataAnswers
<1>3. answer.full = f.full /\ answer.since = f.since /\ answer.rows = rows
  <2> HIDE DEF rows
  <2>1. QED
    BY <1>1 DEF FetchRecord
<1>4. QED
  BY <1>2, <1>3

LEMMA FromStartKept ==
    ASSUME SyncInv, FromStart, [Next]_vars
    PROVE  FromStart'
<1>1. CASE fetches' \subseteq fetches
  BY <1>1 DEF FromStart
<1>2. ASSUME NEW full \in {TRUE, FALSE, fullDue}, fetches' = {NewFetch(full)}
      PROVE  FromStart'
  <2>1. full \in BOOLEAN
    BY DEF SyncInv
  <2>2. NewFetch(full).full = full /\ (full => NewFetch(full).since = 0)
    BY <2>1 DEF NewFetch
  <2>3. QED
    BY <1>2, <2>2 DEF FromStart
<1>3. ASSUME NEW f \in fetches, DataAnswers(f)
      PROVE  FromStart'
  BY <1>3, AnswerIs DEF FromStart
<1>4. QED
  BY <1>1, <1>2, <1>3, FetchesStep

LEMMA UpToDateKept ==
    ASSUME SyncInv, UpToDate, [Next]_vars, log' = log
    PROVE  UpToDate'
<1> DEFINE Asked(f) == {e \in log : e >= f.since}
<1>0. \A f : {e \in log : e >= f.since}' = Asked(f)
  OBVIOUS
<1>1. CASE fetches' \subseteq fetches
  BY <1>1 DEF UpToDate, Newest
<1>2. ASSUME NEW full \in {TRUE, FALSE, fullDue}, fetches' = {NewFetch(full)}
      PROVE  UpToDate'
  BY <1>2 DEF UpToDate, NewFetch
<1>3. ASSUME NEW f \in fetches, DataAnswers(f)
      PROVE  UpToDate'
  BY <1>3, AnswerIs DEF UpToDate, Newest
<1>4. QED
  BY <1>1, <1>2, <1>3, FetchesStep

(* An up-to-date answer of a full refresh holds what the page should show, *)
(* and that of a poll holds rows of the log.                               *)
LEMMA UpToDateRows ==
    ASSUME SyncInv, FromStart, UpToDate, NEW f \in fetches, f.at = "answered"
    PROVE  /\ f.rows \subseteq log
           /\ f.full => f.rows = Newest(log)
<1>1. f.rows = Newest({e \in log : e >= f.since})
  BY DEF UpToDate
<1>2. f.rows \subseteq log
  BY <1>1, NewestSelects
<1>3. ASSUME f.full
      PROVE  f.rows = Newest(log)
  <2>1. f.since = 0
    BY <1>3 DEF FromStart
  <2>2. \A e \in log : e \in Nat
    BY DEF SyncInv, LogInv
  <2>3. {e \in log : e >= f.since} = log
    BY <2>1, <2>2
  <2>4. QED
    BY <1>1, <2>3
<1>4. QED
  BY <1>2, <1>3

LEMMA CaughtUpKept ==
    ASSUME SyncInv, FromStart, [Next]_vars, log' = log, UpToDate
    PROVE  /\ UpToDate'
           /\ CaughtUp => CaughtUp'
           /\ (\E f \in fetches : ReplaceEntries(f)) => CaughtUp'
<1>1. UpToDate'
  BY UpToDateKept
<1>2. Newest(log)' = Newest(log)
  BY DEF Newest
<1>3. ASSUME NEW f \in fetches, ReplaceEntries(f)
      PROVE  CaughtUp'
  BY <1>1, <1>2, <1>3, UpToDateRows DEF ReplaceEntries, CaughtUp
<1>4. ASSUME NEW f \in fetches, MergeEntries(f), CaughtUp
      PROVE  CaughtUp'
  <2>1. f.rows \subseteq log /\ log \subseteq Entries
    BY <1>4, UpToDateRows, LogInEntries DEF MergeEntries, SyncInv
  <2>2. entries' = Newest(Newest(log) \cup f.rows)
    BY <1>4 DEF MergeEntries, CaughtUp
  <2>3. QED
    BY <1>1, <1>2, <2>1, <2>2, NewestJoined DEF CaughtUp
<1>5. ASSUME entries' = entries, CaughtUp
      PROVE  CaughtUp'
  BY <1>1, <1>2, <1>5 DEF CaughtUp
<1>6. QED
  BY <1>1, <1>3, <1>4, <1>5, EntriesStep

(* As long as the log does not change, an answer on its way stays up to    *)
(* date, the next full refresh lets the page catch up, and a page that has *)
(* caught up stays so, whatever is polled, merged, lost or toggled.        *)
THEOREM CaughtUpStays ==
    Spec => [][log' = log /\ UpToDate =>
                  /\ UpToDate'
                  /\ CaughtUp => CaughtUp'
                  /\ (\E f \in fetches : ReplaceEntries(f)) => CaughtUp']_vars
<1> DEFINE Stays == log' = log /\ UpToDate =>
                       /\ UpToDate'
                       /\ CaughtUp => CaughtUp'
                       /\ (\E f \in fetches : ReplaceEntries(f)) => CaughtUp'
<1>1. Init => SyncInv /\ FromStart
  BY SyncStart DEF Init, FromStart
<1>2. SyncInv /\ FromStart /\ [Next]_vars => (SyncInv /\ FromStart)'
  BY SyncStep, FromStartKept
<1>3. SyncInv /\ FromStart /\ [Next]_vars => [Stays]_vars
  BY CaughtUpKept
<1>4. QED
  BY <1>1, <1>2, <1>3, PTL DEF Spec
=============================================================================
