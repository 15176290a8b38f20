--------------------------- MODULE AdminConsoleProofs ---------------------------
(***************************************************************************)
(* Invariants of the admin UI as theorems, for any number of keys, fields, *)
(* entries and routes: each part keeps its own, and a page that is mounted *)
(* or left begins within it.                                               *)
(***************************************************************************)
EXTENDS AdminConsole, FiniteSetTheorems, WellFoundedInduction, TLAPS

-----------------------------------------------------------------------------
(* The session: an identity comes from a GET /me or from a login.          *)

SessionInv ==
    /\ login \in BOOLEAN
    /\ signedOut => ~admin /\ ~loading /\ ~login
    /\ logout => ~loading

LEMMA SessionStart ==
    ASSUME SessionInit
    PROVE  SessionInv
  BY DEF SessionInit, SessionInv

LEMMA SessionKept ==
    ASSUME SessionInv, SessionNext
    PROVE  SessionInv'
<1>1. CASE \E identity \in BOOLEAN : FetchAdmin(identity)
  BY <1>1 DEF SessionInv, FetchAdmin
<1>2. CASE HandleSubmit
  BY <1>2 DEF SessionInv, HandleSubmit
<1>3. CASE LoginReturns
  BY <1>3 DEF SessionInv, LoginReturns
<1>4. CASE LoginFails
  BY <1>4 DEF SessionInv, LoginFails
<1>5. CASE HandleLogout
  BY <1>5 DEF SessionInv, HandleLogout, RequireAuth
<1>6. CASE LogoutReturns
  BY <1>6 DEF SessionInv, LogoutReturns, Arrive
<1>7. CASE LogoutFails
  BY <1>7 DEF SessionInv, LogoutFails
<1>8. CASE Reload
  BY <1>8 DEF SessionInv, Reload
<1>9. CASE \E page \in Routes \cup {"login"} : Navigate(page)
  BY <1>9 DEF SessionInv, Navigate
<1>10. QED
  BY <1>1, <1>2, <1>3, <1>4, <1>5, <1>6, <1>7, <1>8, <1>9 DEF SessionNext

LEMMA SessionInvStep ==
    ASSUME SessionInv, [ConsoleNext]_consoleVars
    PROVE  SessionInv'
<1>1. CASE SessionStep
  BY <1>1, SessionKept DEF SessionStep
<1>2. CASE UNCHANGED sessionVars
  BY <1>2 DEF sessionVars, SessionInv
<1>3. QED
  BY <1>1, <1>2 DEF ConsoleNext, DashboardStep, ApiKeysStep, ConfigureStep, consoleVars

(* In any order of navigation, reloads, sign-ins and sign-outs and of      *)
(* their answers, no page shows after a sign-out until the next sign-in.   *)
THEOREM SignedOutForGood == ConsoleSpec => []SignedOutStays
<1>1. ConsoleInit => SessionInv
  BY SessionStart DEF ConsoleInit
<1>2. SessionInv /\ [ConsoleNext]_consoleVars => SessionInv'
  BY SessionInvStep
<1>3. SessionInv => SignedOutStays
  BY DEF SessionInv, SignedOutStays, RequireAuth
<1>4. QED
  BY <1>1, <1>2, <1>3, PTL DEF ConsoleSpec

-----------------------------------------------------------------------------
(* The filters *)

LEMMA FiltersStep ==
    ASSUME OneBackendButton, [ConsoleNext]_consoleVars
    PROVE  OneBackendButton'
<1>1. CASE filters' = filters \/ filters' = {}
  BY <1>1 DEF OneBackendButton
<1>2. ASSUME ViewNext
      PROVE  OneBackendButton'
  <2>1. ASSUME NEW on, SetFilters(on), ~({"backend", "fallback"} \subseteq on)
        PROVE  OneBackendButton'
    BY <2>1 DEF SetFilters, OneBackendButton
  <2>2. ASSUME NEW on \in SUBSET {"preset"}, ChoosePeriod(on)
        PROVE  OneBackendButton'
    BY <2>1, <2>2 DEF ChoosePeriod, Filter, OneBackendButton
  <2>3. CASE ToggleCustom
    BY <2>1, <2>3 DEF ToggleCustom, ChoosePeriod, Filter, OneBackendButton
  <2>4. ASSUME NEW on \in SUBSET {"day"}, ChoosePart(on)
        PROVE  OneBackendButton'
    BY <2>1, <2>4 DEF ChoosePart, Filter, OneBackendButton
  <2>5. ASSUME NEW on \in SUBSET {"backend"}, ChooseBackend(on)
        PROVE  OneBackendButton'
    BY <2>1, <2>5 DEF ChooseBackend, Filter
  <2>6. CASE ToggleFallback
    BY <2>1, <2>6 DEF ToggleFallback, Filter
  <2>7. ASSUME NEW on \in SUBSET {"status"}, ChooseStatus(on)
        PROVE  OneBackendButton'
    BY <2>1, <2>7 DEF ChooseStatus, Filter, OneBackendButton
  <2>8. ASSUME NEW on \in SUBSET {"search"}, Search(on)
        PROVE  OneBackendButton'
    BY <2>1, <2>8 DEF Search, Filter, OneBackendButton
  <2>9. ASSUME NEW on \in {{"status"}, {"fallback"}, {"slow"}}, ApplySavedView(on)
        PROVE  OneBackendButton'
    BY <2>1, <2>9 DEF ApplySavedView, Filter
  <2>10. ASSUME NEW c \in Criteria, ClearFilter(c)
         PROVE  OneBackendButton'
    BY <2>1, <2>10 DEF ClearFilter, OneBackendButton
  <2>11. CASE ClearAllFilters
    BY <2>1, <2>11 DEF ClearAllFilters, Filter
  <2>12. CASE Previous \/ NextPage
    BY <1>1, <2>12 DEF Previous, NextPage, GoTo
  <2>13. CASE \E n \in PageSizes : SetPageSize(n)
    BY <1>1, <2>13 DEF SetPageSize
  <2>14. CASE \E page \in SUBSET Entries : EntriesChange(page)
    BY <1>1, <2>14 DEF EntriesChange, view
  <2>15. CASE (\E e \in Entries : ToggleEntrySelection(e) \/ OpenDrawer(e))
              \/ ToggleVisibleSelection \/ CloseAuditDrawer
    BY <1>1, <2>15 DEF ToggleEntrySelection, OpenDrawer, ToggleVisibleSelection,
                       CloseAuditDrawer, view
  <2>16. CASE ConfirmDeleteEntry \/ ConfirmDeleteSelected \/ AskDeleteHistory
    BY <1>1, <2>16 DEF ConfirmDeleteEntry, ConfirmDeleteSelected, AskDeleteHistory, Ask, view
  <2>17. CASE Cancel \/ Escape \/ Confirm \/ DeletionReturns \/ DeletionFails
    BY <1>1, <2>17 DEF Cancel, Escape, Confirm, DeletionReturns, DeletionFails, view
  <2>18. QED
    BY <1>2, <2>2, <2>3, <2>4, <2>5, <2>6, <2>7, <2>8, <2>9, <2>10, <2>11, <2>12, <2>13,
       <2>14, <2>15, <2>16, <2>17 DEF ViewNext
<1>3. CASE SessionStep
  BY <1>1, <1>3 DEF SessionStep, PagesFollow, MountView, viewVars, view
<1>4. CASE UNCHANGED viewVars
  BY <1>1, <1>4 DEF viewVars, view
<1>5. QED
  BY <1>2, <1>3, <1>4 DEF ConsoleNext, DashboardStep, ApiKeysStep, ConfigureStep, consoleVars

(* Whatever buttons, chips and saved views are used, in any order, at most *)
(* one of the backend buttons is pressed.                                  *)
THEOREM BackendButtonsExclude == ConsoleSpec => []OneBackendButton
<1>1. ConsoleInit => OneBackendButton
  BY DEF ConsoleInit, ViewInit, OneBackendButton
<1>2. OneBackendButton /\ [ConsoleNext]_consoleVars => OneBackendButton'
  BY FiltersStep
<1>3. QED
  BY <1>1, <1>2, PTL DEF ConsoleSpec

-----------------------------------------------------------------------------
(* The pages of the dashboard *)

(* A family of subsets of a finite set has a smallest one. *)
LEMMA SmallestSubset ==
    ASSUME NEW S, IsFiniteSet(S), NEW T, T \subseteq SUBSET S, T # {}
    PROVE  \E x \in T : \A y \in T : y \subseteq x => y = x
<1>1. FiniteSubsetsOf(S) = SUBSET S
  BY FS_FiniteSubsetsOfFinite
<1>2. IsWellFoundedOn(StrictSubsetOrdering(S), SUBSET S)
  BY <1>1, FS_StrictSubsetOrderingWellFounded
<1>3. PICK x \in T : \A y \in T : ~(<<y, x>> \in StrictSubsetOrdering(S))
  BY <1>2, WFMin
<1>4. QED
  BY <1>3 DEF StrictSubsetOrdering

(* A finite set of numbers has a lowest one. *)
LEMMA LowestEntry ==
    ASSUME NEW S, IsFiniteSet(S), \A x \in S : x \in Int, S # {}
    PROVE  \E m \in S : \A e \in S : m <= e
<1> DEFINE upTo(e) == {f \in S : f <= e}
           T == {upTo(e) : e \in S}
<1>1. T \subseteq SUBSET S /\ T # {}
  OBVIOUS
<1>2. PICK x \in T : \A y \in T : y \subseteq x => y = x
  <2> HIDE DEF T
  <2>1. QED
    BY <1>1, SmallestSubset
<1>3. PICK m \in S : x = upTo(m)
  OBVIOUS
<1>4. ASSUME NEW e \in S
      PROVE  m <= e
  <2>1. CASE e <= m
    <3>0. upTo(e) \in T
      OBVIOUS
    <3>1. upTo(e) \subseteq upTo(m)
      <4>1. ASSUME NEW f \in S, f <= e
            PROVE  f <= m
        <5>1. f \in Int /\ e \in Int /\ m \in Int
          OBVIOUS
        <5>2. QED
          BY <2>1, <4>1, <5>1
      <4>2. QED
        BY <4>1
    <3>2. upTo(e) = upTo(m)
      BY <1>2, <1>3, <3>0, <3>1
    <3>3. m \in upTo(m)
      OBVIOUS
    <3>4. QED
      BY <3>2, <3>3
  <2>2. QED
    BY <2>1
<1>5. QED
  BY <1>4

(* Counted from the highest, every rank of a finite set of numbers is      *)
(* taken: a smallest set that lacks one would not lack it without its      *)
(* lowest number, whose own rank is the last.                              *)
LEMMA EveryRankIsTaken ==
    ASSUME NEW S, IsFiniteSet(S), \A x \in S : x \in Int
    PROVE  \A r \in 1..Cardinality(S) :
              \E e \in S : Cardinality({f \in S : f >= e}) = r
<1> DEFINE Good(s) == \A r \in 1..Cardinality(s) :
                         \E e \in s : Cardinality({f \in s : f >= e}) = r
           Bad == {s \in SUBSET S : ~Good(s)}
<1>1. SUFFICES ASSUME Bad # {} PROVE FALSE
  OBVIOUS
<1>2. PICK s \in Bad : \A y \in Bad : y \subseteq s => y = s
  <2> HIDE DEF Bad
  <2>1. Bad \subseteq SUBSET S
    BY DEF Bad
  <2>2. QED
    BY <1>1, <2>1, SmallestSubset
<1>3. (\A x \in s : x \in Int) /\ IsFiniteSet(s) /\ s \in SUBSET S
  BY <1>2, FS_Subset
<1>4. CASE s = {}
  <2>1. Cardinality(s) = 0
    BY <1>4, FS_EmptySet
  <2>2. QED
    BY <1>2, <2>1
<1>5. CASE s # {}
  <2>1. PICK m \in s : \A e \in s : m <= e
    BY <1>3, <1>5, LowestEntry
  <2> DEFINE t == s \ {m}
  <2>2. Good(t)
    <3>1. t \in SUBSET S /\ t \subseteq s /\ t # s
      BY <1>3, <2>1
    <3> HIDE DEF Good, t
    <3>2. QED
      BY <1>2, <3>1
  <2>3. Cardinality(t) = Cardinality(s) - 1 /\ Cardinality(s) \in Nat
    BY <1>3, <2>1, FS_RemoveElement, FS_CardinalityType
  <2>4. ASSUME NEW r \in 1..Cardinality(s)
        PROVE  \E e \in s : Cardinality({f \in s : f >= e}) = r
    <3>1. CASE r = Cardinality(s)
      <4>1. {f \in s : f >= m} = s
        BY <1>3, <2>1
      <4>2. QED
        BY <2>1, <3>1, <4>1
    <3>2. CASE r # Cardinality(s)
      <4>1. r \in 1..Cardinality(t)
        BY <2>3, <3>2
      <4>2. PICK e \in t : Cardinality({f \in t : f >= e}) = r
        BY <2>2, <4>1
      <4>3. {f \in s : f >= e} = {f \in t : f >= e}
        <5>1. e \in Int /\ m \in Int /\ m <= e /\ e # m
          BY <1>3, <2>1, <4>2
        <5>2. ~(m >= e)
          BY <5>1
        <5>3. QED
          BY <5>2
      <4>4. QED
        BY <4>2, <4>3
    <3>3. QED
      BY <3>1, <3>2
  <2>5. QED
    BY <1>2, <2>4
<1>6. QED
  BY <1>4, <1>5

(* Page v of n rows, p on each, begins within the rows. *)
LEMMA PagesCover ==
    ASSUME NEW n \in Nat \ {0}, NEW p \in Nat \ {0}, NEW c, c = (n + p - 1) \div p
    PROVE  /\ c \in Nat \ {0} /\ c <= n
           /\ \A v \in 1..c : (v - 1) * p \in Nat /\ (v - 1) * p + 1 <= n
                              /\ v * p = (v - 1) * p + p
<1>1. c \in Int /\ c * p <= n + p - 1 /\ n + p - 1 < c * p + p
  BY SMTT(30)
<1>2. c >= 1
  BY <1>1, SMTT(30)
<1>3. c <= n
  BY <1>1, SMTT(30)
<1>4. ASSUME NEW v \in 1..c
      PROVE  (v - 1) * p \in Nat /\ (v - 1) * p + 1 <= n /\ v * p = (v - 1) * p + p
  BY <1>1, SMTT(30)
<1>5. QED
  BY <1>1, <1>2, <1>3, <1>4

DialogTyped(d) == d.kind \in {"one", "selected", "history"} /\ d.ids \subseteq Entries

(* Of the page number nothing but its type matters: the page is clamped.   *)
ViewTypes ==
    /\ held \in SUBSET Entries /\ selected \in SUBSET Entries /\ filters \in SUBSET Criteria
    /\ pageSize \in PageSizes /\ currentPage \in 1..Top
    /\ drawer \in Entries \cup {Nothing}
    /\ asking # Nothing => DialogTyped(asking)
    /\ removing # Nothing => DialogTyped(removing)

LEMMA EntriesAreNumbers ==
    /\ IsFiniteSet(Entries) /\ Cardinality(Entries) = Top /\ Top \in Nat \ {0}
    /\ \A e \in Entries : e \in Int
<1>1. Top \in Nat \ {0}
  BY ViewConstants
<1>2. IsFiniteSet(1..Top) /\ Cardinality(1..Top) = Top
  BY <1>1, FS_Interval
<1>3. QED
  BY <1>1, <1>2 DEF Entries

(* Some of the entries pass the filters. *)
LEMMA FilteredAreFew ==
    ASSUME ViewTypes
    PROVE  /\ FilteredEntries \subseteq Entries /\ IsFiniteSet(FilteredEntries)
           /\ \A e \in FilteredEntries : e \in Int
           /\ Cardinality(FilteredEntries) \in 0..Top
           /\ FilteredEntries # {} => Cardinality(FilteredEntries) \in Nat \ {0}
           /\ pageSize \in Nat \ {0}
<1>1. FilteredEntries \subseteq Entries
  BY DEF FilteredEntries, ViewTypes
<1>2. IsFiniteSet(FilteredEntries) /\ Cardinality(FilteredEntries) <= Top
  BY <1>1, EntriesAreNumbers, FS_Subset
<1>3. Cardinality(FilteredEntries) \in Nat
  BY <1>2, FS_CardinalityType
<1>4. FilteredEntries # {} => Cardinality(FilteredEntries) # 0
  BY <1>2, FS_EmptySet
<1>5. pageSize \in Nat \ {0}
  BY ViewConstants DEF ViewTypes
<1>6. QED
  BY <1>1, <1>2, <1>3, <1>4, <1>5, EntriesAreNumbers

(* There are no more pages than entries that pass. *)
LEMMA PagesAreFew ==
    ASSUME ViewTypes
    PROVE  /\ PageCount \in 1..Top /\ VisiblePage \in 1..PageCount
           /\ FilteredEntries # {} =>
                /\ PageCount \in Nat \ {0} /\ PageCount <= Cardinality(FilteredEntries)
                /\ (VisiblePage - 1) * pageSize \in Nat
                /\ (VisiblePage - 1) * pageSize + 1 <= Cardinality(FilteredEntries)
                /\ VisiblePage * pageSize = (VisiblePage - 1) * pageSize + pageSize
<1>1. PageCount \in 1..Top
  <2>1. CASE FilteredEntries = {}
    BY <2>1, EntriesAreNumbers DEF PageCount
  <2>2. CASE FilteredEntries # {}
    <3>1. PageCount = (Cardinality(FilteredEntries) + pageSize - 1) \div pageSize
      BY <2>2 DEF PageCount, Pages
    <3>2. PageCount \in Nat \ {0} /\ PageCount <= Cardinality(FilteredEntries)
      BY <2>2, <3>1, FilteredAreFew, PagesCover
    <3>3. QED
      BY <3>2, FilteredAreFew, EntriesAreNumbers
  <2>3. QED
    BY <2>1, <2>2
<1>2. VisiblePage \in 1..PageCount
  <2>1. currentPage \in Nat \ {0}
    BY EntriesAreNumbers DEF ViewTypes
  <2>2. PageCount \in Nat \ {0}
    BY <1>1, EntriesAreNumbers
  <2>3. QED
    BY <2>1, <2>2 DEF VisiblePage
<1>3. ASSUME FilteredEntries # {}
      PROVE  /\ PageCount \in Nat \ {0} /\ PageCount <= Cardinality(FilteredEntries)
             /\ (VisiblePage - 1) * pageSize \in Nat
             /\ (VisiblePage - 1) * pageSize + 1 <= Cardinality(FilteredEntries)
             /\ VisiblePage * pageSize = (VisiblePage - 1) * pageSize + pageSize
  <2>1. PageCount = (Cardinality(FilteredEntries) + pageSize - 1) \div pageSize
    BY <1>3 DEF PageCount, Pages
  <2>2. QED
    BY <1>2, <1>3, <2>1, FilteredAreFew, PagesCover
<1>4. QED
  BY <1>1, <1>2, <1>3

(* The entry whose rank is the first of the page is on it. *)
LEMMA PageIsNotEmpty ==
    ASSUME ViewTypes
    PROVE  NoEmptyPage
<1>1. SUFFICES ASSUME FilteredEntries # {}
               PROVE  PaginatedEntries # {}
  BY DEF NoEmptyPage
<1>2. PICK first : first = (VisiblePage - 1) * pageSize + 1
  OBVIOUS
<1>3. first \in 1..Cardinality(FilteredEntries)
  BY <1>1, <1>2, PagesAreFew, FilteredAreFew
<1>4. PICK e \in FilteredEntries : Cardinality({f \in FilteredEntries : f >= e}) = first
  BY <1>3, FilteredAreFew, EveryRankIsTaken
<1>5. first \in (VisiblePage - 1) * pageSize + 1..VisiblePage * pageSize
  <2>1. VisiblePage * pageSize = (VisiblePage - 1) * pageSize + pageSize
        /\ (VisiblePage - 1) * pageSize \in Nat /\ pageSize \in Nat \ {0}
    BY <1>1, PagesAreFew, FilteredAreFew
  <2>2. QED
    BY <1>2, <2>1
<1>6. e \in PaginatedEntries
  BY <1>4, <1>5 DEF PaginatedEntries, Rank
<1>7. QED
  BY <1>6

(* The state after the page is mounted. *)
LEMMA ViewStarts ==
    ASSUME MountView
    PROVE  ViewTypes'
<1>1. 1 \in 1..Top /\ FirstSize \in PageSizes
  BY ViewConstants
<1>2. QED
  BY <1>1 DEF MountView, ViewTypes

(* What the filters, and the first page, do not touch. *)
LEMMA FilteringKeeps ==
    ASSUME ViewTypes, NEW on, SetFilters(on), on \subseteq Criteria,
           currentPage' \in {1, currentPage}
    PROVE  ViewTypes'
<1>1. currentPage' \in 1..Top
  BY EntriesAreNumbers DEF ViewTypes
<1>2. QED
  BY <1>1 DEF ViewTypes, SetFilters, DialogTyped

LEMMA PagingKeeps ==
    ASSUME ViewTypes, pageSize' \in PageSizes, currentPage' \in 1..Top,
           UNCHANGED <<held, filters, selected, drawer, asking, removing>>
    PROVE  ViewTypes'
  BY DEF ViewTypes, DialogTyped

LEMMA GoToKeeps ==
    ASSUME ViewTypes, NEW page, GoTo(page)
    PROVE  ViewTypes'
<1>1. page \in 1..Top
  BY PagesAreFew, EntriesAreNumbers DEF GoTo
<1>2. QED
  BY <1>1, PagingKeeps DEF GoTo, ViewTypes

(* The dialogs and the drawer. *)
LEMMA DialogsKeep ==
    ASSUME ViewTypes, held' \in SUBSET Entries, selected' \in SUBSET Entries,
           drawer' \in Entries \cup {Nothing},
           asking' # Nothing => DialogTyped(asking'),
           removing' # Nothing => DialogTyped(removing'),
           UNCHANGED view
    PROVE  ViewTypes'
  BY DEF ViewTypes, view, DialogTyped

LEMMA AskKeeps ==
    ASSUME ViewTypes, NEW kind \in {"one", "selected", "history"}, NEW ids \in SUBSET Entries,
           Ask(kind, ids)
    PROVE  ViewTypes'
<1>1. DialogTyped(asking')
  BY DEF Ask, DialogTyped
<1>2. QED
  BY <1>1, DialogsKeep DEF Ask, ViewTypes

LEMMA ViewKept ==
    ASSUME ViewTypes, ViewNext
    PROVE  ViewTypes'
<1>0. filters \subseteq Criteria
  BY DEF ViewTypes
<1>1. ASSUME NEW on \in SUBSET Criteria, Filter(on)
      PROVE  ViewTypes'
  BY <1>1, FilteringKeeps DEF Filter
<1>2. ASSUME NEW on \in SUBSET {"preset", "custom"}, ChoosePeriod(on)
      PROVE  ViewTypes'
  BY <1>0, <1>1, <1>2 DEF ChoosePeriod, Criteria
<1>3. CASE ToggleCustom
  BY <1>2, <1>3 DEF ToggleCustom
<1>4. ASSUME NEW on \in SUBSET {"day"}, ChoosePart(on)
      PROVE  ViewTypes'
  BY <1>0, <1>1, <1>4 DEF ChoosePart, Criteria
<1>5. ASSUME NEW on \in SUBSET {"backend"}, ChooseBackend(on)
      PROVE  ViewTypes'
  BY <1>0, <1>1, <1>5 DEF ChooseBackend, Criteria
<1>6. CASE ToggleFallback
  BY <1>0, <1>1, <1>6 DEF ToggleFallback, Criteria
<1>7. ASSUME NEW on \in SUBSET {"status"}, ChooseStatus(on)
      PROVE  ViewTypes'
  BY <1>0, <1>1, <1>7 DEF ChooseStatus, Criteria
<1>8. ASSUME NEW on \in SUBSET {"search"}, Search(on)
      PROVE  ViewTypes'
  BY <1>0, <1>1, <1>8 DEF Search, Criteria
<1>9. ASSUME NEW on \in {{"status"}, {"fallback"}, {"slow"}}, ApplySavedView(on)
      PROVE  ViewTypes'
  BY <1>1, <1>9 DEF ApplySavedView, Criteria
<1>10. ASSUME NEW c \in Criteria, ClearFilter(c)
       PROVE  ViewTypes'
  <2>1. filters \ {c} \subseteq Criteria
    BY <1>0
  <2>2. QED
    BY <1>10, <2>1, FilteringKeeps DEF ClearFilter
<1>11. CASE ClearAllFilters
  BY <1>1, <1>11 DEF ClearAllFilters
<1>12. CASE Previous \/ NextPage
  BY <1>12, GoToKeeps DEF Previous, NextPage
<1>13. ASSUME NEW n \in PageSizes, SetPageSize(n)
       PROVE  ViewTypes'
  BY <1>13, EntriesAreNumbers, PagingKeeps DEF SetPageSize
<1>14. ASSUME NEW page \in SUBSET Entries, EntriesChange(page)
       PROVE  ViewTypes'
  BY <1>14, DialogsKeep DEF EntriesChange, ViewTypes
<1>15. PaginatedEntries \subseteq Entries
  BY FilteredAreFew DEF PaginatedEntries
<1>16. ASSUME NEW e \in Entries, ToggleEntrySelection(e) \/ OpenDrawer(e)
       PROVE  ViewTypes'
  BY <1>16, DialogsKeep DEF ToggleEntrySelection, OpenDrawer, ViewTypes
<1>17. CASE ToggleVisibleSelection
  BY <1>15, <1>17, DialogsKeep DEF ToggleVisibleSelection, ViewTypes
<1>18. CASE CloseAuditDrawer
  BY <1>18, DialogsKeep DEF CloseAuditDrawer, ViewTypes
<1>19. CASE ConfirmDeleteEntry
  BY <1>19, AskKeeps DEF ConfirmDeleteEntry, ViewTypes
<1>20. CASE ConfirmDeleteSelected \/ AskDeleteHistory
  BY <1>20, AskKeeps DEF ConfirmDeleteSelected, AskDeleteHistory, ViewTypes
<1>21. CASE Cancel \/ Escape
  BY <1>21, DialogsKeep DEF Cancel, Escape, view, ViewTypes
<1>22. CASE Confirm
  BY <1>22, DialogsKeep DEF Confirm, ViewTypes
<1>23. CASE DeletionReturns
  <2>1. selected' \in SUBSET Entries
    BY <1>23 DEF DeletionReturns, ViewTypes
  <2>2. QED
    BY <1>23, <2>1, DialogsKeep DEF DeletionReturns, ViewTypes
<1>24. CASE DeletionFails
  BY <1>24, DialogsKeep DEF DeletionFails, ViewTypes
<1>25. QED
  BY <1>2, <1>3, <1>4, <1>5, <1>6, <1>7, <1>8, <1>9, <1>10, <1>11, <1>12, <1>13, <1>14,
     <1>16, <1>17, <1>18, <1>19, <1>20, <1>21, <1>22, <1>23, <1>24 DEF ViewNext

LEMMA ViewStep ==
    ASSUME ViewTypes, [ConsoleNext]_consoleVars
    PROVE  ViewTypes'
<1>1. CASE UNCHANGED viewVars
  BY <1>1, DialogsKeep DEF viewVars, ViewTypes
<1>2. CASE SessionStep
  BY <1>1, <1>2, ViewStarts DEF SessionStep, PagesFollow
<1>3. CASE DashboardStep
  BY <1>3, ViewKept DEF DashboardStep
<1>4. QED
  BY <1>1, <1>2, <1>3 DEF ConsoleNext, ApiKeysStep, ConfigureStep, consoleVars

LEMMA ViewInvariant == ConsoleSpec => []ViewTypes
<1>1. ConsoleInit => ViewTypes
  BY ViewConstants DEF ConsoleInit, ViewInit, ViewTypes
<1>2. ViewTypes /\ [ConsoleNext]_consoleVars => ViewTypes'
  BY ViewStep
<1>3. QED
  BY <1>1, <1>2, PTL DEF ConsoleSpec

(* However the entries are filtered, paged, deleted and refreshed, in any  *)
(* order, the page shows some as long as any of them passes the filters.   *)
THEOREM PagesAreNeverEmpty == ConsoleSpec => []NoEmptyPage
<1>1. ViewTypes => NoEmptyPage
  BY PageIsNotEmpty
<1>2. QED
  BY <1>1, ViewInvariant, PTL

-----------------------------------------------------------------------------
(* The list of the API keys *)

KeyNumbers == 1..MaxKeys
ListRecord == [born : Nat, revoked : SUBSET KeyNumbers]
FetchTypes == [by : {"load", "refresh", "create", "revoke"}, born : Nat,
               revoked : SUBSET KeyNumbers, answer : ListRecord \cup {Nobody}]

(* A fetch is sent after the change that it must show has been carried out.*)
KeysInv ==
    /\ rows \in ListRecord
    /\ lists \subseteq FetchTypes
    /\ \A l \in lists : l.born <= rows.born /\ l.revoked \subseteq rows.revoked
    /\ OwnChangesListed
    /\ creating \notin {Nobody, 0} => creating \in Nat /\ creating <= rows.born
    /\ asked # Nobody => asked \in KeyNumbers
    /\ revoking # Nobody =>
          /\ revoking \in [key : KeyNumbers, done : BOOLEAN]
          /\ revoking.done => revoking.key \in rows.revoked

LEMMA NewFetchTyped ==
    ASSUME NEW by \in {"load", "refresh", "create", "revoke"}, NEW born \in Nat,
           NEW gone \in SUBSET KeyNumbers
    PROVE  /\ Fetch(by, born, gone) \in FetchTypes /\ Fetch(by, born, gone).answer = Nobody
           /\ Fetch(by, born, gone).born = born /\ Fetch(by, born, gone).revoked = gone
  BY DEF Fetch, FetchTypes

LEMMA NewFetchKeeps ==
    ASSUME KeysInv, NEW l \in FetchTypes, l.answer = Nobody,
           l.born <= rows.born, l.revoked \subseteq rows.revoked, StartFetch(l), rows' = rows
    PROVE  /\ lists' \subseteq FetchTypes /\ OwnChangesListed'
           /\ \A m \in lists' : m.born <= rows'.born /\ m.revoked \subseteq rows'.revoked
  BY DEF KeysInv, StartFetch, OwnChangesListed

LEMMA MountKeysStarts ==
    ASSUME NEW r \in ListRecord, MountKeys(r)
    PROVE  KeysInv'
<1>1. lists' = {Fetch("load", 0, {})} /\ rows' = r
  BY DEF MountKeys
<1>2. Fetch("load", 0, {}) \in FetchTypes /\ Fetch("load", 0, {}).answer = Nobody
      /\ Fetch("load", 0, {}).born = 0 /\ Fetch("load", 0, {}).revoked = {}
  BY NewFetchTyped
<1>3. QED
  BY <1>1, <1>2 DEF MountKeys, KeysInv, OwnChangesListed, ListRecord

LEMMA ListAnswersKeeps ==
    ASSUME KeysInv, NEW l \in lists, ListAnswers(l)
    PROVE  KeysInv'
<1> DEFINE m == [l EXCEPT !.answer = rows]
<1>1. l \in FetchTypes /\ rows \in ListRecord
  BY DEF KeysInv
<1>2. m \in FetchTypes /\ m.answer = rows /\ m.born = l.born /\ m.revoked = l.revoked
  BY <1>1 DEF FetchTypes
<1>3. lists' = (lists \ {l}) \cup {m}
  BY DEF ListAnswers
<1> HIDE DEF m
<1>4. lists' \subseteq FetchTypes
  BY <1>2, <1>3 DEF KeysInv
<1>5. UNCHANGED <<rows, creating, asked, revoking>>
  BY DEF ListAnswers
<1>6. QED
  BY <1>2, <1>3, <1>4, <1>5 DEF KeysInv, OwnChangesListed

LEMMA FewerFetches ==
    ASSUME KeysInv, lists' \subseteq lists, UNCHANGED <<rows, creating, asked, revoking>>
    PROVE  KeysInv'
  BY DEF KeysInv, OwnChangesListed

LEMMA KeyCreatedKeeps ==
    ASSUME KeysInv, KeyCreated
    PROVE  KeysInv'
<1>1. /\ rows' \in ListRecord /\ rows'.born = rows.born + 1 /\ rows'.revoked = rows.revoked
      /\ rows.born \in Nat
  BY DEF KeysInv, ListRecord, KeyCreated
<1>2. creating' \in Nat /\ creating' <= rows'.born
  BY <1>1 DEF KeyCreated
<1>3. UNCHANGED <<lists, asked, revoking>>
  BY DEF KeyCreated
<1>4. \A l \in lists : l.born \in Nat
  BY DEF KeysInv, FetchTypes
<1>5. QED
  BY <1>1, <1>2, <1>3, <1>4 DEF KeysInv, OwnChangesListed

LEMMA KeyRevokedKeeps ==
    ASSUME KeysInv, KeyRevoked
    PROVE  KeysInv'
<1>1. revoking \in [key : KeyNumbers, done : BOOLEAN]
  BY DEF KeysInv, KeyRevoked
<1>2. /\ rows' \in ListRecord /\ rows'.born = rows.born
      /\ rows'.revoked = rows.revoked \cup {revoking.key}
  BY <1>1 DEF KeysInv, ListRecord, KeyRevoked
<1>3. revoking' \in [key : KeyNumbers, done : BOOLEAN] /\ revoking'.key = revoking.key
  BY <1>1 DEF KeyRevoked
<1>4. UNCHANGED <<lists, creating, asked>>
  BY DEF KeyRevoked
<1>5. QED
  BY <1>2, <1>3, <1>4 DEF KeysInv, OwnChangesListed

LEMMA KeysKept ==
    ASSUME KeysInv, KeysNext
    PROVE  KeysInv'
<1>1. CASE RefreshKeys
  <2>1. Fetch("refresh", 0, {}) \in FetchTypes /\ Fetch("refresh", 0, {}).answer = Nobody
        /\ Fetch("refresh", 0, {}).born = 0 /\ Fetch("refresh", 0, {}).revoked = {}
    BY NewFetchTyped
  <2>2. rows.born \in Nat
    BY DEF KeysInv, ListRecord
  <2>3. QED
    BY <1>1, <2>1, <2>2, NewFetchKeeps DEF RefreshKeys, KeysInv
<1>2. CASE CreateReturns
  <2>1. creating \in Nat /\ creating <= rows.born
    BY <1>2 DEF CreateReturns, KeysInv
  <2>2. /\ Fetch("create", creating, {}) \in FetchTypes
        /\ Fetch("create", creating, {}).answer = Nobody
        /\ Fetch("create", creating, {}).born = creating
        /\ Fetch("create", creating, {}).revoked = {}
    BY <2>1, NewFetchTyped
  <2>3. QED
    BY <1>2, <2>1, <2>2, NewFetchKeeps DEF CreateReturns, KeysInv
<1>3. CASE RevokeReturns
  <2>1. revoking.key \in KeyNumbers /\ revoking.key \in rows.revoked /\ rows.born \in Nat
    BY <1>3 DEF RevokeReturns, KeysInv, ListRecord
  <2>2. /\ Fetch("revoke", 0, {revoking.key}) \in FetchTypes
        /\ Fetch("revoke", 0, {revoking.key}).answer = Nobody
        /\ Fetch("revoke", 0, {revoking.key}).born = 0
        /\ Fetch("revoke", 0, {revoking.key}).revoked = {revoking.key}
    BY <2>1, NewFetchTyped
  <2>3. /\ StartFetch(Fetch("revoke", 0, {revoking.key})) /\ rows' = rows
        /\ revoking' = Nobody /\ UNCHANGED <<creating, asked>>
    BY <1>3 DEF RevokeReturns
  <2>4. /\ lists' \subseteq FetchTypes /\ OwnChangesListed'
        /\ \A m \in lists' : m.born <= rows'.born /\ m.revoked \subseteq rows'.revoked
    <3> DEFINE l == Fetch("revoke", 0, {revoking.key})
    <3>1. l.born <= rows.born /\ l.revoked \subseteq rows.revoked
      BY <2>1, <2>2
    <3> HIDE DEF l
    <3>2. QED
      BY <2>2, <2>3, <3>1, NewFetchKeeps DEF l
  <2>5. QED
    BY <2>3, <2>4 DEF KeysInv
<1>4. ASSUME NEW l \in lists, ListAnswers(l) \/ FetchKeys(l) \/ ListFails(l)
      PROVE  KeysInv'
  BY <1>4, ListAnswersKeeps, FewerFetches DEF FetchKeys, ListFails
<1>5. CASE (\E statuses \in SUBSET {"active", "revoked"} : FilterKeys(statuses))
           \/ (\E page \in 1..MaxKeys : PageChange(page))
           \/ (\E n \in KeyPageSizes : PageSizeChange(n))
           \/ (\E fromEmpty \in BOOLEAN : NewKeyForm(fromEmpty))
           \/ CloseForm \/ Dismiss
  BY <1>5, FewerFetches DEF FilterKeys, PageChange, PageSizeChange, NewKeyForm, CloseForm, Dismiss
<1>6. CASE HandleCreate \/ CreateFails
  BY <1>6 DEF HandleCreate, CreateFails, KeysInv, OwnChangesListed
<1>7. CASE (\E k \in 1..MaxKeys : HandleRevoke(k)) \/ CancelRevoke
  BY <1>7 DEF HandleRevoke, CancelRevoke, KeyNumbers, KeysInv, OwnChangesListed
<1>8. CASE DoRevoke
  BY <1>8 DEF DoRevoke, KeysInv, OwnChangesListed
<1>9. CASE RevokeFails
  BY <1>9 DEF RevokeFails, KeysInv, OwnChangesListed
<1>10. QED
  BY <1>1, <1>2, <1>3, <1>4, <1>5, <1>6, <1>7, <1>8, <1>9, KeyCreatedKeeps, KeyRevokedKeeps
     DEF KeysNext

LEMMA KeysStep ==
    ASSUME KeysInv, [ConsoleNext]_consoleVars
    PROVE  KeysInv'
<1>1. CASE UNCHANGED keysVars
  BY <1>1, FewerFetches DEF keysVars
<1>2. CASE SessionStep
  <2>1. NoRows \in ListRecord /\ Lists \subseteq ListRecord
    BY KeysConstants DEF NoRows, ListRecord, Lists, KeyNumbers
  <2>2. QED
    BY <1>1, <1>2, <2>1, MountKeysStarts DEF SessionStep, PagesFollow
<1>3. QED
  BY <1>1, <1>2, KeysKept DEF ConsoleNext, DashboardStep, ApiKeysStep, ConfigureStep, consoleVars

LEMMA KeysStart == ConsoleInit => KeysInv
<1>1. /\ Fetch("load", 0, {}) \in FetchTypes /\ Fetch("load", 0, {}).answer = Nobody
      /\ Fetch("load", 0, {}).born = 0 /\ Fetch("load", 0, {}).revoked = {}
  BY NewFetchTyped
<1>2. QED
  BY <1>1 DEF ConsoleInit, KeysInit, NoRows, KeysInv, OwnChangesListed, ListRecord

(* However lists, creations and revocations overlap, the list fetched      *)
(* after a change of the page shows it.                                    *)
THEOREM OwnChangesAreListed == ConsoleSpec => []OwnChangesListed
<1>1. KeysInv => OwnChangesListed
  BY DEF KeysInv
<1>2. KeysInv /\ [ConsoleNext]_consoleVars => KeysInv'
  BY KeysStep
<1>3. QED
  BY <1>1, <1>2, KeysStart, PTL DEF ConsoleSpec

-----------------------------------------------------------------------------
(* The settings *)

Clean(f) == {v \in Accepts[f] \ Refused : Normal[v] = v}
LoadRecord == [done : BOOLEAN, values : Settings, clear : BOOLEAN]
UsageRecord == [done : BOOLEAN, keys : Clean(CloudKeys), clear : BOOLEAN]
PutRecord == [values : Settings, next : Nat \ {0}, left : BOOLEAN, saved : BOOLEAN]

FormTypes ==
    /\ stored \in Stored /\ draft \in Settings
    /\ load = Empty \/ (load \in LoadRecord /\ load.values \in Stored)
    /\ usage = Empty \/ usage \in UsageRecord
    /\ put = Empty \/ put \in PutRecord
    /\ inClear \in BOOLEAN /\ doubtful \in BOOLEAN

Matches(values) == \A f \in Fields : stored[f] = Normal[values[f]]

(* A load does not begin while a save of the page is under way, nor does a *)
(* reset while a load is.                                                  *)
LoadsAlone ==
    /\ load # Empty \/ resetting => put = Empty \/ put.left
    /\ resetting => load = Empty

(* Unless the settings have changed by other means:                        *)
(* - what has been read is what is stored,                                 *)
(* - the fields that a save has passed are stored as it sent them (and an  *)
(*   answered save has passed them all),                                   *)
(* - the snapshot, until the next load or save takes over, is stored.      *)
LoadCurrent == load # Empty /\ load.done /\ ~doubtful => stored = load.values
PutProgress ==
    /\ put # Empty /\ put.saved => put.next > Len(FieldOrder)
    /\ put # Empty /\ ~put.left /\ ~doubtful =>
          \A n \in 1..Len(FieldOrder) : n < put.next =>
              stored[FieldOrder[n]] = Normal[put.values[FieldOrder[n]]]
SnapshotCurrent ==
    /\ snapshot # Empty /\ ~doubtful
    /\ load # Empty => ~load.done
    /\ put # Empty => put.saved \/ put.left
    => Matches(snapshot)

FormInv == FormTypes /\ LoadsAlone /\ LoadCurrent /\ PutProgress /\ SnapshotCurrent

-----------------------------------------------------------------------------
LEMMA StoredIsClean ==
    ASSUME NEW s
    PROVE  s \in Stored <=> s \in Settings /\ \A f \in Fields : s[f] \in Clean(f)
  BY DEF Stored, Settings, Clean

LEMMA FieldsOrdered ==
    /\ Len(FieldOrder) \in Nat /\ CloudKeys \in Fields
    /\ \A n \in 1..Len(FieldOrder) : FieldOrder[n] \in Fields
    /\ \A f \in Fields : \E n \in 1..Len(FieldOrder) : FieldOrder[n] = f
  BY FormConstants DEF Fields, CloudKeys

LEMMA StoreKeepsType ==
    ASSUME stored \in Stored, NEW f \in Fields, NEW v \in Clean(f), Store(f, v)
    PROVE  stored' \in Stored
<1>1. /\ stored \in [Fields -> Values] /\ v \in Values
  BY DEF Stored, Settings, Clean, Values
<1>2. stored' = [stored EXCEPT ![f] = v]
  BY DEF Store
<1>3. stored' \in [Fields -> Values] /\ \A g \in Fields : stored'[g] \in Clean(g)
  BY <1>1, <1>2, StoredIsClean
<1>4. QED
  BY <1>3, StoredIsClean DEF Settings, Clean

LEMMA MountFormStarts ==
    ASSUME NEW s \in Stored, NEW clear \in BOOLEAN, MountForm(s, clear)
    PROVE  FormInv'
<1>1. Sent \in LoadRecord /\ ~Sent.done /\ Sent.values = Defaults
  BY FormConstants DEF Sent, LoadRecord, Stored
<1>2. UsageSent \in UsageRecord
  BY FormConstants, StoredIsClean, FieldsOrdered DEF UsageSent, UsageRecord
<1>3. Defaults \in Stored /\ Defaults \in Settings
  BY FormConstants DEF Stored
<1> HIDE DEF Sent, UsageSent
<1>4. QED
  BY <1>1, <1>2, <1>3 DEF MountForm, FormInv, FormTypes, LoadsAlone, LoadCurrent, PutProgress,
                          SnapshotCurrent

LEMMA NotEmpty ==
    /\ \A p \in PutRecord : p # Empty
    /\ \A l \in LoadRecord : l # Empty
    /\ Sent \in LoadRecord /\ ~Sent.done /\ Sent.values \in Stored
<1>1. Defaults \in Stored /\ Defaults \in Settings
  BY FormConstants DEF Stored
<1>2. Sent \in LoadRecord /\ ~Sent.done /\ Sent.values \in Stored
  BY <1>1 DEF Sent, LoadRecord
<1>3. QED
  BY <1>2, FormEmpty DEF PutRecord, LoadRecord

LEMMA ListSettingsKeeps ==
    ASSUME FormInv, ListSettings
    PROVE  FormInv'
<1> DEFINE new == [done |-> TRUE, values |-> stored, clear |-> inClear]
<1>1. load' = new /\ doubtful' = FALSE
      /\ UNCHANGED <<stored, inClear, draft, snapshot, usage, put, resetting>>
  BY DEF ListSettings
<1>2. new \in LoadRecord /\ new.done /\ new.values = stored
  BY DEF FormInv, FormTypes, LoadRecord, Stored
<1> HIDE DEF new
<1>3. load # Empty
  BY NotEmpty DEF ListSettings
<1>4. new # Empty
  BY <1>2, NotEmpty
<1>5. FormTypes'
  BY <1>1, <1>2 DEF FormInv, FormTypes
<1>6. ~resetting /\ (put = Empty \/ put.left)
  BY <1>3 DEF FormInv, LoadsAlone
<1>7. LoadsAlone' /\ LoadCurrent'
  BY <1>1, <1>2, <1>6 DEF LoadsAlone, LoadCurrent
<1>8. PutProgress' /\ SnapshotCurrent'
  BY <1>1, <1>2, <1>4, <1>6 DEF FormInv, PutProgress, SnapshotCurrent
<1>9. QED
  BY <1>5, <1>7, <1>8 DEF FormInv

(* Writing the keys back, as they were read, changes nothing or is noted. *)
LEMMA EncryptBackKeeps ==
    ASSUME FormInv, NEW k \in Clean(CloudKeys), EncryptBack(k),
           UNCHANGED <<draft, snapshot, put, resetting>>,
           usage' = Empty \/ usage' \in UsageRecord,
           load' = load \/ (/\ load # Empty /\ load' \in LoadRecord
                            /\ load'.values = load.values /\ load'.done = load.done)
    PROVE  FormInv'
<1>1. stored' \in Stored
  BY StoreKeepsType, FieldsOrdered DEF EncryptBack, FormInv, FormTypes
<1>2. inClear' \in BOOLEAN /\ doubtful' \in BOOLEAN
  BY DEF EncryptBack, Store
<1>3. ~doubtful' => ~doubtful /\ stored' = stored
  BY DEF EncryptBack
<1>4. FormTypes'
  BY <1>1, <1>2 DEF FormInv, FormTypes
<1>5. load' # Empty <=> load # Empty
  BY NotEmpty
<1>6. LoadsAlone'
  BY <1>5 DEF FormInv, LoadsAlone
<1>7. LoadCurrent'
  BY <1>3, <1>5 DEF FormInv, LoadCurrent
<1>8. PutProgress'
  BY <1>3 DEF FormInv, PutProgress
<1>9. SnapshotCurrent'
  BY <1>3, <1>5 DEF FormInv, SnapshotCurrent, Matches
<1>10. QED
  BY <1>4, <1>6, <1>7, <1>8, <1>9 DEF FormInv

LEMMA ListEncryptsKeeps ==
    ASSUME FormInv, ListEncrypts
    PROVE  FormInv'
<1> DEFINE new == [load EXCEPT !.clear = FALSE]
<1>1. load # Empty /\ load \in LoadRecord /\ load.values \in Stored
  BY DEF ListEncrypts, FormInv, FormTypes
<1>2. new \in LoadRecord /\ new.values = load.values /\ new.done = load.done
  BY <1>1 DEF LoadRecord
<1>3. load' = new
  BY DEF ListEncrypts
<1> HIDE DEF new
<1>4. load.values[CloudKeys] \in Clean(CloudKeys)
  BY <1>1, StoredIsClean, FieldsOrdered
<1>5. usage' = Empty \/ usage' \in UsageRecord
  BY DEF ListEncrypts, FormInv, FormTypes
<1>6. QED
  BY <1>1, <1>2, <1>3, <1>4, <1>5, EncryptBackKeeps DEF ListEncrypts

LEMMA CreditUsageEncryptsKeeps ==
    ASSUME FormInv, CreditUsageEncrypts
    PROVE  FormInv'
<1> DEFINE new == [usage EXCEPT !.clear = FALSE]
<1>1. usage \in UsageRecord
  BY DEF CreditUsageEncrypts, FormInv, FormTypes
<1>2. new \in UsageRecord
  BY <1>1 DEF UsageRecord
<1>3. usage' = new
  BY DEF CreditUsageEncrypts
<1> HIDE DEF new
<1>4. usage.keys \in Clean(CloudKeys)
  BY <1>1 DEF UsageRecord
<1>5. QED
  BY <1>2, <1>3, <1>4, EncryptBackKeeps DEF CreditUsageEncrypts

LEMMA UsageKeeps ==
    ASSUME FormInv, usage' = Empty \/ usage' \in UsageRecord,
           UNCHANGED <<stored, inClear, draft, snapshot, load, put, resetting, doubtful>>
    PROVE  FormInv'
  BY DEF FormInv, FormTypes, LoadsAlone, LoadCurrent, PutProgress, SnapshotCurrent, Matches

LEMMA UsageTyped ==
    ASSUME FormInv
    PROVE  /\ UsageSent \in UsageRecord
           /\ [done |-> TRUE, keys |-> stored[CloudKeys], clear |-> inClear] \in UsageRecord
<1>1. Defaults[CloudKeys] \in Clean(CloudKeys) /\ stored[CloudKeys] \in Clean(CloudKeys)
  BY FormConstants, StoredIsClean, FieldsOrdered DEF FormInv, FormTypes
<1>2. inClear \in BOOLEAN
  BY DEF FormInv, FormTypes
<1>3. QED
  BY <1>1, <1>2 DEF UsageSent, UsageRecord

LEMMA FetchSettingsKeeps ==
    ASSUME FormInv, FetchSettings
    PROVE  FormInv'
<1>1. load # Empty /\ load \in LoadRecord /\ load.values \in Stored /\ load.done
  BY DEF FetchSettings, FormInv, FormTypes
<1>2. load.values \in Settings
  BY <1>1 DEF LoadRecord
<1>3. /\ draft' = load.values /\ snapshot' = load.values /\ load' = Empty
      /\ UNCHANGED <<stored, inClear, usage, put, resetting, doubtful>>
  BY DEF FetchSettings
<1>4. FormTypes'
  BY <1>2, <1>3 DEF FormInv, FormTypes
<1>5. ~doubtful => Matches(load.values)
  BY <1>1, StoredIsClean DEF FormInv, LoadCurrent, Matches, Clean
<1>6. SnapshotCurrent'
  BY <1>3, <1>5 DEF SnapshotCurrent, Matches
<1>7. QED
  BY <1>3, <1>4, <1>6 DEF FormInv, LoadsAlone, LoadCurrent, PutProgress

LEMMA FetchSettingsFailsKeeps ==
    ASSUME FormInv, FetchSettingsFails
    PROVE  FormInv'
<1>1. /\ load' = Empty /\ doubtful' = (doubtful \/ load.done)
      /\ UNCHANGED <<stored, inClear, draft, snapshot, usage, put, resetting>>
  BY DEF FetchSettingsFails
<1>2. load \in LoadRecord
  BY DEF FetchSettingsFails, FormInv, FormTypes
<1>3. doubtful' \in BOOLEAN /\ (~doubtful' => ~doubtful /\ ~load.done)
  BY <1>1
<1>4. FormTypes'
  BY <1>1, <1>3 DEF FormInv, FormTypes
<1>5. SnapshotCurrent'
  BY <1>1, <1>3 DEF FormInv, SnapshotCurrent, Matches
<1>6. QED
  BY <1>1, <1>3, <1>4, <1>5 DEF FormInv, LoadsAlone, LoadCurrent, PutProgress

LEMMA UpdateSettingKeeps ==
    ASSUME FormInv, NEW f \in Fields, NEW v \in Accepts[f], UpdateSetting(f, v)
    PROVE  FormInv'
<1>1. draft' \in Settings
  BY DEF UpdateSetting, FormInv, FormTypes, Settings, Values
<1>2. UNCHANGED <<stored, inClear, snapshot, load, usage, put, resetting, doubtful>>
  BY DEF UpdateSetting
<1>3. QED
  BY <1>1, <1>2 DEF FormInv, FormTypes, LoadsAlone, LoadCurrent, PutProgress, SnapshotCurrent, Matches
LEMMA NewPutTyped ==
    ASSUME NEW values \in Settings, NEW left \in BOOLEAN
    PROVE  LET p == NewPut(values, 1, left)
           IN  p \in PutRecord /\ p # Empty /\ p.left = left /\ ~p.saved /\ p.next = 1
<1>1. NewPut(values, 1, left) \in PutRecord
  BY DEF NewPut, PutRecord
<1>2. QED
  BY <1>1, NotEmpty DEF NewPut

LEMMA HandleSaveKeeps ==
    ASSUME FormInv, HandleSave
    PROVE  FormInv'
<1> DEFINE new == NewPut(draft, 1, FALSE)
<1>1. /\ put' = new /\ doubtful' = FALSE /\ load = Empty /\ ~resetting
      /\ UNCHANGED <<stored, inClear, draft, snapshot, load, usage, resetting>>
  BY DEF HandleSave, Editable
<1>2. draft \in Settings
  BY DEF FormInv, FormTypes
<1>3. new \in PutRecord /\ new # Empty /\ new.left = FALSE /\ ~new.saved /\ new.next = 1
  BY <1>2, NewPutTyped
<1> HIDE DEF new
<1>4. FormTypes'
  BY <1>1, <1>3 DEF FormInv, FormTypes
<1>5. PutProgress'
  BY <1>1, <1>3 DEF PutProgress
<1>6. QED
  BY <1>1, <1>3, <1>4, <1>5 DEF FormInv, LoadsAlone, LoadCurrent, SnapshotCurrent

LEMMA OtherSaveKeeps ==
    ASSUME FormInv, NEW values \in Settings, OtherSave(values)
    PROVE  FormInv'
<1> DEFINE new == NewPut(values, 1, TRUE)
<1>1. /\ put' = new /\ put = Empty
      /\ UNCHANGED <<stored, inClear, draft, snapshot, load, usage, resetting, doubtful>>
  BY DEF OtherSave
<1>2. new \in PutRecord /\ new # Empty /\ new.left = TRUE /\ ~new.saved
  BY NewPutTyped
<1> HIDE DEF new
<1>3. FormTypes'
  BY <1>1, <1>2 DEF FormInv, FormTypes
<1>4. QED
  BY <1>1, <1>2, <1>3 DEF FormInv, LoadsAlone, LoadCurrent, PutProgress, SnapshotCurrent, Matches

(* A field at a time: those before it are as the save has sent them. *)
LEMMA PutWritesKeeps ==
    ASSUME FormInv, PutWrites
    PROVE  FormInv'
<1> DEFINE new == [put EXCEPT !.next = @ + 1]
           v == put.values[PutField]
<1>1. /\ put \in PutRecord /\ put # Empty /\ put.next <= Len(FieldOrder) /\ v \notin Refused
      /\ ~put.saved
  BY FieldsOrdered DEF PutWrites, Writing, FormInv, FormTypes, PutProgress, PutRecord
<1>2. /\ new \in PutRecord /\ new.values = put.values /\ new.next = put.next + 1
      /\ new.left = put.left /\ new.saved = put.saved
  BY <1>1 DEF PutRecord
<1>3. /\ put' = new /\ doubtful' = (doubtful \/ put.left) /\ Store(PutField, Normal[v])
      /\ UNCHANGED <<draft, snapshot, load, usage, resetting>>
  BY DEF PutWrites
<1> HIDE DEF new
<1>4. new # Empty
  BY <1>2, NotEmpty
<1>5. PutField \in Fields
  BY <1>1, FieldsOrdered DEF PutField, PutRecord
<1>6. /\ put.values \in Settings /\ v \in Accepts[PutField] \ Refused
      /\ Normal[v] \in Clean(PutField)
  <2>1. put.values \in Settings
    BY <1>1 DEF PutRecord
  <2>2. v \in Accepts[PutField] \ Refused
    BY <1>1, <1>5, <2>1 DEF Settings
  <2> HIDE DEF v
  <2>3. Normal[v] \in Accepts[PutField] \ Refused /\ Normal[Normal[v]] = Normal[v]
    BY <1>5, <2>2, FormConstants
  <2>4. QED
    BY <2>1, <2>2, <2>3 DEF Clean
<1>7. /\ stored' \in Stored /\ stored' = [stored EXCEPT ![PutField] = Normal[v]]
      /\ inClear' \in BOOLEAN
  BY <1>3, <1>5, <1>6, StoreKeepsType DEF Store, FormInv, FormTypes
<1>8. doubtful' \in BOOLEAN /\ (~doubtful' => ~doubtful /\ ~put.left)
  BY <1>3
<1>9. FormTypes'
  BY <1>2, <1>3, <1>7, <1>8 DEF FormInv, FormTypes
<1>10. LoadsAlone' /\ LoadCurrent'
  BY <1>1, <1>2, <1>3, <1>4, <1>8 DEF FormInv, LoadsAlone, LoadCurrent
<1>11. SnapshotCurrent'
  BY <1>1, <1>2, <1>3, <1>4, <1>8 DEF SnapshotCurrent
<1>12. PutProgress'
  <2> SUFFICES ASSUME ~doubtful', ~put.left, NEW n \in 1..Len(FieldOrder), n < new.next
               PROVE  stored'[FieldOrder[n]] = Normal[put.values[FieldOrder[n]]]
    BY <1>1, <1>2, <1>3, <1>8 DEF PutProgress
  <2>1. FieldOrder[n] \in Fields /\ stored \in [Fields -> Values]
    BY FieldsOrdered DEF FormInv, FormTypes, Stored, Settings
  <2>2. CASE FieldOrder[n] = PutField
    BY <1>7, <2>1, <2>2
  <2>3. CASE FieldOrder[n] # PutField
    <3>1. n < put.next
      BY <1>1, <1>2, <2>3 DEF PutField, PutRecord
    <3>2. stored[FieldOrder[n]] = Normal[put.values[FieldOrder[n]]]
      BY <1>1, <1>8, <3>1 DEF FormInv, PutProgress
    <3>3. QED
      BY <1>7, <2>1, <2>3, <3>2
  <2>4. QED
    BY <2>2, <2>3
<1>13. QED
  BY <1>9, <1>10, <1>11, <1>12 DEF FormInv

LEMMA PutRefusedKeeps ==
    ASSUME FormInv, PutRefused
    PROVE  FormInv'
<1>1. /\ put' = Empty /\ doubtful' = TRUE
      /\ UNCHANGED <<stored, inClear, draft, snapshot, load, usage, resetting>>
  BY DEF PutRefused
<1>2. QED
  BY <1>1 DEF FormInv, FormTypes, LoadsAlone, LoadCurrent, PutProgress, SnapshotCurrent

LEMMA UsageAgain ==
    ASSUME FormInv, usage' = IF usage = Empty THEN UsageSent ELSE usage
    PROVE  usage' = Empty \/ usage' \in UsageRecord
  BY UsageTyped DEF FormInv, FormTypes

(* The save has passed every field, so that its payload is what is stored. *)
LEMMA SaveReturnsKeeps ==
    ASSUME FormInv, SaveReturns
    PROVE  FormInv'
<1> DEFINE new == [put EXCEPT !.saved = TRUE]
<1>1. put \in PutRecord /\ put # Empty /\ put.next > Len(FieldOrder) /\ ~put.left
  BY FieldsOrdered DEF SaveReturns, Writing, FormInv, FormTypes, PutRecord
<1>2. /\ new \in PutRecord /\ new.values = put.values /\ new.next = put.next
      /\ new.left = put.left /\ new.saved
  BY <1>1 DEF PutRecord
<1>3. /\ put' = new /\ snapshot' = put.values
      /\ draft' = [put.values EXCEPT ![CloudKeys] = draft[CloudKeys]]
      /\ UNCHANGED <<stored, inClear, load, resetting, doubtful>>
  BY DEF SaveReturns
<1> HIDE DEF new
<1>4. new # Empty
  BY <1>2, NotEmpty
<1>5. put.values \in Settings /\ draft \in Settings /\ CloudKeys \in Fields
  BY <1>1, FieldsOrdered DEF FormInv, FormTypes, PutRecord
<1>6. draft' \in Settings
  BY <1>3, <1>5 DEF Settings
<1>7. usage' = Empty \/ usage' \in UsageRecord
  BY UsageAgain DEF SaveReturns
<1>8. FormTypes'
  BY <1>2, <1>3, <1>6, <1>7 DEF FormInv, FormTypes
<1>9. PutProgress'
  BY <1>1, <1>2, <1>3 DEF FormInv, PutProgress
<1>10. LoadsAlone' /\ LoadCurrent'
  BY <1>1, <1>2, <1>3 DEF FormInv, LoadsAlone, LoadCurrent
<1>11. ~doubtful => Matches(put.values)
  <2> SUFFICES ASSUME ~doubtful, NEW f \in Fields
               PROVE  stored[f] = Normal[put.values[f]]
    BY DEF Matches
  <2>1. PICK n \in 1..Len(FieldOrder) : FieldOrder[n] = f
    BY FieldsOrdered
  <2>2. n < put.next
    BY <1>1, FieldsOrdered DEF PutRecord
  <2>3. QED
    BY <1>1, <2>1, <2>2 DEF FormInv, PutProgress
<1>12. SnapshotCurrent'
  BY <1>3, <1>11 DEF SnapshotCurrent, Matches
<1>13. QED
  BY <1>8, <1>9, <1>10, <1>12 DEF FormInv

LEMMA SaveEndsKeeps ==
    ASSUME FormInv, SaveEnds
    PROVE  FormInv'
<1>1. put' = Empty /\ (put.saved \/ put.left)
      /\ UNCHANGED <<stored, inClear, draft, snapshot, load, usage, resetting, doubtful>>
  BY DEF SaveEnds
<1>2. QED
  BY <1>1 DEF FormInv, FormTypes, LoadsAlone, LoadCurrent, PutProgress, SnapshotCurrent, Matches

LEMMA SaveFailsKeeps ==
    ASSUME FormInv, SaveFails
    PROVE  FormInv'
<1> DEFINE new == [put EXCEPT !.left = TRUE]
<1>1. put \in PutRecord /\ put # Empty /\ ~put.saved
  BY DEF SaveFails, FormInv, FormTypes
<1>2. new \in PutRecord /\ new.left /\ new.saved = put.saved
  BY <1>1 DEF PutRecord
<1>3. /\ put' = new /\ doubtful' = TRUE
      /\ UNCHANGED <<stored, inClear, draft, snapshot, load, usage, resetting>>
  BY DEF SaveFails
<1> HIDE DEF new
<1>4. QED
  BY <1>1, <1>2, <1>3 DEF FormInv, FormTypes, LoadsAlone, LoadCurrent, PutProgress, SnapshotCurrent

LEMMA HandleResetKeeps ==
    ASSUME FormInv, HandleReset
    PROVE  FormInv'
<1>1. UNCHANGED <<stored, inClear, draft, snapshot, load, usage, put, doubtful>>
  BY DEF HandleReset
<1>2. load = Empty /\ (put = Empty \/ put.left)
  BY DEF HandleReset, Editable
<1>3. FormTypes' /\ LoadsAlone'
  BY <1>1, <1>2 DEF FormInv, FormTypes, LoadsAlone
<1>4. LoadCurrent' /\ PutProgress' /\ SnapshotCurrent'
  BY <1>1 DEF FormInv, LoadCurrent, PutProgress, SnapshotCurrent, Matches
<1>5. QED
  BY <1>3, <1>4 DEF FormInv

LEMMA CancelResetKeeps ==
    ASSUME FormInv, CancelReset
    PROVE  FormInv'
<1>1. UNCHANGED <<stored, inClear, draft, snapshot, load, usage, put, doubtful>>
  BY DEF CancelReset
<1>2. FormTypes' /\ LoadsAlone'
  BY <1>1 DEF FormInv, FormTypes, LoadsAlone, CancelReset
<1>3. LoadCurrent' /\ PutProgress' /\ SnapshotCurrent'
  BY <1>1 DEF FormInv, LoadCurrent, PutProgress, SnapshotCurrent, Matches
<1>4. QED
  BY <1>2, <1>3 DEF FormInv

LEMMA ConfirmResetKeeps ==
    ASSUME FormInv, ConfirmReset
    PROVE  FormInv'
<1>1. /\ resetting /\ ~resetting' /\ load' = Sent
      /\ UNCHANGED <<stored, inClear, draft, snapshot, usage, put, doubtful>>
  BY DEF ConfirmReset
<1>2. load = Empty /\ (put = Empty \/ put.left)
  BY <1>1 DEF FormInv, LoadsAlone
<1>3. Sent \in LoadRecord /\ ~Sent.done /\ Sent.values \in Stored /\ Sent # Empty
  BY NotEmpty
<1> HIDE DEF Sent
<1>4. FormTypes' /\ LoadsAlone'
  BY <1>1, <1>2, <1>3 DEF FormInv, FormTypes, LoadsAlone
<1>5. LoadCurrent' /\ PutProgress'
  BY <1>1, <1>3 DEF FormInv, LoadCurrent, PutProgress
<1>6. SnapshotCurrent'
  BY <1>1, <1>2 DEF FormInv, SnapshotCurrent, Matches
<1>7. QED
  BY <1>4, <1>5, <1>6 DEF FormInv

LEMMA FormKept ==
    ASSUME FormInv, FormNext
    PROVE  FormInv'
<1>1. CASE ListSettings
  BY <1>1, ListSettingsKeeps
<1>2. CASE CreditUsageReads
  BY <1>2, UsageKeeps, UsageTyped DEF CreditUsageReads
<1>3. CASE ListEncrypts
  BY <1>3, ListEncryptsKeeps
<1>4. CASE CreditUsageEncrypts
  BY <1>4, CreditUsageEncryptsKeeps
<1>5. CASE FetchSettings
  BY <1>5, FetchSettingsKeeps
<1>6. CASE FetchSettingsFails
  BY <1>6, FetchSettingsFailsKeeps
<1>7. CASE FetchCreditUsage
  BY <1>7, UsageKeeps DEF FetchCreditUsage
<1>8. CASE RefreshUsage
  BY <1>8, UsageKeeps, UsageTyped DEF RefreshUsage
<1>9. CASE \E f \in Fields : \E v \in Accepts[f] : UpdateSetting(f, v)
  BY <1>9, UpdateSettingKeeps
<1>10. CASE \E values \in Settings : OtherSave(values)
  BY <1>10, OtherSaveKeeps
<1>11. CASE HandleSave
  BY <1>11, HandleSaveKeeps
<1>12. CASE PutWrites
  BY <1>12, PutWritesKeeps
<1>13. CASE PutRefused
  BY <1>13, PutRefusedKeeps
<1>14. CASE SaveReturns
  BY <1>14, SaveReturnsKeeps
<1>15. CASE SaveEnds
  BY <1>15, SaveEndsKeeps
<1>16. CASE SaveFails
  BY <1>16, SaveFailsKeeps
<1>17. CASE HandleReset
  BY <1>17, HandleResetKeeps
<1>18. CASE CancelReset
  BY <1>18, CancelResetKeeps
<1>19. CASE ConfirmReset
  BY <1>19, ConfirmResetKeeps
<1>20. QED
  BY <1>1, <1>2, <1>3, <1>4, <1>5, <1>6, <1>7, <1>8, <1>9, <1>10, <1>11, <1>12, <1>13, <1>14,
     <1>15, <1>16, <1>17, <1>18, <1>19 DEF FormNext

LEMMA FormUntouched ==
    ASSUME FormInv, UNCHANGED formVars
    PROVE  FormInv'
<1>1. UNCHANGED <<stored, inClear, draft, snapshot, load, usage, put, resetting, doubtful>>
  BY DEF formVars
<1>2. FormTypes' /\ LoadsAlone'
  BY <1>1 DEF FormInv, FormTypes, LoadsAlone
<1>3. LoadCurrent' /\ PutProgress' /\ SnapshotCurrent'
  BY <1>1 DEF FormInv, LoadCurrent, PutProgress, SnapshotCurrent, Matches
<1>4. QED
  BY <1>2, <1>3 DEF FormInv

LEMMA FormStarts == ConsoleInit => FormInv
<1> SUFFICES ASSUME FormInit
             PROVE  FormInv
  BY DEF ConsoleInit
<1>1. Defaults \in Stored /\ Defaults \in Settings
  BY FormConstants DEF Stored
<1>2. UsageSent \in UsageRecord
  BY FormConstants, StoredIsClean, FieldsOrdered DEF UsageSent, UsageRecord
<1>3. Sent \in LoadRecord /\ ~Sent.done /\ Sent.values \in Stored
  BY NotEmpty
<1> HIDE DEF Sent, UsageSent
<1>4. QED
  BY <1>1, <1>2, <1>3 DEF FormInit, FormInv, FormTypes, LoadsAlone, LoadCurrent, PutProgress,
                          SnapshotCurrent

LEMMA FormStep == FormInv /\ [ConsoleNext]_consoleVars => FormInv'
<1> SUFFICES ASSUME FormInv, [ConsoleNext]_consoleVars
             PROVE  FormInv'
  OBVIOUS
<1>1. CASE SessionStep
  <2>1. Defaults \in Stored
    BY FormConstants
  <2>2. UNCHANGED formVars \/ \E s \in Stored, clear \in BOOLEAN : MountForm(s, clear)
    BY <1>1, <2>1 DEF SessionStep, PagesFollow
  <2>3. QED
    BY <2>2, MountFormStarts, FormUntouched
<1>2. CASE DashboardStep \/ ApiKeysStep
  BY <1>2, FormUntouched DEF DashboardStep, ApiKeysStep
<1>3. CASE ConfigureStep
  BY <1>3, FormKept DEF ConfigureStep
<1>4. CASE UNCHANGED consoleVars
  BY <1>4, FormUntouched DEF consoleVars
<1>5. QED
  BY <1>1, <1>2, <1>3, <1>4 DEF ConsoleNext

LEMMA FormInvariant == ConsoleSpec => []FormInv
  BY FormStarts, FormStep, PTL DEF ConsoleSpec

(* A settings page without unsaved changes shows what is stored: whatever  *)
(* is edited while a save is under way, its payload is what the table      *)
(* holds and what the snapshot is taken of (Configure.tsx, handleSave).    *)
THEOREM CleanPagesAreSaved == ConsoleSpec => []CleanIsSaved
<1>1. FormInv => CleanIsSaved
  BY DEF FormInv, SnapshotCurrent, Matches, CleanIsSaved, IsDirty
<1>2. QED
  BY <1>1, FormInvariant, PTL

-----------------------------------------------------------------------------
(* The types of the parts that are left *)

SessionTypes ==
    /\ admin \in BOOLEAN /\ loading \in BOOLEAN /\ login \in BOOLEAN
    /\ logout \in BOOLEAN /\ signedOut \in BOOLEAN
    /\ route \in Routes \cup {"login"}

LEMMA SessionTypesStep ==
    ASSUME SessionTypes, [ConsoleNext]_consoleVars
    PROVE  SessionTypes'
<1>1. CASE UNCHANGED sessionVars
  BY <1>1 DEF sessionVars, SessionTypes
<1>2. ASSUME SessionNext
      PROVE  SessionTypes'
  <2>1. CASE \E identity \in BOOLEAN : FetchAdmin(identity)
    BY <2>1 DEF SessionTypes, FetchAdmin, Arrive
  <2>2. CASE HandleSubmit
    BY <2>2 DEF SessionTypes, HandleSubmit
  <2>3. CASE LoginReturns
    BY <2>3, ConsoleRoutes DEF SessionTypes, LoginReturns
  <2>4. CASE LoginFails
    BY <2>4 DEF SessionTypes, LoginFails
  <2>5. CASE HandleLogout
    BY <2>5 DEF SessionTypes, HandleLogout
  <2>6. CASE LogoutReturns
    BY <2>6 DEF SessionTypes, LogoutReturns, Arrive
  <2>7. CASE LogoutFails
    BY <2>7 DEF SessionTypes, LogoutFails
  <2>8. CASE Reload
    BY <2>8 DEF SessionTypes, Reload
  <2>9. CASE \E page \in Routes \cup {"login"} : Navigate(page)
    BY <2>9 DEF SessionTypes, Navigate
  <2>10. QED
    BY <1>2, <2>1, <2>2, <2>3, <2>4, <2>5, <2>6, <2>7, <2>8, <2>9 DEF SessionNext
<1>3. QED
  BY <1>1, <1>2 DEF ConsoleNext, SessionStep, DashboardStep, ApiKeysStep, ConfigureStep,
                    consoleVars

-----------------------------------------------------------------------------
(* The rows only grow: no list, dialog or request knows more of them. *)
Within(r) == r \in Lists /\ r.born <= rows.born /\ r.revoked \subseteq rows.revoked

KnownRows ==
    /\ rows \in Lists /\ Within(keys)
    /\ \A l \in lists : l.answer # Nobody => Within(l.answer)
    /\ creating \in {Nobody} \cup 0..rows.born
    /\ secret \in {Nobody} \cup 1..rows.born
    /\ asked \in {Nobody} \cup 1..rows.born
    /\ revoking # Nobody => revoking.key \in 1..rows.born

LEMMA ListsAreBounded ==
    ASSUME NEW r \in Lists
    PROVE  /\ r.born \in Nat /\ r.born <= MaxKeys /\ r.revoked \subseteq 1..r.born
           /\ r = [born |-> r.born, revoked |-> r.revoked] /\ MaxKeys \in Nat
  BY KeysConstants DEF Lists

LEMMA ListsBegin ==
    ASSUME NEW r \in Lists
    PROVE  /\ NoRows \in Lists /\ NoRows.born = 0 /\ NoRows.revoked = {}
           /\ NoRows.born <= r.born
  BY ListsAreBounded, KeysConstants DEF NoRows, Lists

LEMMA RowsStart ==
    ASSUME NEW r \in Lists, MountKeys(r)
    PROVE  KnownRows'
<1>1. lists' = {Fetch("load", 0, {})} /\ Fetch("load", 0, {}).answer = Nobody
  BY DEF MountKeys, Fetch
<1>2. NoRows \in Lists /\ NoRows.born <= r.born /\ NoRows.revoked \subseteq r.revoked
  BY ListsBegin
<1>3. QED
  BY <1>1, <1>2 DEF MountKeys, KnownRows, Within

(* Fetches without an answer may come, and any may go. *)
LEMMA SameRowsKeep ==
    ASSUME KnownRows, rows' = rows,
           \A l \in lists' : l \in lists \/ l.answer = Nobody,
           Within(keys'),
           creating' \in {Nobody, creating, 0},
           secret' \in {Nobody} \cup 1..rows.born,
           asked' \in {Nobody} \cup 1..rows.born,
           revoking' # Nobody => revoking'.key \in 1..rows.born
    PROVE  KnownRows'
<1>1. rows.born \in Nat
  BY ListsAreBounded DEF KnownRows
<1>2. QED
  BY <1>1 DEF KnownRows, Within

(* More rows, or more of them revoked. *)
LEMMA MoreRowsKeep ==
    ASSUME KnownRows, rows' \in Lists, rows.born <= rows'.born,
           rows.revoked \subseteq rows'.revoked, UNCHANGED <<keys, lists, secret, asked>>,
           creating' \in {Nobody, creating} \cup 0..rows'.born,
           revoking' # Nobody => revoking # Nobody /\ revoking'.key = revoking.key
    PROVE  KnownRows'
<1>1. rows.born \in Nat /\ rows'.born \in Nat
  BY ListsAreBounded DEF KnownRows
<1>2. ASSUME NEW r, Within(r)
      PROVE  r \in Lists /\ r.born <= rows'.born /\ r.revoked \subseteq rows'.revoked
  BY <1>1, <1>2, ListsAreBounded DEF Within
<1>3. QED
  BY <1>1, <1>2 DEF KnownRows, Within

LEMMA RowsKept ==
    ASSUME KnownRows, KeysInv, KeysNext
    PROVE  KnownRows'
<1>0. rows.born \in Nat /\ keys.born \in Nat /\ keys.born <= rows.born /\ Within(keys)
  BY ListsAreBounded DEF KnownRows, Within
<1>1. CASE RefreshKeys
  <2>1. Fetch("refresh", 0, {}).answer = Nobody
    BY DEF Fetch
  <2>2. QED
    BY <1>1, <2>1, SameRowsKeep DEF RefreshKeys, StartFetch, KnownRows
<1>2. ASSUME NEW l \in lists, ListAnswers(l)
      PROVE  KnownRows'
  <2>1. l \in FetchTypes
    BY DEF KeysInv
  <2>2. PICK m : m = [l EXCEPT !.answer = rows]
    OBVIOUS
  <2>3. m.answer = rows /\ lists' = (lists \ {l}) \cup {m}
    BY <1>2, <2>1, <2>2 DEF ListAnswers, FetchTypes
  <2>4. Within(rows)
    BY <1>0 DEF KnownRows, Within
  <2>5. UNCHANGED <<rows, keys, creating, secret, asked, revoking>>
    BY <1>2 DEF ListAnswers
  <2>6. QED
    BY <2>3, <2>4, <2>5 DEF KnownRows, Within
<1>3. ASSUME NEW l \in lists, FetchKeys(l) \/ ListFails(l)
      PROVE  KnownRows'
  BY <1>0, <1>3, SameRowsKeep DEF FetchKeys, ListFails, KnownRows
<1>4. CASE (\E statuses \in SUBSET {"active", "revoked"} : FilterKeys(statuses))
           \/ (\E page \in 1..MaxKeys : PageChange(page))
           \/ (\E n \in KeyPageSizes : PageSizeChange(n))
  BY <1>0, <1>4, SameRowsKeep DEF FilterKeys, PageChange, PageSizeChange, KnownRows
<1>5. CASE (\E fromEmpty \in BOOLEAN : NewKeyForm(fromEmpty)) \/ CloseForm \/ Dismiss
  BY <1>0, <1>5, SameRowsKeep DEF NewKeyForm, CloseForm, Dismiss, KnownRows
<1>6. CASE HandleCreate \/ CreateFails
  BY <1>0, <1>6, SameRowsKeep DEF HandleCreate, CreateFails, KnownRows
<1>7. CASE KeyCreated
  <2>1. rows' \in Lists /\ rows'.born = rows.born + 1 /\ rows'.revoked = rows.revoked
    BY <1>0, <1>7, ListsAreBounded DEF KeyCreated, KnownRows, Lists
  <2>2. QED
    BY <1>0, <1>7, <2>1, MoreRowsKeep DEF KeyCreated
<1>8. CASE CreateReturns
  <2>1. Fetch("create", creating, {}).answer = Nobody
    BY DEF Fetch
  <2>2. creating \in 1..rows.born
    BY <1>0, <1>8 DEF CreateReturns, KnownRows
  <2>3. QED
    BY <1>0, <1>8, <2>1, <2>2, SameRowsKeep DEF CreateReturns, StartFetch, KnownRows
<1>9. ASSUME NEW k \in 1..MaxKeys, HandleRevoke(k)
      PROVE  KnownRows'
  <2>1. k \in 1..rows.born
    BY <1>0, <1>9 DEF HandleRevoke, PaginatedKeys, FilteredKeys
  <2>2. QED
    BY <1>0, <1>9, <2>1, SameRowsKeep DEF HandleRevoke, KnownRows
<1>10. CASE CancelRevoke
  BY <1>0, <1>10, SameRowsKeep DEF CancelRevoke, KnownRows
<1>11. CASE DoRevoke
  BY <1>0, <1>11, SameRowsKeep DEF DoRevoke, KnownRows
<1>12. CASE KeyRevoked
  <2>1. revoking.key \in 1..rows.born /\ revoking \in [key : KeyNumbers, done : BOOLEAN]
    BY <1>12 DEF KeyRevoked, KnownRows, KeysInv
  <2>2. /\ rows' \in Lists /\ rows'.born = rows.born
        /\ rows'.revoked = rows.revoked \cup {revoking.key}
    BY <1>0, <1>12, <2>1, ListsAreBounded DEF KeyRevoked, KnownRows, Lists
  <2>3. revoking'.key = revoking.key
    BY <1>12, <2>1 DEF KeyRevoked
  <2>4. QED
    BY <1>0, <1>12, <2>2, <2>3, MoreRowsKeep DEF KeyRevoked
<1>13. CASE RevokeReturns
  <2>1. Fetch("revoke", 0, {revoking.key}).answer = Nobody
    BY DEF Fetch
  <2>2. QED
    BY <1>0, <1>13, <2>1, SameRowsKeep DEF RevokeReturns, StartFetch, KnownRows
<1>14. CASE RevokeFails
  BY <1>0, <1>14, SameRowsKeep DEF RevokeFails, KnownRows
<1>15. QED
  BY <1>1, <1>2, <1>3, <1>4, <1>5, <1>6, <1>7, <1>8, <1>9, <1>10, <1>11, <1>12, <1>13, <1>14
     DEF KeysNext

LEMMA RowsStep ==
    ASSUME KnownRows, KeysInv, [ConsoleNext]_consoleVars
    PROVE  KnownRows'
<1>1. CASE UNCHANGED keysVars
  BY <1>1, SameRowsKeep DEF keysVars, KnownRows
<1>2. CASE SessionStep
  <2>1. NoRows \in Lists
    BY ListsBegin DEF KnownRows
  <2>2. QED
    BY <1>1, <1>2, <2>1, RowsStart DEF SessionStep, PagesFollow
<1>3. CASE ApiKeysStep
  BY <1>3, RowsKept DEF ApiKeysStep
<1>4. QED
  BY <1>1, <1>2, <1>3 DEF ConsoleNext, DashboardStep, ConfigureStep, consoleVars

-----------------------------------------------------------------------------
(* The fields of a PUT are written one by one, to the last. *)
Saving ==
    /\ snapshot \in Settings \cup {Empty}
    /\ put # Empty => put.next \in 1..Len(FieldOrder) + 1

LEMMA SavingKept ==
    ASSUME Saving, FormInv, FormNext
    PROVE  Saving'
<1>1. /\ put = Empty \/ put \in PutRecord
      /\ load = Empty \/ load \in LoadRecord
      /\ draft \in Settings /\ Len(FieldOrder) \in Nat
  BY FieldsOrdered DEF FormInv, FormTypes
<1>2. CASE UNCHANGED <<snapshot, put>>
  BY <1>2 DEF Saving
<1>3. CASE ListSettings \/ CreditUsageReads \/ ListEncrypts \/ CreditUsageEncrypts
           \/ FetchSettingsFails \/ FetchCreditUsage \/ RefreshUsage
           \/ (\E f \in Fields : \E v \in Accepts[f] : UpdateSetting(f, v))
           \/ HandleReset \/ CancelReset \/ ConfirmReset
  BY <1>2, <1>3 DEF ListSettings, CreditUsageReads, ListEncrypts, CreditUsageEncrypts,
     FetchSettingsFails, FetchCreditUsage, RefreshUsage, UpdateSetting, HandleReset, CancelReset,
     ConfirmReset
<1>4. CASE FetchSettings
  <2>1. load.values \in Settings
    BY <1>4 DEF FetchSettings, FormInv, FormTypes, LoadRecord
  <2>2. QED
    BY <1>4, <2>1 DEF FetchSettings, Saving
<1>5. ASSUME NEW values, NEW left, put' = NewPut(values, 1, left), snapshot' = snapshot
      PROVE  Saving'
  BY <1>1, <1>5 DEF NewPut, Saving
<1>6. CASE HandleSave \/ \E values \in Settings : OtherSave(values)
  BY <1>5, <1>6 DEF HandleSave, OtherSave
<1>7. CASE PutWrites
  <2>1. put \in PutRecord /\ put.next <= Len(FieldOrder)
    BY <1>7 DEF PutWrites, Writing, FormInv, FormTypes
  <2>2. put.next \in Nat \ {0} /\ put'.next = put.next + 1 /\ snapshot' = snapshot
    BY <1>7, <2>1 DEF PutWrites, PutRecord
  <2>3. QED
    BY <1>1, <2>1, <2>2 DEF Saving
<1>8. CASE PutRefused \/ SaveEnds
  BY <1>8 DEF PutRefused, SaveEnds, Saving
<1>9. CASE SaveReturns
  <2>1. put \in PutRecord
    BY <1>9 DEF SaveReturns, FormInv, FormTypes
  <2>2. put'.next = put.next /\ put.values \in Settings
    BY <1>9, <2>1 DEF SaveReturns, PutRecord
  <2>3. QED
    BY <1>9, <2>2 DEF SaveReturns, Saving
<1>10. CASE SaveFails
  <2>1. put \in PutRecord
    BY <1>10 DEF SaveFails, FormInv, FormTypes
  <2>2. put'.next = put.next
    BY <1>10, <2>1 DEF SaveFails, PutRecord
  <2>3. QED
    BY <1>10, <2>2 DEF SaveFails, Saving
<1>11. QED
  BY <1>3, <1>4, <1>6, <1>7, <1>8, <1>9, <1>10 DEF FormNext

LEMMA SavingStep ==
    ASSUME Saving, FormInv, [ConsoleNext]_consoleVars
    PROVE  Saving'
<1>1. CASE UNCHANGED formVars
  BY <1>1 DEF formVars, Saving
<1>2. CASE SessionStep
  BY <1>1, <1>2 DEF SessionStep, PagesFollow, MountForm, Saving
<1>3. CASE ConfigureStep
  BY <1>3, SavingKept DEF ConfigureStep
<1>4. QED
  BY <1>1, <1>2, <1>3 DEF ConsoleNext, DashboardStep, ApiKeysStep, consoleVars

-----------------------------------------------------------------------------
ConsoleInv == SessionInv /\ SessionTypes /\ ViewTypes /\ KeysInv /\ KnownRows /\ FormInv /\ Saving

LEMMA ConsoleStarts == ConsoleInit => ConsoleInv
<1> SUFFICES ASSUME ConsoleInit
             PROVE  ConsoleInv
  OBVIOUS
<1>1. SessionInv /\ SessionTypes
  BY SessionStart DEF ConsoleInit, SessionInit, SessionTypes
<1>2. ViewTypes
  BY ViewConstants DEF ConsoleInit, ViewInit, ViewTypes
<1>3. KeysInv
  BY KeysStart
<1>4. KnownRows
  <2>1. NoRows \in Lists /\ NoRows.born = 0 /\ NoRows.revoked = {}
    BY KeysConstants DEF NoRows, Lists
  <2>2. lists = {Fetch("load", 0, {})} /\ Fetch("load", 0, {}).answer = Nobody
    BY DEF ConsoleInit, KeysInit, Fetch
  <2>3. QED
    BY <2>1, <2>2 DEF ConsoleInit, KeysInit, KnownRows, Within
<1>5. FormInv /\ Saving
  BY FormStarts DEF ConsoleInit, FormInit, Saving
<1>6. QED
  BY <1>1, <1>2, <1>3, <1>4, <1>5 DEF ConsoleInv

(* In whatever order pages are opened and left and their requests answered, *)
(* no page shows, asks about or removes what it cannot have been shown.     *)
THEOREM ConsoleTypeCorrect == ConsoleSpec => []TypeOK
<1>1. ConsoleInit => ConsoleInv
  BY ConsoleStarts
<1>2. ConsoleInv /\ [ConsoleNext]_consoleVars => ConsoleInv'
  BY SessionInvStep, SessionTypesStep, ViewStep, KeysStep, RowsStep, FormStep, SavingStep
     DEF ConsoleInv
<1>3. ConsoleInv => TypeOK
  <2> SUFFICES ASSUME ConsoleInv
               PROVE  TypeOK
    OBVIOUS
  <2>1. {admin, loading, login, logout, signedOut} \subseteq BOOLEAN
    BY Zenon DEF ConsoleInv, SessionTypes
  <2>2. route \in Routes \cup {"login"} /\ (loading => ~signedOut)
    BY DEF ConsoleInv, SessionTypes, SessionInv
  <2>3. /\ {held, selected} \subseteq SUBSET Entries /\ filters \subseteq Criteria
        /\ pageSize \in PageSizes /\ currentPage \in 1..Top
        /\ drawer \in Entries \cup {Nothing}
        /\ \A d \in {asking, removing} \ {Nothing} :
              d.kind \in {"one", "selected", "history"} /\ d.ids \subseteq Entries
    BY DEF ConsoleInv, ViewTypes, DialogTyped
  <2>4. /\ {rows, keys} \subseteq Lists
        /\ keys.born <= rows.born /\ keys.revoked \subseteq rows.revoked
        /\ creating \in {Nobody} \cup 0..rows.born
        /\ {secret, asked} \subseteq {Nobody} \cup 1..rows.born
    BY DEF ConsoleInv, KnownRows, Within
  <2>5. /\ stored \in Stored /\ draft \in Settings /\ snapshot \in Settings \cup {Empty}
        /\ put # Empty => put.next \in 1..Len(FieldOrder) + 1
    BY DEF ConsoleInv, FormInv, FormTypes, Saving
  <2>6. QED
    BY <2>1, <2>2, <2>3, <2>4, <2>5 DEF TypeOK
<1>4. QED
  BY <1>1, <1>2, <1>3, PTL DEF ConsoleSpec
=============================================================================
