----------------------------- MODULE DashboardView -----------------------------
(***************************************************************************)
(* What the dashboard makes of the entries it holds                        *)
(* (apps/admin/src/pages/Dashboard.tsx and its components): filters, chips,*)
(* saved views, paging, selection, the drawer and the dialogs of its       *)
(* deletions.  How the entries come to the page is DashboardSync.          *)
(*                                                                         *)
(* Filters are the set of the criteria that are switched on; two values of *)
(* one criterion (2xx, 5xx) are not told apart.  Day, month and year work  *)
(* the same, and one of them stands for the three.                         *)
(***************************************************************************)
EXTENDS Integers, FiniteSets

CONSTANTS
    Top,        \* the entries are 1..Top, the greatest the newest
    Meets,      \* per entry: the criteria it meets
    PageSizes,
    FirstSize,  \* the page size to begin with
    Nothing     \* no drawer, no dialog, no request

Entries == 1..Top
Criteria == {"preset", "custom", "backend", "fallback", "status", "slow", "search", "day"}

ASSUME ViewConstants ==
    /\ Top \in Nat \ {0} /\ PageSizes \subseteq Nat \ {0} /\ FirstSize \in PageSizes
    /\ Meets \in [Entries -> SUBSET Criteria]

VARIABLES
    held,        \* entries
    filters,     \* the criteria that are on; "preset" is a period, "custom" the parts
    pageSize,
    currentPage,
    selected,    \* selectedIds
    drawer,      \* selectedEntry
    asking,      \* the dialog that is open, with the entries it is about
    removing     \* the DELETE under way, of the same form

view == <<filters, pageSize, currentPage>>
viewVars == <<held, view, selected, drawer, asking, removing>>

ViewInit ==
    /\ held = {}
    /\ filters = {} /\ pageSize = FirstSize /\ currentPage = 1
    /\ selected = {} /\ drawer = Nothing /\ asking = Nothing /\ removing = Nothing

MountView ==
    /\ held' = {}
    /\ filters' = {} /\ pageSize' = FirstSize /\ currentPage' = 1
    /\ selected' = {} /\ drawer' = Nothing /\ asking' = Nothing /\ removing' = Nothing

-----------------------------------------------------------------------------
(* What the page shows *)

(* The parts of a date count only under "custom", and have chips only then.*)
ActiveFilters == filters \ (IF "custom" \in filters THEN {} ELSE {"day"})
FilteredEntries == {e \in held : ActiveFilters \ {"custom"} \subseteq Meets[e]}

Pages(rows) == (Cardinality(rows) + pageSize - 1) \div pageSize
PageCount == IF FilteredEntries = {} THEN 1 ELSE Pages(FilteredEntries)

(* Mutant: the page is not clamped. *)
CurrentPageOnly == currentPage
VisiblePage == IF currentPage > PageCount THEN PageCount ELSE currentPage

Rank(e) == Cardinality({f \in FilteredEntries : f >= e})
PaginatedEntries ==
    {e \in FilteredEntries : Rank(e) \in (VisiblePage - 1) * pageSize + 1..VisiblePage * pageSize}

-----------------------------------------------------------------------------
(* Filters and paging.  A dialog or the drawer covers the page. *)

Uncovered == asking = Nothing /\ drawer = Nothing

SetFilters(on) ==
    /\ Uncovered
    /\ filters' = on
    /\ UNCHANGED <<held, pageSize, selected, drawer, asking, removing>>

(* The buttons and the fields go back to the first page, the chips do not. *)
Filter(on) == SetFilters(on) /\ currentPage' = 1

ChoosePeriod(on) == Filter((filters \ {"preset", "custom"}) \cup on)
ToggleCustom == ChoosePeriod({"custom"} \ filters)
ChoosePart(on) == "custom" \in filters /\ Filter((filters \ {"day"}) \cup on)
ChooseBackend(on) == Filter((filters \ {"backend", "fallback"}) \cup on)
(* Mutant: the backend stays chosen. *)
ToggleFallbackAlone == Filter((filters \ {"fallback"}) \cup ({"fallback"} \ filters))
ToggleFallback == Filter((filters \ {"backend", "fallback"}) \cup ({"fallback"} \ filters))
ChooseStatus(on) == Filter((filters \ {"status"}) \cup on)
Search(on) == Filter((filters \ {"search"}) \cup on)

ApplySavedView(on) == Filter({"preset"} \cup on)

(* The chip of a period clears the range alone: the parts stay chosen. *)
ClearFilter(c) ==
    /\ c \in ActiveFilters
    /\ SetFilters(filters \ {c})
    /\ UNCHANGED currentPage

ClearAllFilters == ActiveFilters # {} /\ Filter({})

SetPageSize(n) ==
    /\ Uncovered /\ FilteredEntries # {}
    /\ pageSize' = n
    /\ currentPage' = 1
    /\ UNCHANGED <<held, filters, selected, drawer, asking, removing>>

(* Mutant: the buttons are not disabled at the ends. *)
GoToAny(page) ==
    /\ Uncovered /\ FilteredEntries # {}
    /\ currentPage' = page
    /\ UNCHANGED <<held, filters, pageSize, selected, drawer, asking, removing>>

GoTo(page) ==
    /\ Uncovered /\ FilteredEntries # {}
    /\ page \in 1..PageCount
    /\ currentPage' = page
    /\ UNCHANGED <<held, filters, pageSize, selected, drawer, asking, removing>>

Previous == GoTo(VisiblePage - 1)
NextPage == GoTo(VisiblePage + 1)

(* A poll or a refresh: see DashboardSync. *)
EntriesChange(rows) ==
    /\ held' = rows
    /\ UNCHANGED <<view, selected, drawer, asking, removing>>

-----------------------------------------------------------------------------
(* Selection, drawer, dialogs, deletions *)

ToggleEntrySelection(e) ==
    /\ Uncovered /\ e \in PaginatedEntries
    /\ selected' = IF e \in selected THEN selected \ {e} ELSE selected \cup {e}
    /\ UNCHANGED <<held, view, drawer, asking, removing>>

ToggleVisibleSelection ==
    /\ Uncovered /\ PaginatedEntries # {}
    /\ selected' = IF PaginatedEntries \subseteq selected THEN selected \ PaginatedEntries
                   ELSE selected \cup PaginatedEntries
    /\ UNCHANGED <<held, view, drawer, asking, removing>>

OpenDrawer(e) ==
    /\ Uncovered /\ e \in PaginatedEntries
    /\ drawer' = e
    /\ UNCHANGED <<held, view, selected, asking, removing>>

CloseAuditDrawer ==
    /\ drawer # Nothing /\ asking = Nothing
    /\ drawer' = Nothing
    /\ UNCHANGED <<held, view, selected, asking, removing>>

(* The dialog holds the entries it asks about, whatever changes behind it. *)
Ask(kind, ids) ==
    /\ asking = Nothing
    /\ asking' = [kind |-> kind, ids |-> ids]
    /\ UNCHANGED <<held, view, selected, drawer, removing>>

ConfirmDeleteEntry == drawer # Nothing /\ Ask("one", {drawer})
ConfirmDeleteSelected ==
    /\ drawer = Nothing /\ selected # {}
    /\ removing # Nothing => removing.kind = "one"
    /\ Ask("selected", selected)
AskDeleteHistory == drawer = Nothing /\ Ask("history", {})

Cancel ==
    /\ asking # Nothing
    /\ asking' = Nothing
    /\ UNCHANGED <<held, view, selected, drawer, removing>>

(* Escape is heard by the dialog and by the drawer behind it. *)
Escape ==
    /\ asking # Nothing /\ asking.kind = "one"
    /\ asking' = Nothing
    /\ drawer' = Nothing
    /\ UNCHANGED <<held, view, selected, removing>>

(* Bound: one DELETE at a time.  The history dialog stays until its answer.*)
Confirm ==
    /\ asking # Nothing /\ removing = Nothing
    /\ removing' = asking
    /\ asking' = IF asking.kind = "history" THEN asking ELSE Nothing
    /\ UNCHANGED <<held, view, selected, drawer>>

(* The full refresh that follows is an EntriesChange. *)
DeletionReturns ==
    /\ removing # Nothing
    /\ removing' = Nothing
    /\ selected' = IF removing.kind = "one" THEN selected \ removing.ids ELSE {}
    /\ drawer' = IF removing.kind = "history" THEN drawer ELSE Nothing
    /\ asking' = IF asking # Nothing /\ {asking.kind, removing.kind} = {"history"} THEN Nothing
                 ELSE asking
    /\ UNCHANGED <<held, view>>

DeletionFails ==
    /\ removing # Nothing
    /\ removing' = Nothing
    /\ UNCHANGED <<held, view, selected, drawer, asking>>

ViewNext ==
    \/ \E on \in SUBSET {"preset"} : ChoosePeriod(on)
    \/ ToggleCustom
    \/ \E on \in SUBSET {"day"} : ChoosePart(on)
    \/ \E on \in SUBSET {"backend"} : ChooseBackend(on)
    \/ ToggleFallback
    \/ \E on \in SUBSET {"status"} : ChooseStatus(on)
    \/ \E on \in SUBSET {"search"} : Search(on)
    \/ \E on \in {{"status"}, {"fallback"}, {"slow"}} : ApplySavedView(on)
    \/ \E c \in Criteria : ClearFilter(c)
    \/ ClearAllFilters \/ Previous \/ NextPage
    \/ \E n \in PageSizes : SetPageSize(n)
    \/ \E rows \in SUBSET Entries : EntriesChange(rows)
    \/ \E e \in Entries : ToggleEntrySelection(e) \/ OpenDrawer(e)
    \/ ToggleVisibleSelection \/ CloseAuditDrawer
    \/ ConfirmDeleteEntry \/ ConfirmDeleteSelected \/ AskDeleteHistory
    \/ Cancel \/ Escape \/ Confirm \/ DeletionReturns \/ DeletionFails

-----------------------------------------------------------------------------
(* Properties *)

(* While entries pass the filters, the page shows some, whatever has been  *)
(* filtered, deleted or refreshed since it was chosen (Dashboard.tsx:386). *)
NoEmptyPage == FilteredEntries # {} => PaginatedEntries # {}

(* No backend is chosen while only fallbacks are shown: the buttons would  *)
(* then show none of the two as chosen (FilterBar.tsx:195-238).            *)
OneBackendButton == ~({"backend", "fallback"} \subseteq filters)
=============================================================================
