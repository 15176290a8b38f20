----------------------------- MODULE DashboardSync -----------------------------
(***************************************************************************)
(* The audit log (apps/api/src/audit, with the pruning of cron.service.ts) *)
(* and the dashboard that follows it (apps/admin/src/pages/Dashboard.tsx): *)
(* polls with a since cursor that merge, full refreshes that replace,      *)
(* deletions from the page, and a flag that keeps fetches from overlapping.*)
(*                                                                         *)
(* An entry is the number of its created_at, which the proxy assigns before*)
(* the row is written: rows may come into the log late and out of order.   *)
(* AdminConsole models what the page does with the entries it holds.       *)
(***************************************************************************)
EXTENDS Integers, FiniteSets

CONSTANTS
    Limit,       \* 500: rows of an answer, entries that a merge keeps
    Top,         \* bound on the entries
    MaxRemovals  \* bound on the deletions of the page under way at once

ASSUME SyncConstants == {Limit, Top, MaxRemovals} \subseteq Nat \ {0}

VARIABLES
    begun,    \* entries that have got their created_at
    writing,  \* those whose row is being written
    log,      \* audit_logs
    deleted,  \* history: the entries that were deleted from it
    entries,  \* what the page shows
    fetches,  \* the fetch under way, if there is one (fetchingRef)
    fullDue,  \* a minute has passed since the last full refresh
    mode,     \* "live", "hidden" (live, in a window out of sight) or "paused"
    removals, \* deletions of the page that are carried out, not answered
    gone      \* history: deleted entries that a full refresh has left out

server == <<begun, writing, log, deleted>>
page == <<entries, fullDue, mode, gone>>
vars == <<server, page, fetches, removals>>

Entries == 1..Top

(* The newest rows of a set, as many as an answer holds. *)
Newest(rows) == {e \in rows : Cardinality({f \in rows : f > e}) < Limit}
Cursor(rows) == IF rows = {} THEN 0 ELSE CHOOSE e \in rows : \A f \in rows : f <= e

Init ==
    /\ begun = 0 /\ writing = {} /\ log = {} /\ deleted = {}
    /\ entries = {} /\ fullDue = TRUE /\ mode = "live" /\ gone = {}
    /\ fetches = {}
    /\ removals = 0

-----------------------------------------------------------------------------
(* The audit log *)

BeginEntry ==
    /\ begun < Top
    /\ begun' = begun + 1
    /\ writing' = writing \cup {begun + 1}
    /\ UNCHANGED <<log, deleted, page, fetches, removals>>

AppendAudit(e) ==
    /\ e \in writing
    /\ writing' = writing \ {e}
    /\ log' = log \cup {e}
    /\ UNCHANGED <<begun, deleted, page, fetches, removals>>

(* The failure is logged and swallowed. *)
AppendFails(e) ==
    /\ e \in writing
    /\ writing' = writing \ {e}
    /\ UNCHANGED <<begun, log, deleted, page, fetches, removals>>

Delete(rows) ==
    /\ log' = log \ rows
    /\ deleted' = deleted \cup (log \cap rows)
    /\ UNCHANGED <<begun, writing>>

(* A batch of the maintenance job, which takes the oldest rows. *)
Prune(e) ==
    /\ e \in log
    /\ Delete({f \in log : f <= e})
    /\ UNCHANGED <<page, fetches, removals>>

DeleteLogs(rows) ==
    /\ rows # {} /\ removals < MaxRemovals
    /\ Delete(rows)
    /\ removals' = removals + 1
    /\ UNCHANGED <<page, fetches>>

(* Rows of the page, by id: one (404 if it is gone already) or several. *)
DeleteByIds(ids) == /\ ids \subseteq entries
                    /\ Cardinality(ids) = 1 => ids \subseteq log
                    /\ DeleteLogs(ids)
(* The history since a point in time: today, a week, a month, all. *)
DeleteEntries(from) == DeleteLogs({e \in Entries : e >= from})

(* readAuditEntries: the answer to the page's fetch is put together. *)
DataAnswers(f) ==
    /\ f \in fetches /\ f.at = "sent"
    /\ fetches' = (fetches \ {f}) \cup
                  {[f EXCEPT !.at = "answered", !.deleted = deleted,
                             !.rows = Newest({e \in log : e >= f.since})]}
    /\ UNCHANGED <<server, page, removals>>

-----------------------------------------------------------------------------
(* fetchData *)

NewFetch(full) == [full |-> full, since |-> IF full THEN 0 ELSE Cursor(entries), at |-> "sent",
                   rows |-> {}, deleted |-> {}]

(* Mutant: the flag is not looked at. *)
FetchDataAnyway(full) == fetches' = fetches \cup {NewFetch(full)}

(* A call while a fetch is under way does nothing. *)
FetchData(full) == fetches' = IF fetches = {} THEN {NewFetch(full)} ELSE fetches

(* Mutant: full refreshes come from the user alone. *)
PollShallow ==
    /\ mode = "live"
    /\ FetchData(FALSE)
    /\ UNCHANGED <<server, page, removals>>

(* The interval of five seconds. *)
Poll ==
    /\ mode = "live"
    /\ FetchData(fullDue)
    /\ UNCHANGED <<server, page, removals>>

MinutePasses ==
    /\ ~fullDue
    /\ fullDue' = TRUE
    /\ UNCHANGED <<server, entries, mode, gone, fetches, removals>>

(* The effect runs anew, and its timer loads everything. *)
ToggleLive ==
    /\ mode # "hidden"
    /\ mode' = IF mode = "live" THEN "paused" ELSE "live"
    /\ FetchData(TRUE)
    /\ UNCHANGED <<server, entries, fullDue, gone, removals>>

Hide ==
    /\ mode = "live"
    /\ mode' = "hidden"
    /\ UNCHANGED <<server, entries, fullDue, gone, fetches, removals>>

(* visibilitychange *)
Unhide ==
    /\ mode = "hidden"
    /\ mode' = "live"
    /\ FetchData(fullDue)
    /\ UNCHANGED <<server, entries, fullDue, gone, removals>>

(* The key r. *)
Refresh ==
    /\ mode # "hidden"
    /\ FetchData(TRUE)
    /\ UNCHANGED <<server, page, removals>>

ReplaceEntries(f) ==
    /\ f \in fetches /\ f.at = "answered" /\ f.full
    /\ fetches' = fetches \ {f}
    /\ entries' = f.rows
    /\ fullDue' = FALSE
    /\ gone' = gone \cup f.deleted
    /\ UNCHANGED <<server, mode, removals>>

(* Mutant: a merge is not cut. *)
MergeEntriesAll(f) ==
    /\ f \in fetches /\ f.at = "answered" /\ ~f.full
    /\ fetches' = fetches \ {f}
    /\ entries' = entries \cup f.rows
    /\ UNCHANGED <<server, fullDue, mode, gone, removals>>

MergeEntries(f) ==
    /\ f \in fetches /\ f.at = "answered" /\ ~f.full
    /\ fetches' = fetches \ {f}
    /\ entries' = Newest(entries \cup f.rows)
    /\ UNCHANGED <<server, fullDue, mode, gone, removals>>

FetchFails(f) ==
    /\ f \in fetches
    /\ fetches' = fetches \ {f}
    /\ UNCHANGED <<server, page, removals>>

(* The page asks for everything anew, unless a fetch is under way. *)
RemovalReturns ==
    /\ removals > 0
    /\ removals' = removals - 1
    /\ FetchData(TRUE)
    /\ UNCHANGED <<server, page>>

(* The answer is lost. *)
RemovalFails ==
    /\ removals > 0
    /\ removals' = removals - 1
    /\ UNCHANGED <<server, page, fetches>>

Next ==
    \/ BeginEntry
    \/ \E e \in Entries : AppendAudit(e) \/ AppendFails(e) \/ Prune(e) \/ DeleteEntries(e)
    \/ \E ids \in SUBSET Entries : DeleteByIds(ids)
    \/ Poll \/ MinutePasses \/ ToggleLive \/ Hide \/ Unhide \/ Refresh
    \/ \E f \in fetches :
        DataAnswers(f) \/ ReplaceEntries(f) \/ MergeEntries(f) \/ FetchFails(f)
    \/ RemovalReturns \/ RemovalFails

Spec == Init /\ [][Next]_vars

(* The browser's interval fires, a minute passes, rows are written or the  *)
(* attempt ends, and requests do not fail for ever.                        *)
Fairness ==
    /\ WF_vars(Poll) /\ WF_vars(MinutePasses)
    /\ SF_vars(\E f \in fetches : DataAnswers(f))
    /\ SF_vars(\E f \in fetches : ReplaceEntries(f))
    /\ WF_vars(\E f \in fetches : MergeEntries(f) \/ FetchFails(f))
    /\ \A e \in Entries : WF_vars(AppendAudit(e) \/ AppendFails(e))

FairSpec == Spec /\ Fairness

-----------------------------------------------------------------------------
(* Properties *)

Fetches == [full : BOOLEAN, since : 0..Top, at : {"sent", "answered"},
            rows : SUBSET Entries, deleted : SUBSET Entries]

(* Every variable keeps its type, and the page never holds more entries    *)
(* than an answer, however many polls have been merged (Dashboard.tsx:148).*)
TypeOK ==
    /\ begun \in 0..Top /\ removals \in 0..MaxRemovals
    /\ {writing, log, deleted, entries, gone} \subseteq SUBSET (1..begun)
    /\ fetches \subseteq Fetches
    /\ fullDue \in BOOLEAN /\ mode \in {"live", "hidden", "paused"}
    /\ Cardinality(entries) <= Limit

(* An entry that was deleted, and that a full refresh has dropped from the *)
(* page, never comes back: no answer that was put together earlier is      *)
(* applied later, by a poll or by a refresh (the flag of fetchData).       *)
NoResurrection == gone \cap entries = {}

(* A page that stays live in the end shows the newest rows of the log,     *)
(* although polls ask only for rows newer than the newest one it has, rows *)
(* are written late, and rows are deleted behind its back ("deletions and  *)
(* prunes still converge", Dashboard.tsx:286).                             *)
Converges == <>[](mode = "live") => <>[](entries = Newest(log))
=============================================================================
