------------------------------ MODULE ApiKeysPage ------------------------------
(***************************************************************************)
(* The page of the gateway's keys (apps/admin/src/pages/ApiKeys.tsx with   *)
(* Pagination.tsx): the list, its filter and pages, the creation of a key, *)
(* whose secret is shown once, and revocation.  Answers may be lost, and   *)
(* nothing keeps two fetches of the list apart.                            *)
(*                                                                         *)
(* Keys are numbered in the order of their creation; the list shows the    *)
(* newest first.                                                           *)
(***************************************************************************)
EXTENDS Integers, FiniteSets

CONSTANTS
    MaxKeys,       \* bound on the keys
    KeyPageSizes,
    FirstKeyPage,  \* the page size to begin with
    Nobody         \* no secret, no dialog, no request, no answer

ASSUME KeysConstants ==
    /\ MaxKeys \in Nat
    /\ KeyPageSizes \subseteq Nat \ {0} /\ FirstKeyPage \in KeyPageSizes

VARIABLES
    rows,         \* api_keys: how many there are, which are revoked
    keys,         \* the list the page holds, of the same form
    lists,        \* the fetches under way: see Fetch
    shown,        \* the statuses that pass the filter; none, if a search matches no key
    keyPage, keyPageSize,
    form,         \* showForm
    creating,     \* the POST: Nobody, 0, or the key it has made
    secret,       \* createdKey
    asked,        \* the key of the open dialog
    revoking      \* the DELETE under way: its key, and whether it is carried out

keysView == <<shown, keyPage, keyPageSize>>
keysVars == <<rows, keys, lists, keysView, form, creating, secret, asked, revoking>>

Lists == {r \in [born : 0..MaxKeys, revoked : SUBSET (1..MaxKeys)] : r.revoked \subseteq 1..r.born}

(* A fetch knows who has asked for it; "born" and "revoked" are history:   *)
(* the changes of the page that had been answered before it was sent.      *)
Fetch(by, born, revoked) == [by |-> by, born |-> born, revoked |-> revoked, answer |-> Nobody]

NoRows == [born |-> 0, revoked |-> {}]

KeysInit ==
    /\ rows = NoRows /\ keys = NoRows /\ lists = {Fetch("load", 0, {})}
    /\ shown = {"active"} /\ keyPage = 1 /\ keyPageSize = FirstKeyPage
    /\ form = FALSE /\ creating = Nobody /\ secret = Nobody
    /\ asked = Nobody /\ revoking = Nobody

(* The page is mounted, its list asked for: the table holds r. *)
MountKeys(r) ==
    /\ rows' = r /\ keys' = NoRows /\ lists' = {Fetch("load", 0, {})}
    /\ shown' = {"active"} /\ keyPage' = 1 /\ keyPageSize' = FirstKeyPage
    /\ form' = FALSE /\ creating' = Nobody /\ secret' = Nobody
    /\ asked' = Nobody /\ revoking' = Nobody

-----------------------------------------------------------------------------
(* What the page shows *)

FilteredKeys == {k \in 1..keys.born : (IF k \in keys.revoked THEN "revoked" ELSE "active") \in shown}
TotalPages ==
    IF FilteredKeys = {} THEN 1 ELSE (Cardinality(FilteredKeys) + keyPageSize - 1) \div keyPageSize

(* The page is not clamped: it may lie beyond the last one. *)
PaginatedKeys ==
    {k \in FilteredKeys : Cardinality({j \in FilteredKeys : j >= k})
                              \in (keyPage - 1) * keyPageSize + 1..keyPage * keyPageSize}

Loaded == \A l \in lists : l.by # "load"
Clear == Loaded /\ ~form /\ asked = Nobody

-----------------------------------------------------------------------------
(* The list *)

StartFetch(l) == lists' = lists \cup {l}

RefreshKeys ==
    /\ Clear /\ \A l \in lists : l.by # "refresh"
    /\ StartFetch(Fetch("refresh", 0, {}))
    /\ UNCHANGED <<rows, keys, keysView, form, creating, secret, asked, revoking>>

ListAnswers(l) ==
    /\ l \in lists /\ l.answer = Nobody
    /\ lists' = (lists \ {l}) \cup {[l EXCEPT !.answer = rows]}
    /\ UNCHANGED <<rows, keys, keysView, form, creating, secret, asked, revoking>>

FetchKeys(l) ==
    /\ l \in lists /\ l.answer # Nobody
    /\ lists' = lists \ {l}
    /\ keys' = l.answer
    /\ UNCHANGED <<rows, keysView, form, creating, secret, asked, revoking>>

ListFails(l) ==
    /\ l \in lists
    /\ lists' = lists \ {l}
    /\ UNCHANGED <<rows, keys, keysView, form, creating, secret, asked, revoking>>

FilterKeys(statuses) ==
    /\ Clear
    /\ shown' = statuses /\ keyPage' = 1
    /\ UNCHANGED <<rows, keys, lists, keyPageSize, form, creating, secret, asked, revoking>>

(* The bar is hidden while everything fits on one page. *)
PageBar == Clear /\ (TotalPages > 1 \/ Cardinality(FilteredKeys) > keyPageSize)

PageChange(page) ==
    /\ PageBar
    /\ page \in (1..TotalPages \cup {keyPage - 1}) \ {0}
    /\ keyPage' = page
    /\ UNCHANGED <<rows, keys, lists, shown, keyPageSize, form, creating, secret, asked, revoking>>

PageSizeChange(n) ==
    /\ PageBar
    /\ keyPageSize' = n
    /\ UNCHANGED <<rows, keys, lists, shown, keyPage, form, creating, secret, asked, revoking>>

-----------------------------------------------------------------------------
(* Creation *)

(* "New key"; the button of an empty list leaves the old secret in place. *)
NewKeyForm(fromEmpty) ==
    /\ Clear /\ fromEmpty => PaginatedKeys = {} /\ keys.born = 0
    /\ form' = TRUE
    /\ secret' = IF fromEmpty THEN secret ELSE Nobody
    /\ UNCHANGED <<rows, keys, lists, keysView, creating, asked, revoking>>

CloseForm ==
    /\ form
    /\ form' = FALSE
    /\ UNCHANGED <<rows, keys, lists, keysView, creating, secret, asked, revoking>>

(* Disabled until the list has come that follows an earlier creation. *)
HandleCreate ==
    /\ form /\ creating = Nobody /\ \A l \in lists : l.by # "create"
    /\ creating' = 0
    /\ UNCHANGED <<rows, keys, lists, keysView, form, secret, asked, revoking>>

KeyCreated ==
    /\ creating = 0 /\ rows.born < MaxKeys
    /\ rows' = [rows EXCEPT !.born = @ + 1]
    /\ creating' = rows.born + 1
    /\ UNCHANGED <<keys, lists, keysView, form, secret, asked, revoking>>

CreateReturns ==
    /\ creating \notin {Nobody, 0}
    /\ secret' = creating
    /\ form' = FALSE
    /\ creating' = Nobody
    /\ StartFetch(Fetch("create", creating, {}))
    /\ UNCHANGED <<rows, keys, keysView, asked, revoking>>

(* The key may exist all the same: nobody ever sees its secret. *)
CreateFails ==
    /\ creating # Nobody
    /\ creating' = Nobody
    /\ UNCHANGED <<rows, keys, lists, keysView, form, secret, asked, revoking>>

Dismiss ==
    /\ Clear /\ secret # Nobody
    /\ secret' = Nobody
    /\ UNCHANGED <<rows, keys, lists, keysView, form, creating, asked, revoking>>

-----------------------------------------------------------------------------
(* Revocation *)

HandleRevoke(k) ==
    /\ Clear /\ k \in PaginatedKeys \ keys.revoked
    /\ asked' = k
    /\ UNCHANGED <<rows, keys, lists, keysView, form, creating, secret, revoking>>

CancelRevoke ==
    /\ asked # Nobody
    /\ asked' = Nobody
    /\ UNCHANGED <<rows, keys, lists, keysView, form, creating, secret, revoking>>

(* Bound: one DELETE, and the fetch that follows it, at a time. *)
DoRevoke ==
    /\ asked # Nobody /\ revoking = Nobody /\ \A l \in lists : l.by # "revoke"
    /\ asked' = Nobody
    /\ revoking' = [key |-> asked, done |-> FALSE]
    /\ UNCHANGED <<rows, keys, lists, keysView, form, creating, secret>>

KeyRevoked ==
    /\ revoking # Nobody /\ ~revoking.done
    /\ rows' = [rows EXCEPT !.revoked = @ \cup {revoking.key}]
    /\ revoking' = [revoking EXCEPT !.done = TRUE]
    /\ UNCHANGED <<keys, lists, keysView, form, creating, secret, asked>>

(* Mutant: the list is fetched without waiting for the DELETE. *)
RevokeReturnsAtOnce ==
    /\ revoking # Nobody
    /\ revoking' = Nobody
    /\ StartFetch(Fetch("revoke", 0, {revoking.key}))
    /\ UNCHANGED <<rows, keys, keysView, form, creating, secret, asked>>

RevokeReturns ==
    /\ revoking # Nobody /\ revoking.done
    /\ revoking' = Nobody
    /\ StartFetch(Fetch("revoke", 0, {revoking.key}))
    /\ UNCHANGED <<rows, keys, keysView, form, creating, secret, asked>>

RevokeFails ==
    /\ revoking # Nobody
    /\ revoking' = Nobody
    /\ UNCHANGED <<rows, keys, lists, keysView, form, creating, secret, asked>>

KeysNext ==
    \/ RefreshKeys
    \/ \E l \in lists : ListAnswers(l) \/ FetchKeys(l) \/ ListFails(l)
    \/ \E statuses \in SUBSET {"active", "revoked"} : FilterKeys(statuses)
    \/ \E page \in 1..MaxKeys : PageChange(page)
    \/ \E n \in KeyPageSizes : PageSizeChange(n)
    \/ \E fromEmpty \in BOOLEAN : NewKeyForm(fromEmpty)
    \/ CloseForm \/ HandleCreate \/ KeyCreated \/ CreateReturns \/ CreateFails \/ Dismiss
    \/ \E k \in 1..MaxKeys : HandleRevoke(k)
    \/ CancelRevoke \/ DoRevoke \/ KeyRevoked \/ RevokeReturns \/ RevokeFails

-----------------------------------------------------------------------------
(* The list that is fetched after a creation or a revocation of the page   *)
(* shows it: the fetch is not sent before the change is answered           *)
(* (ApiKeys.tsx:82-118).                                                   *)
OwnChangesListed ==
    \A l \in lists : l.answer # Nobody =>
        l.born <= l.answer.born /\ l.revoked \subseteq l.answer.revoked
=============================================================================
