------------------------------ MODULE SettingsForm ------------------------------
(***************************************************************************)
(* The settings as the administrator edits them                            *)
(* (apps/admin/src/pages/Configure.tsx) and as the API stores them         *)
(* (apps/api/src/settings/settings.controller.ts): a PUT goes through its  *)
(* fields one by one and stops at the first that is refused, and a list of *)
(* Cloud keys that is still in clear is encrypted by whoever reads it.     *)
(*                                                                         *)
(* The cache through which the API reads is SettingsCache, and left out.   *)
(***************************************************************************)
EXTENDS Integers, Sequences

CONSTANTS
    FieldOrder,  \* the fields in the order of the payload, the Cloud keys first
    Accepts,     \* per field: what may be entered
    Defaults,    \* per field: what the page sends when it knows nothing of it
    Refused,     \* the values the API answers with 400
    Normal,      \* the form in which the API stores a value
    Empty        \* no snapshot, no request

Fields == {FieldOrder[n] : n \in 1..Len(FieldOrder)}
CloudKeys == FieldOrder[1]
Values == UNION {Accepts[f] : f \in Fields}
Settings == {s \in [Fields -> Values] : \A f \in Fields : s[f] \in Accepts[f]}
Stored == {s \in Settings : \A f \in Fields : s[f] \notin Refused /\ Normal[s[f]] = s[f]}

ASSUME FormConstants ==
    /\ FieldOrder \in Seq(Fields) /\ Len(FieldOrder) > 0 /\ Defaults \in Stored
    /\ \A f \in Fields : \A v \in Accepts[f] \ Refused :
          /\ Normal[v] \in Accepts[f] \ Refused
          /\ Normal[Normal[v]] = Normal[v]
ASSUME FormEmpty ==
    /\ Empty \notin [values : Settings, next : Nat, left : BOOLEAN, saved : BOOLEAN]
    /\ Empty \notin [done : BOOLEAN, values : Settings, clear : BOOLEAN]

VARIABLES
    stored,    \* the settings table
    inClear,   \* the Cloud keys are stored unencrypted, from before encryption
    draft,     \* settings and apiKeyRows
    snapshot,  \* savedSnapshot
    load,      \* GET settings: Empty, or Sent, then what it has read
    usage,     \* GET credit-usage: of the same form, of the keys alone
    put,       \* the PUT under way: see HandleSave
    resetting, \* the reset dialog
    doubtful   \* history: since the load or the save it shows, the page's
               \* settings were changed by other means than a save it heard of

formVars == <<stored, inClear, draft, snapshot, load, usage, put, resetting, doubtful>>

NewPut(values, next, left) == [values |-> values, next |-> next, left |-> left, saved |-> FALSE]

Sent == [done |-> FALSE, values |-> Defaults, clear |-> FALSE]
UsageSent == [done |-> FALSE, keys |-> Defaults[CloudKeys], clear |-> FALSE]

FormInit ==
    /\ stored = Defaults /\ inClear = FALSE
    /\ draft = Defaults /\ snapshot = Empty
    /\ load = Sent /\ usage = UsageSent /\ put = Empty
    /\ resetting = FALSE /\ doubtful = FALSE

(* The page is mounted, both of its requests sent: the table holds s. *)
MountForm(s, clear) ==
    /\ stored' = s /\ inClear' = clear
    /\ draft' = Defaults /\ snapshot' = Empty
    /\ load' = Sent /\ usage' = UsageSent /\ put' = Empty
    /\ resetting' = FALSE /\ doubtful' = FALSE

IsDirty == snapshot # Empty /\ draft # snapshot
Editable == load = Empty /\ ~resetting

Store(f, v) ==
    /\ stored' = [stored EXCEPT ![f] = v]
    /\ inClear' = (inClear /\ f # CloudKeys)

-----------------------------------------------------------------------------
(* Reading.  Whoever finds the keys in clear writes them back, encrypted,  *)
(* as it has read them, before it answers.                                 *)

ListSettings ==
    /\ load = Sent
    /\ load' = [done |-> TRUE, values |-> stored, clear |-> inClear]
    /\ doubtful' = FALSE
    /\ UNCHANGED <<stored, inClear, draft, snapshot, usage, put, resetting>>

CreditUsageReads ==
    /\ usage = UsageSent
    /\ usage' = [done |-> TRUE, keys |-> stored[CloudKeys], clear |-> inClear]
    /\ UNCHANGED <<stored, inClear, draft, snapshot, load, put, resetting, doubtful>>

(* A PUT that came in between is lost. *)
EncryptBack(keys) ==
    /\ Store(CloudKeys, keys)
    /\ doubtful' = (doubtful \/ stored' # stored)

ListEncrypts ==
    /\ load # Empty /\ load.clear
    /\ EncryptBack(load.values[CloudKeys])
    /\ load' = [load EXCEPT !.clear = FALSE]
    /\ UNCHANGED <<draft, snapshot, usage, put, resetting>>

CreditUsageEncrypts ==
    /\ usage # Empty /\ usage.clear
    /\ EncryptBack(usage.keys)
    /\ usage' = [usage EXCEPT !.clear = FALSE]
    /\ UNCHANGED <<draft, snapshot, load, put, resetting>>

FetchSettings ==
    /\ load # Empty /\ load.done /\ ~load.clear
    /\ draft' = load.values
    /\ snapshot' = load.values
    /\ load' = Empty
    /\ UNCHANGED <<stored, inClear, usage, put, resetting, doubtful>>

(* The page then shows what it had; when it had nothing, its defaults. *)
FetchSettingsFails ==
    /\ load # Empty
    /\ load' = Empty
    /\ doubtful' = (doubtful \/ load.done)
    /\ UNCHANGED <<stored, inClear, draft, snapshot, usage, put, resetting>>

(* The answer, whose balances are shown row by row, or its loss. *)
FetchCreditUsage ==
    /\ usage # Empty /\ ~usage.clear
    /\ usage' = Empty
    /\ UNCHANGED <<stored, inClear, draft, snapshot, load, put, resetting, doubtful>>

RefreshUsage ==
    /\ Editable /\ usage = Empty
    /\ usage' = UsageSent
    /\ UNCHANGED <<stored, inClear, draft, snapshot, load, put, resetting, doubtful>>

-----------------------------------------------------------------------------
(* Editing and saving *)

(* A field, or the rows of the Cloud keys: also while a save is under way. *)
UpdateSetting(f, v) ==
    /\ Editable
    /\ draft' = [draft EXCEPT ![f] = v]
    /\ UNCHANGED <<stored, inClear, snapshot, load, usage, put, resetting, doubtful>>

(* The button works without a snapshot too.  Bound: one PUT at a time,     *)
(* those included whose page is gone or has heard of a failure ("left").   *)
HandleSave ==
    /\ Editable /\ put = Empty
    /\ put' = NewPut(draft, 1, FALSE)
    /\ doubtful' = FALSE
    /\ UNCHANGED <<stored, inClear, draft, snapshot, load, usage, resetting>>

(* Another window saves, or this one did before it came back to the page.  *)
OtherSave(values) ==
    /\ put = Empty
    /\ put' = NewPut(values, 1, TRUE)
    /\ UNCHANGED <<stored, inClear, draft, snapshot, load, usage, resetting, doubtful>>

PutField == FieldOrder[put.next]
Writing == put # Empty /\ put.next <= Len(FieldOrder)

PutWrites ==
    /\ Writing /\ put.values[PutField] \notin Refused
    /\ Store(PutField, Normal[put.values[PutField]])
    /\ put' = [put EXCEPT !.next = @ + 1]
    /\ doubtful' = (doubtful \/ put.left)
    /\ UNCHANGED <<draft, snapshot, load, usage, resetting>>

(* 400: what has been written stays written. *)
PutRefused ==
    /\ Writing /\ put.values[PutField] \in Refused
    /\ put' = Empty
    /\ doubtful' = TRUE
    /\ UNCHANGED <<stored, inClear, draft, snapshot, load, usage, resetting>>

(* Mutant: the snapshot is taken of what the page shows by then. *)
SaveReturnsSnapshotNow ==
    /\ put # Empty /\ ~Writing /\ ~put.left /\ ~put.saved
    /\ draft' = [put.values EXCEPT ![CloudKeys] = draft[CloudKeys]]
    /\ snapshot' = draft'
    /\ put' = [put EXCEPT !.saved = TRUE]
    /\ usage' = IF usage = Empty THEN UsageSent ELSE usage
    /\ UNCHANGED <<stored, inClear, load, resetting, doubtful>>

(* The fields get the values of the payload, whatever was typed meanwhile; *)
(* the rows of the Cloud keys stay.  The balances are asked for again.     *)
SaveReturns ==
    /\ put # Empty /\ ~Writing /\ ~put.left /\ ~put.saved
    /\ draft' = [put.values EXCEPT ![CloudKeys] = draft[CloudKeys]]
    /\ snapshot' = put.values
    /\ put' = [put EXCEPT !.saved = TRUE]
    /\ usage' = IF usage = Empty THEN UsageSent ELSE usage
    /\ UNCHANGED <<stored, inClear, load, resetting, doubtful>>

(* The balances have come: the buttons work again. *)
SaveEnds ==
    /\ put # Empty /\ ~Writing /\ (put.saved \/ put.left)
    /\ put' = Empty
    /\ UNCHANGED <<stored, inClear, draft, snapshot, load, usage, resetting, doubtful>>

(* The connection breaks; the API may go on. *)
SaveFails ==
    /\ put # Empty /\ ~put.left /\ ~put.saved
    /\ put' = [put EXCEPT !.left = TRUE]
    /\ doubtful' = TRUE
    /\ UNCHANGED <<stored, inClear, draft, snapshot, load, usage, resetting>>

HandleReset ==
    /\ Editable /\ (put # Empty => put.left)
    /\ resetting' = TRUE
    /\ UNCHANGED <<stored, inClear, draft, snapshot, load, usage, put, doubtful>>

CancelReset ==
    /\ resetting
    /\ resetting' = FALSE
    /\ UNCHANGED <<stored, inClear, draft, snapshot, load, usage, put, doubtful>>

ConfirmReset ==
    /\ resetting
    /\ resetting' = FALSE
    /\ load' = Sent
    /\ UNCHANGED <<stored, inClear, draft, snapshot, usage, put, doubtful>>

FormNext ==
    \/ ListSettings \/ CreditUsageReads \/ ListEncrypts \/ CreditUsageEncrypts
    \/ FetchSettings \/ FetchSettingsFails \/ FetchCreditUsage \/ RefreshUsage
    \/ \E f \in Fields : \E v \in Accepts[f] : UpdateSetting(f, v)
    \/ \E values \in Settings : OtherSave(values)
    \/ HandleSave \/ PutWrites \/ PutRefused \/ SaveReturns \/ SaveEnds \/ SaveFails
    \/ HandleReset \/ CancelReset \/ ConfirmReset

-----------------------------------------------------------------------------
(* A page without unsaved changes ("Saved", Configure.tsx:335) shows what  *)
(* is stored, however fields and keys were edited while a save was under   *)
(* way; a save that failed half-way, or one whose answer was lost, and the *)
(* encryption of old keys are excepted, and so are other windows.          *)
CleanIsSaved ==
    snapshot # Empty /\ ~IsDirty /\ load = Empty /\ (put # Empty => put.saved) /\ ~doubtful =>
        \A f \in Fields : stored[f] = Normal[draft[f]]
=============================================================================
