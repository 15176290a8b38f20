----------------------------- MODULE AdminConsole -----------------------------
(***************************************************************************)
(* The admin UI: the session and the page it shows (App.tsx).  A page is   *)
(* mounted while its route is shown, and its state and its requests are    *)
(* its own: when it is unmounted they are dropped, and the next mount      *)
(* begins anew.                                                            *)
(*                                                                         *)
(* What the API stores for a page may have changed in any way by the next  *)
(* mount: it is chosen then, and of no account while the page is away.     *)
(***************************************************************************)
EXTENDS AdminSession, DashboardView, ApiKeysPage, SettingsForm

consoleVars == <<sessionVars, viewVars, keysVars, formVars>>

ASSUME ConsoleRoutes == {"dashboard", "api-keys", "configure"} \subseteq Routes

ConsoleInit == SessionInit /\ ViewInit /\ KeysInit /\ FormInit

Mounted(page) == RequireAuth /\ route = page
Mounts(page) == ~Mounted(page) /\ Mounted(page)'
Unmounts(page) == Mounted(page) /\ ~Mounted(page)'
Stays(page) == Mounted(page) = Mounted(page)'

PagesFollow ==
    /\ IF Stays("dashboard") THEN UNCHANGED viewVars ELSE MountView
    /\ \/ Stays("api-keys") /\ UNCHANGED keysVars
       \/ Mounts("api-keys") /\ \E r \in Lists : MountKeys(r)
       \/ Unmounts("api-keys") /\ MountKeys(NoRows)
    /\ \/ Stays("configure") /\ UNCHANGED formVars
       \/ Mounts("configure") /\ \E s \in Stored, clear \in BOOLEAN : MountForm(s, clear)
       \/ Unmounts("configure") /\ MountForm(Defaults, FALSE)

SessionStep == SessionNext /\ PagesFollow
DashboardStep ==
    Mounted("dashboard") /\ ViewNext /\ UNCHANGED <<sessionVars, keysVars, formVars>>
ApiKeysStep ==
    Mounted("api-keys") /\ KeysNext /\ UNCHANGED <<sessionVars, viewVars, formVars>>
ConfigureStep ==
    Mounted("configure") /\ FormNext /\ UNCHANGED <<sessionVars, viewVars, keysVars>>

ConsoleNext == SessionStep \/ DashboardStep \/ ApiKeysStep \/ ConfigureStep

ConsoleSpec == ConsoleInit /\ [][ConsoleNext]_consoleVars

-----------------------------------------------------------------------------
(* Every variable keeps its type; what a page asks about or removes is     *)
(* among what it can have shown, and its page number is a page.            *)
TypeOK ==
    /\ {admin, loading, login, logout, signedOut} \subseteq BOOLEAN
    /\ route \in Routes \cup {"login"} /\ (loading => ~signedOut)
    /\ {held, selected} \subseteq SUBSET Entries /\ filters \subseteq Criteria
    /\ pageSize \in PageSizes /\ currentPage \in 1..Top
    /\ drawer \in Entries \cup {Nothing}
    /\ \A d \in {asking, removing} \ {Nothing} :
          d.kind \in {"one", "selected", "history"} /\ d.ids \subseteq Entries
    /\ {rows, keys} \subseteq Lists /\ keys.born <= rows.born /\ keys.revoked \subseteq rows.revoked
    /\ creating \in {Nobody} \cup 0..rows.born
    /\ {secret, asked} \subseteq {Nobody} \cup 1..rows.born
    /\ stored \in Stored /\ draft \in Settings /\ snapshot \in Settings \cup {Empty}
    /\ put # Empty => put.next \in 1..Len(FieldOrder) + 1
=============================================================================
