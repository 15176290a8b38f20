----------------------------- MODULE AdminSession -----------------------------
(***************************************************************************)
(* The administrator's session: the identity the admin UI holds            *)
(* (contexts/AuthContext.tsx), the pages that show only with one           *)
(* (RequireAuth, App.tsx), and what the API answers (apps/api/src/auth).   *)
(*                                                                         *)
(* The API keeps nothing: the session is a signed cookie, which ends after *)
(* thirty days and which other windows of the browser set and clear, so    *)
(* that GET /me may answer either way at any time.                         *)
(***************************************************************************)
CONSTANT Routes  \* the pages behind RequireAuth

VARIABLES
    admin,     \* the UI holds an identity
    loading,   \* the GET /me of this load of the UI is under way
    login,     \* a POST login is under way
    logout,    \* a POST logout is under way
    route,
    signedOut  \* history: the user has signed out here, and not begun to sign in

sessionVars == <<admin, loading, login, logout, route, signedOut>>

SessionInit ==
    /\ admin = FALSE /\ loading = TRUE
    /\ login = FALSE /\ logout = FALSE
    /\ route \in Routes \cup {"login"}
    /\ signedOut = FALSE

(* Mutant: RequireAuth shows the page as soon as there is an identity. *)
RequireAuthEarly == admin /\ route \in Routes

(* RequireAuth shows the page of the route. *)
RequireAuth == ~loading /\ admin /\ route \in Routes

(* Without an identity the routes lead to the login page. *)
Arrive(identity) ==
    /\ admin' = identity
    /\ route' = IF ~loading' /\ ~identity THEN "login" ELSE route

(* AuthGuard has found a cookie, or not, or the answer is lost, which      *)
(* counts as a refusal.  It may come after a login that was quicker, and   *)
(* undo it.                                                                *)
FetchAdmin(identity) ==
    /\ loading
    /\ loading' = FALSE
    /\ Arrive(identity)
    /\ UNCHANGED <<login, logout, signedOut>>

HandleSubmit ==
    /\ route = "login" /\ ~login
    /\ login' = TRUE
    /\ signedOut' = FALSE
    /\ UNCHANGED <<admin, loading, logout, route>>

(* The credentials were right: on to the dashboard. *)
LoginReturns ==
    /\ login
    /\ login' = FALSE
    /\ admin' = TRUE /\ route' = "dashboard"
    /\ UNCHANGED <<loading, logout, signedOut>>

LoginFails ==
    /\ login
    /\ login' = FALSE
    /\ UNCHANGED <<admin, loading, logout, route, signedOut>>

(* The button of the sidebar, on every page. *)
HandleLogout ==
    /\ RequireAuth /\ ~logout
    /\ logout' = TRUE
    /\ UNCHANGED <<admin, loading, login, route, signedOut>>

(* Whatever the API answers. *)
LogoutReturns ==
    /\ logout
    /\ logout' = FALSE
    /\ UNCHANGED <<loading, login>>
    /\ Arrive(FALSE)
    /\ signedOut' = ~login

(* Without an answer the identity stays. *)
LogoutFails ==
    /\ logout
    /\ logout' = FALSE
    /\ UNCHANGED <<admin, loading, login, route, signedOut>>

(* A link of the sidebar, or the browser's history.  Bound: nobody leaves  *)
(* the login page while a login is under way.                              *)
Navigate(page) ==
    /\ page # route /\ ~login
    /\ route' = IF ~loading /\ ~admin THEN "login" ELSE page
    /\ UNCHANGED <<admin, loading, login, logout, signedOut>>

Reload ==
    /\ admin' = FALSE /\ loading' = TRUE
    /\ login' = FALSE /\ logout' = FALSE
    /\ signedOut' = FALSE
    /\ UNCHANGED route

SessionNext ==
    \/ \E identity \in BOOLEAN : FetchAdmin(identity)
    \/ HandleSubmit \/ LoginReturns \/ LoginFails
    \/ HandleLogout \/ LogoutReturns \/ LogoutFails
    \/ Reload
    \/ \E page \in Routes \cup {"login"} : Navigate(page)

(* After the user has signed out, no page shows until he signs in: the     *)
(* answer to the GET /me of this load does not bring the identity back     *)
(* (AuthContext.tsx:21-63 with RequireAuth, App.tsx:27).                   *)
SignedOutStays == signedOut => ~RequireAuth
=============================================================================
