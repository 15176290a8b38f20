---------------------------- MODULE MCDashboardSync ----------------------------
(* Small instances of the audit log and the dashboard for TLC. *)
EXTENDS DashboardSync
=============================================================================
