------------------------------ MODULE MCProxyFlow ------------------------------
(* Small instances of the proxied request for TLC. *)
EXTENDS ProxyFlow
=============================================================================
