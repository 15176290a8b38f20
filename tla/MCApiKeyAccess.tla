---------------------------- MODULE MCApiKeyAccess ----------------------------
(* Small instances of the gateway's API keys for TLC. *)
EXTENDS ApiKeyAccess, TLC

AccessSymmetry == Permutations(Instances) \cup Permutations(Keys) \cup Permutations(Requests)
=============================================================================
