---------------------------- MODULE MCSettingsCache ----------------------------
(* Small instances of the settings cache for TLC. *)
EXTENDS SettingsCache, TLC

CacheSymmetry == Permutations(Instances) \cup Permutations(Gets) \cup Permutations(Writes)
=============================================================================
