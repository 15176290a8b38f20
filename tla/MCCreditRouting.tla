---------------------------- MODULE MCCreditRouting ----------------------------
(* Small instances of the credit routing for TLC. *)
EXTENDS CreditRouting, TLC

RoutingSymmetry == Permutations(Instances) \cup Permutations(Attempts)
=============================================================================
