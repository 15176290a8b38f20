---------------------------- MODULE MCCreditLedger ----------------------------
(* Small instances of the credit ledger for TLC. *)
EXTENDS CreditLedger, TLC

ReservationSymmetry == Permutations(Reservations)
LedgerSymmetry == Permutations(Pools) \cup Permutations(Reservations)
=============================================================================
