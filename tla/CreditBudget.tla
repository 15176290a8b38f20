----------------------------- MODULE CreditBudget -----------------------------
(***************************************************************************)
(* What the shared credit ledger promises, with no reservations, sequence  *)
(* numbers or refreshes in sight.  For every Cloud key there is an amount  *)
(* the gateway may still promise to requests (available) and an amount it  *)
(* has promised already (held).  Between two readings of the provider's    *)
(* own counter the sum of the two never grows: promising moves credits     *)
(* from available to held, an answer gives at most the estimate back, and  *)
(* only a reading may add to the sum.                                      *)
(***************************************************************************)
EXTENDS Integers

CONSTANTS
    Pools,      \* the Cloud API keys, by their opaque key id
    Amount,     \* the estimate one request reserves (estimateCreditCost)
    Readings    \* the values the provider's counter may show

VARIABLES
    available,  \* credits of a pool that may still be promised
    held        \* credits of a pool promised and not yet accounted for

vars == <<available, held>>

Elsewhere(p) ==
    \A q \in Pools \ {p} : available'[q] = available[q] /\ held'[q] = held[q]

Init ==
    /\ available = [p \in Pools |-> 0]
    /\ held = [p \in Pools |-> 0]

(* A request is promised its estimate, which must be covered. *)
Hold(p) ==
    /\ available[p] >= Amount
    /\ available'[p] = available[p] - Amount
    /\ held'[p] = held[p] + Amount
    /\ Elsewhere(p)

(* One promise is resolved: at most its estimate returns to the pool, and *)
(* a request that cost more than its estimate takes the rest out of it.   *)
Resolve(p) ==
    /\ held[p] >= Amount
    /\ held'[p] = held[p] - Amount
    /\ available'[p] <= available[p] + Amount
    /\ available'[p] >= 0
    /\ Elsewhere(p)

(* The provider said the pool is empty: nothing more may be promised. *)
Withdraw(p) ==
    /\ available'[p] = 0
    /\ held'[p] \in {held[p], held[p] - Amount}
    /\ held'[p] >= 0
    /\ Elsewhere(p)

(* A reading of the provider's counter replaces the estimate, less what is *)
(* still promised; a reading smaller than the promises leaves nothing.     *)
Refill(p, reading) ==
    /\ 0 <= held'[p] /\ held'[p] <= held[p]
    /\ available'[p] = IF reading > held'[p] THEN reading - held'[p] ELSE 0
    /\ Elsewhere(p)

(* The store is lost with everything in it. *)
Wipe ==
    \A p \in Pools : available'[p] = 0 /\ held'[p] = 0

Next ==
    \/ Wipe
    \/ \E p \in Pools :
          \/ Hold(p)
          \/ Resolve(p)
          \/ Withdraw(p)
          \/ \E reading \in Readings : Refill(p, reading)

Spec == Init /\ [][Next]_vars
=============================================================================
