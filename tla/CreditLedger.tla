----------------------------- MODULE CreditLedger -----------------------------
(***************************************************************************)
(* The shared credit ledger: five Lua scripts over Redis, each one atomic, *)
(* called by the gateway instances (apps/api/src/credits/                  *)
(* credit-ledger.store.ts).  Per Cloud key the store keeps a pool hash, a  *)
(* hash per open reservation that expires by itself, and a sorted set that *)
(* indexes the reservations by their sequence number.                      *)
(*                                                                         *)
(* The callers appear here only as far as the scripts see them: a          *)
(* reservation key is drawn once, its caller settles it at most once (or   *)
(* never, or after the hash has expired), and a refresh captures the       *)
(* sequence number, reads the provider and then reconciles.                *)
(***************************************************************************)
EXTENDS Integers, FiniteSets

CONSTANTS
    Pools,          \* the Cloud API keys, by their opaque key id
    Reservations,   \* the reservation keys a randomUUID may draw
    Refreshes,      \* the authoritative refreshes that may run at once
    Amount,         \* the estimate a request reserves (estimateCreditCost)
    MaxReading,     \* bound: the largest remainingCredits the provider shows
    MaxActual,      \* bound: the largest creditsUsed a response reports
    Cooldown,       \* CREDIT_KEY_COOLDOWN_MS in clock ticks
    MaxTime,        \* bound: the last clock tick
    MaxLosses,      \* bound: how often Redis may lose its data
    Fresh,          \* holder of a reservation key nobody has drawn
    Answered        \* holder of a reservation key whose caller is done

ASSUME LedgerAmount == Amount \in Nat \ {0}
ASSUME LedgerBounds ==
    /\ MaxReading \in Nat /\ MaxActual \in Nat /\ MaxTime \in Nat
    /\ Cooldown \in Nat /\ MaxLosses \in Nat
ASSUME LedgerFinite == IsFiniteSet(Reservations)
ASSUME LedgerHolders == Fresh \notin Pools /\ Answered \notin Pools /\ Fresh # Answered

VARIABLES
    initialized,      \* pool hash: the field credits exists
    credits,          \* pool hash: credits
    reserved,         \* pool hash: reserved
    reserveSequence,  \* pool hash: reserveSequence
    disabled,         \* pool hash: disabled = '1'
    cooldownUntil,    \* pool hash: cooldownUntil
    ticket,           \* reservation hash: its sequence, 0 when there is no hash
    members,          \* the sorted set of a pool, as a set of reservation keys
    holder,           \* the pool the caller of a reservation holds it for
    refresh,          \* the refresh in flight, or idle
    now,              \* Date.now()
    losses            \* how often Redis lost its data

poolVars == <<initialized, credits, reserved, reserveSequence, disabled, cooldownUntil>>
vars == <<poolVars, ticket, members, holder, refresh, now, losses>>

Idle == [pool |-> Fresh]
Running(f) == refresh[f] # Idle
Open(r) == ticket[r] # 0

Init ==
    /\ initialized = [p \in Pools |-> FALSE]
    /\ credits = [p \in Pools |-> 0]
    /\ reserved = [p \in Pools |-> 0]
    /\ reserveSequence = [p \in Pools |-> 0]
    /\ disabled = [p \in Pools |-> FALSE]
    /\ cooldownUntil = [p \in Pools |-> 0]
    /\ ticket = [r \in Reservations |-> 0]
    /\ members = [p \in Pools |-> {}]
    /\ holder = [r \in Reservations |-> Fresh]
    /\ refresh = [f \in Refreshes |-> Idle]
    /\ now = 0
    /\ losses = 0

(***************************************************************************)
(* RESERVE_SCRIPT.  The pool with the most credits among the candidates    *)
(* that can cover the estimate; the order of the candidates, which only    *)
(* breaks ties, is left open.                                              *)
(***************************************************************************)
(* Mutant: the script forgets that the estimate must be covered. *)
EligibleUncovered(C) ==
    {p \in C : initialized[p] /\ ~disabled[p] /\ cooldownUntil[p] <= now}

Eligible(C) ==
    {p \in C : /\ initialized[p]
               /\ ~disabled[p]
               /\ cooldownUntil[p] <= now
               /\ credits[p] >= Amount}

Selectable(C) == {p \in Eligible(C) : \A q \in Eligible(C) : credits[q] <= credits[p]}

Reserve(C, p, r) ==
    /\ p \in Selectable(C)
    /\ holder[r] = Fresh
    /\ reserveSequence' = [reserveSequence EXCEPT ![p] = @ + 1]
    /\ credits' = [credits EXCEPT ![p] = @ - Amount]
    /\ reserved' = [reserved EXCEPT ![p] = @ + Amount]
    /\ ticket' = [ticket EXCEPT ![r] = reserveSequence[p] + 1]
    /\ members' = [members EXCEPT ![p] = @ \cup {r}]
    /\ holder' = [holder EXCEPT ![r] = p]
    /\ UNCHANGED <<initialized, disabled, cooldownUntil, refresh, now, losses>>

(***************************************************************************)
(* SETTLE_SCRIPT.  An open reservation leaves the ledger and its estimate  *)
(* returns to the pool; one that has expired or was reconciled changes     *)
(* nothing, and its index entry stays for the next reconcile.  The script  *)
(* deletes every hash it marks, so the states other than open that it      *)
(* writes are never read back.                                             *)
(***************************************************************************)
(* Mutant: the counter is adjusted without looking at the state. *)
CloseUnchecked(p, r) ==
    /\ ticket' = [ticket EXCEPT ![r] = 0]
    /\ members' = [members EXCEPT ![p] = @ \ {r}]
    /\ reserved' = [reserved EXCEPT ![p] = @ - Amount]
    /\ holder' = [holder EXCEPT ![r] = Answered]

(* Mutant: the index entry is removed and the hash left behind. *)
CloseKeepsHash(p, r) ==
    /\ members' = IF Open(r) THEN [members EXCEPT ![p] = @ \ {r}] ELSE members
    /\ reserved' = IF Open(r) THEN [reserved EXCEPT ![p] = @ - Amount] ELSE reserved
    /\ holder' = [holder EXCEPT ![r] = Answered]
    /\ UNCHANGED ticket

Close(p, r) ==
    /\ ticket' = [ticket EXCEPT ![r] = 0]
    /\ members' = IF Open(r) THEN [members EXCEPT ![p] = @ \ {r}] ELSE members
    /\ reserved' = IF Open(r) THEN [reserved EXCEPT ![p] = @ - Amount] ELSE reserved
    /\ holder' = [holder EXCEPT ![r] = Answered]

(* Mutant: the estimate is returned whether or not the reservation is open. *)
RefundedAlways(p, r) == [credits EXCEPT ![p] = @ + Amount]

Refunded(p, r) == IF Open(r) THEN [credits EXCEPT ![p] = @ + Amount] ELSE credits

SettleRefund(p, r) ==
    /\ holder[r] = p
    /\ Close(p, r)
    /\ credits' = Refunded(p, r)
    /\ UNCHANGED <<initialized, reserveSequence, disabled, cooldownUntil,
                   refresh, now, losses>>

(* Mutant: the last cooldown written wins. *)
SettleCooldownOverwrites(p, r, until) ==
    /\ holder[r] = p
    /\ Close(p, r)
    /\ credits' = Refunded(p, r)
    /\ cooldownUntil' = [cooldownUntil EXCEPT ![p] = until]
    /\ UNCHANGED <<initialized, reserveSequence, disabled, refresh, now, losses>>

(* until was computed by the caller before the script ran, maybe long before. *)
SettleCooldown(p, r, until) ==
    /\ holder[r] = p
    /\ Close(p, r)
    /\ credits' = Refunded(p, r)
    /\ cooldownUntil' = [cooldownUntil EXCEPT ![p] = IF until > @ THEN until ELSE @]
    /\ UNCHANGED <<initialized, reserveSequence, disabled, refresh, now, losses>>

SettleDisabled(p, r) ==
    /\ holder[r] = p
    /\ Close(p, r)
    /\ credits' = [credits EXCEPT ![p] = 0]
    /\ initialized' = [initialized EXCEPT ![p] = TRUE]
    /\ disabled' = [disabled EXCEPT ![p] = TRUE]
    /\ cooldownUntil' = [cooldownUntil EXCEPT ![p] = 0]
    /\ UNCHANGED <<reserveSequence, refresh, now, losses>>

(***************************************************************************)
(* ACTUAL_USAGE_SCRIPT.  The estimate is replaced by what the response     *)
(* says it used; an excess is taken from the pool as far as it goes.       *)
(***************************************************************************)
LesserOf(a, b) == IF a < b THEN a ELSE b
AtLeastZero(a) == IF a < 0 THEN 0 ELSE a

SettleActualUsage(p, r, actual) ==
    LET delta == actual - Amount
    IN  /\ holder[r] = p
        /\ Close(p, r)
        /\ credits' =
              IF ~Open(r) THEN credits
              ELSE IF delta > 0
                   THEN [credits EXCEPT ![p] = @ - LesserOf(delta, AtLeastZero(@))]
                   ELSE [credits EXCEPT ![p] = @ - delta]
        /\ UNCHANGED <<initialized, reserveSequence, disabled, cooldownUntil,
                       refresh, now, losses>>

(* A response that settles nothing (5xx, no creditsUsed), or a caller that *)
(* crashed: the reservation stays until its hash expires or a refresh.     *)
LeaveReserved(r) ==
    /\ holder[r] \in Pools
    /\ holder' = [holder EXCEPT ![r] = Answered]
    /\ UNCHANGED <<poolVars, ticket, members, refresh, now, losses>>

(***************************************************************************)
(* CAPTURE_SCRIPT, run before the provider is asked.  known is a history   *)
(* variable: the reservations that were open when the sequence was read.   *)
(***************************************************************************)
(* Mutant: the captured number is the next one to be given out. *)
CaptureNext(f, p) ==
    /\ ~Running(f)
    /\ refresh' = [refresh EXCEPT ![f] =
                     [pool |-> p, sequence |-> reserveSequence[p] + 1, epoch |-> losses,
                      known |-> {r \in members[p] : Open(r)}]]
    /\ UNCHANGED <<poolVars, ticket, members, holder, now, losses>>

Capture(f, p) ==
    /\ ~Running(f)
    /\ refresh' = [refresh EXCEPT ![f] =
                     [pool |-> p, sequence |-> reserveSequence[p], epoch |-> losses,
                      known |-> {r \in members[p] : Open(r)}]]
    /\ UNCHANGED <<poolVars, ticket, members, holder, now, losses>>

(* The provider did not answer with a reading: no reconcile. *)
Abandon(f) ==
    /\ Running(f)
    /\ refresh' = [refresh EXCEPT ![f] = Idle]
    /\ UNCHANGED <<poolVars, ticket, members, holder, now, losses>>

(***************************************************************************)
(* RECONCILE_SCRIPT.  Reservations newer than the captured sequence stay   *)
(* promised; older ones are taken to be part of the reading, and index     *)
(* entries whose hash has expired are dropped.                             *)
(***************************************************************************)
(* Mutant: the comparison is the wrong way round. *)
PendingOlder(p, sequence) == {r \in members[p] : Open(r) /\ ticket[r] <= sequence}

(* Mutant: entries without a hash are left in the index. *)
PendingWithExpired(p, sequence) == {r \in members[p] : Open(r) => ticket[r] > sequence}

Pending(p, sequence) == {r \in members[p] : Open(r) /\ ticket[r] > sequence}

Reconcile(f, reading) ==
    LET p == refresh[f].pool
        pending == Pending(p, refresh[f].sequence)
        outstanding == Amount * Cardinality(pending)
    IN  /\ Running(f)
        /\ credits' = [credits EXCEPT ![p] = AtLeastZero(reading - outstanding)]
        /\ reserved' = [reserved EXCEPT ![p] = outstanding]
        /\ members' = [members EXCEPT ![p] = pending]
        /\ ticket' = [r \in Reservations |->
                        IF r \in members[p] \ pending THEN 0 ELSE ticket[r]]
        /\ initialized' = [initialized EXCEPT ![p] = TRUE]
        /\ disabled' = [disabled EXCEPT ![p] = (reading <= 0)]
        /\ cooldownUntil' = [cooldownUntil EXCEPT ![p] = IF @ <= now THEN 0 ELSE @]
        /\ refresh' = [refresh EXCEPT ![f] = Idle]
        /\ UNCHANGED <<reserveSequence, holder, now, losses>>

(* EXPIRE on the reservation hash; the pool and the index keep counting it. *)
Expire(r) ==
    /\ Open(r)
    /\ ticket' = [ticket EXCEPT ![r] = 0]
    /\ UNCHANGED <<poolVars, members, holder, refresh, now, losses>>

(* Redis restarts without its data; callers and refreshes go on. *)
LoseData ==
    /\ losses < MaxLosses
    /\ losses' = losses + 1
    /\ initialized' = [p \in Pools |-> FALSE]
    /\ credits' = [p \in Pools |-> 0]
    /\ reserved' = [p \in Pools |-> 0]
    /\ reserveSequence' = [p \in Pools |-> 0]
    /\ disabled' = [p \in Pools |-> FALSE]
    /\ cooldownUntil' = [p \in Pools |-> 0]
    /\ ticket' = [r \in Reservations |-> 0]
    /\ members' = [p \in Pools |-> {}]
    /\ UNCHANGED <<holder, refresh, now>>

Tick ==
    /\ now < MaxTime
    /\ now' = now + 1
    /\ UNCHANGED <<poolVars, ticket, members, holder, refresh, losses>>

Request ==
    \/ \E C \in SUBSET Pools, p \in Pools, r \in Reservations : Reserve(C, p, r)
    \/ \E p \in Pools, r \in Reservations :
          \/ SettleRefund(p, r)
          \/ \E sent \in 0..now : SettleCooldown(p, r, sent + Cooldown)
          \/ SettleDisabled(p, r)
          \/ \E actual \in 0..MaxActual : SettleActualUsage(p, r, actual)
    \/ \E r \in Reservations : LeaveReserved(r)

Refresh ==
    \E f \in Refreshes :
       \/ \E p \in Pools : Capture(f, p)
       \/ Abandon(f)
       \/ \E reading \in 0..MaxReading : Reconcile(f, reading)

Environment ==
    \/ \E r \in Reservations : Expire(r)
    \/ LoseData
    \/ Tick

Next == Request \/ Refresh \/ Environment

Spec == Init /\ [][Next]_vars

(***************************************************************************)
(* Reservation hashes expire; every cron run refreshes every key, whatever *)
(* was refreshed in between; and the provider answers one of the refreshes *)
(* of a key once in a while, though any single fetch may fail.             *)
(***************************************************************************)
Fairness ==
    /\ \A r \in Reservations : WF_vars(Expire(r))
    /\ \A f \in Refreshes, p \in Pools :
          /\ SF_vars(Capture(f, p))
          /\ SF_vars(refresh[f].pool = p /\ \E reading \in 0..MaxReading : Reconcile(f, reading))

FairSpec == Spec /\ Fairness

-----------------------------------------------------------------------------
RefreshRecord ==
    [pool : Pools, sequence : Nat, epoch : Nat, known : SUBSET Reservations]

TypeOK ==
    /\ initialized \in [Pools -> BOOLEAN]
    /\ credits \in [Pools -> Nat]
    /\ reserved \in [Pools -> Nat]
    /\ reserveSequence \in [Pools -> Nat]
    /\ disabled \in [Pools -> BOOLEAN]
    /\ cooldownUntil \in [Pools -> Nat]
    /\ ticket \in [Reservations -> Nat]
    /\ members \in [Pools -> SUBSET Reservations]
    /\ holder \in [Reservations -> Pools \cup {Fresh, Answered}]
    /\ refresh \in [Refreshes -> RefreshRecord \cup {Idle}]
    /\ now \in Nat
    /\ losses \in Nat

(***************************************************************************)
(* The index and the reservation hashes agree: every open hash is indexed, *)
(* for one pool only, under a sequence the pool has given out and to no    *)
(* other open reservation.  Otherwise a reconcile would miss a promise or  *)
(* release it twice, however late hashes expire and callers settle.        *)
(***************************************************************************)
IndexSound ==
    /\ \A r \in Reservations : Open(r) => \E p \in Pools : r \in members[p]
    /\ \A p \in Pools : \A r \in members[p] :
          /\ holder[r] # Fresh
          /\ holder[r] \in Pools => holder[r] = p
          /\ ticket[r] <= reserveSequence[p]
          /\ \A q \in Pools : r \in members[q] => q = p
          /\ \A s \in members[p] : Open(r) /\ ticket[s] = ticket[r] => s = r

(***************************************************************************)
(* The reserved counter of a pool is worth exactly the reservations in its *)
(* index, open or expired: scripts adjust the two separately, and a settle *)
(* that comes after the expiry touches neither.                            *)
(***************************************************************************)
ReservedMatchesIndex ==
    \A p \in Pools : reserved[p] = Amount * Cardinality(members[p])

(***************************************************************************)
(* While a refresh is under way, and unless Redis lost its counters since, *)
(* the captured sequence separates exactly the reservations that were open *)
(* at the capture from the ones made after it.                             *)
(***************************************************************************)
FenceSound ==
    \A f \in Refreshes : Running(f) /\ refresh[f].epoch = losses =>
        \A r \in members[refresh[f].pool] :
            Open(r) => (ticket[r] <= refresh[f].sequence <=> r \in refresh[f].known)

(***************************************************************************)
(* A completing refresh never forgets a promise made after its capture: an *)
(* open reservation the capture did not see is still promised afterwards,  *)
(* also when other refreshes and settlements ran in between.               *)
(***************************************************************************)
NewerReservationsKept ==
    [][\A f \in Refreshes :
         Running(f) /\ ~Running(f)' /\ refresh[f].epoch = losses =>
            \A r \in members[refresh[f].pool] \ refresh[f].known :
                Open(r) => Open(r)' /\ r \in members'[refresh[f].pool]]_vars

(***************************************************************************)
(* A cooldown that still runs is never cut short: 429 answers settle in    *)
(* any order, each with the time its own caller computed, and a refresh    *)
(* may fall in between.  Only a 402 clears it, which disables the pool; a  *)
(* reading of zero, which ends a refresh, disables the pool too and must   *)
(* leave the cooldown alone.                                               *)
(***************************************************************************)
CooldownNeverShortened ==
    [][\A p \in Pools :
         cooldownUntil[p] > now /\ losses' = losses =>
            \/ cooldownUntil'[p] >= cooldownUntil[p]
            \/ (disabled'[p] /\ UNCHANGED refresh)]_vars

(***************************************************************************)
(* A promise nobody settles (the caller crashed, or its settle came after  *)
(* the hash had expired) does not weigh on the pool for ever.              *)
(***************************************************************************)
LeakedReservationsReturn ==
    \A p \in Pools, r \in Reservations : (r \in members[p]) ~> (r \notin members[p])

(***************************************************************************)
(* The scripts implement the credit budget: nothing but a reading of the   *)
(* provider's counter ever adds to what a pool may promise and has         *)
(* promised, so no interleaving of settlements, expiries and refreshes     *)
(* returns an estimate twice.                                              *)
(***************************************************************************)
Budget == INSTANCE CreditBudget WITH
              available <- credits, held <- reserved, Readings <- 0..MaxReading

ImplementsBudget == Budget!Spec
=============================================================================
