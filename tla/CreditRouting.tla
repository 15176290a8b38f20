----------------------------- MODULE CreditRouting -----------------------------
(***************************************************************************)
(* The gateway instances around the shared ledger                          *)
(* (apps/api/src/credits/credit-routing.service.ts): an attempt picks a    *)
(* Cloud key through Redis or, when Redis does not answer, by local        *)
(* rotation; the provider answers; the response is recorded locally and    *)
(* settled in the ledger; refreshes read the provider's counter.  Every    *)
(* await is a point where other attempts, refreshes and instances run, so  *)
(* it separates two actions here.  A Redis command may fail before it ran  *)
(* or be given up after it ran (withTimeout), and the caller cannot tell.  *)
(***************************************************************************)
EXTENDS Integers, FiniteSets, Functions

CONSTANTS
    Instances,      \* processes of the gateway, each with its own local state
    Attempts,       \* calls of reserve(); each draws its own reservation key
    Pools,          \* the configured Cloud keys
    Amount,         \* estimateCreditCost
    MaxReading,     \* bound: the most credits the provider shows for a key
    MaxActual,      \* bound: what one request may cost
    Cooldown,       \* CREDIT_KEY_COOLDOWN_MS in clock ticks
    MaxTime, MaxLosses,              \* bounds on the environment
    Fresh, Answered,                 \* see CreditLedger
    NoKey           \* an attempt that has chosen no key

ASSUME RoutingBounds ==
    /\ MaxReading \in Nat /\ MaxActual \in Nat /\ MaxTime \in Nat
    /\ Cooldown \in Nat /\ MaxLosses \in Nat
ASSUME RoutingAmount == Amount \in Nat \ {0}
ASSUME RoutingAttempts == IsFiniteSet(Attempts)
ASSUME RoutingHolders == Fresh \notin Pools /\ Answered \notin Pools /\ Fresh # Answered

VARIABLES
    initialized, credits, reserved, reserveSequence, disabled, cooldownUntil,
    ticket, members, holder, refresh, now, losses,   \* the ledger
    localDisabled,       \* per instance: the keys a 402 or an empty reading disabled
    localCooldownUntil,  \* per instance and key
    redisUnavailable,    \* per instance: redisUnavailableUntil lies ahead
    att,                 \* the attempts
    fetch,               \* per instance and key: the refresh in creditUsageInFlight
    remaining,           \* the provider's own counter
    tainted              \* history: the ledger may count consumption it has not seen

Refreshes == Instances \X Pools

Ledger == INSTANCE CreditLedger WITH Reservations <- Attempts

ledgerVars == <<initialized, credits, reserved, reserveSequence, disabled, cooldownUntil,
                ticket, members, holder, refresh, now, losses>>
localVars == <<localDisabled, localCooldownUntil, redisUnavailable>>
providerVars == <<remaining, tainted>>
vars == <<ledgerVars, localVars, att, fetch, providerVars>>

NewAttempt == [at |-> "idle", on |-> NoKey, keys |-> {}, key |-> NoKey, source |-> "none",
               answer |-> "none", cost |-> 0, until |-> 0, queued |-> {}]
NoFetch == [at |-> "none", reading |-> 0, seen |-> {}, since |-> {}]

Init ==
    /\ Ledger!Init
    /\ localDisabled = [i \in Instances |-> {}]
    /\ localCooldownUntil = [i \in Instances |-> [k \in Pools |-> 0]]
    /\ redisUnavailable = [i \in Instances |-> FALSE]
    /\ att = [a \in Attempts |-> NewAttempt]
    /\ fetch = [f \in Refreshes |-> NoFetch]
    /\ remaining \in [Pools -> 0..MaxReading]
    /\ tainted = [k \in Pools |-> FALSE]

-----------------------------------------------------------------------------
(* An attempt that is over keeps only what the ledger may still account for. *)
Finished(a) == [NewAttempt EXCEPT !.at = "done", !.source = att[a].source, !.cost = att[a].cost,
                                  !.queued = att[a].queued]

(* reserve(): the keys an instance would still try. *)
LocallyUsable(i) ==
    {k \in Pools : k \notin localDisabled[i] /\ localCooldownUntil[i][k] <= now}

(* Mutant: the last candidate is taken when none of them is usable. *)
PickLocallyAnyway(a, i, keys) ==
    att' = [att EXCEPT ![a] = [@ EXCEPT !.at = "sent", !.on = i, !.source = "local", !.keys = {},
                                        !.answer = "none",
                                        !.key = IF keys \cap LocallyUsable(i) = {} THEN NoKey
                                                ELSE CHOOSE k \in keys \cap LocallyUsable(i) : TRUE]]

(* reserveLocally(): the rotation cursor only decides which usable key it is. *)
PickLocally(a, i, keys) ==
    \/ \E k \in keys \cap LocallyUsable(i) :
          att' = [att EXCEPT ![a] = [@ EXCEPT !.at = "sent", !.on = i, !.key = k,
                                              !.source = "local", !.answer = "none",
                                              !.keys = {}]]
    \/ /\ keys \cap LocallyUsable(i) = {}
       /\ att' = [att EXCEPT ![a] = Finished(a)]

(* An attempt asks for a key among the ones its request has not tried yet; *)
(* while Redis counts as unavailable it goes straight to local rotation.   *)
Ask(a, i, keys) ==
    /\ att[a].at = "idle"
    /\ keys \subseteq LocallyUsable(i) /\ keys # {}
    /\ IF redisUnavailable[i]
       THEN PickLocally(a, i, keys)
       ELSE att' = [att EXCEPT ![a] = [@ EXCEPT !.at = "asking", !.on = i, !.keys = keys]]
    /\ UNCHANGED <<ledgerVars, localVars, fetch, providerVars>>

(* RESERVE_SCRIPT runs; the reply arrives, or the caller has given up on it. *)
ScriptReserves(a, k) ==
    /\ att[a].at = "asking"
    /\ Ledger!Reserve(att[a].keys, k, a)
    /\ \/ att' = [att EXCEPT ![a] = [@ EXCEPT !.at = "told", !.key = k, !.source = "redis",
                                              !.answer = "reserved"]]
       \/ att' = [att EXCEPT ![a] = [@ EXCEPT !.at = "told", !.answer = "unavailable"]]
    /\ UNCHANGED <<localVars, fetch, providerVars>>

(* No reservation: the pools have no capacity, none is initialised yet, or *)
(* the command has not run; given up by its caller it may still be queued. *)
ScriptDeclines(a) ==
    /\ att[a].at = "asking"
    /\ \E answer \in {"no-capacity", "unavailable"} :
          /\ answer = "no-capacity" =>
                /\ \E k \in att[a].keys : initialized[k]
                /\ Ledger!Eligible(att[a].keys) = {}
          /\ \E queued \in {{}} \cup (IF answer = "unavailable" THEN {att[a].keys} ELSE {}) :
                att' = [att EXCEPT ![a] = [@ EXCEPT !.at = "told", !.answer = answer,
                                                    !.queued = queued]]
    /\ UNCHANGED <<ledgerVars, localVars, fetch, providerVars>>

(* A RESERVE_SCRIPT that nobody waits for any more runs after all. *)
QueuedScriptReserves(a, k) ==
    /\ Ledger!Reserve(att[a].queued, k, a)
    /\ att' = [att EXCEPT ![a].queued = {}]
    /\ UNCHANGED <<localVars, fetch, providerVars>>

(* reserve() goes on with the ledger's answer and the local state of now. *)
Continue(a) ==
    LET i == att[a].on
    IN  /\ att[a].at = "told"
        /\ \/ /\ att[a].answer = "reserved"
              /\ redisUnavailable' = [redisUnavailable EXCEPT ![i] = FALSE]
              /\ att' = [att EXCEPT ![a] = [@ EXCEPT !.at = "sent", !.answer = "none", !.keys = {}]]
           \/ /\ att[a].answer = "no-capacity"
              /\ att' = [att EXCEPT ![a] = Finished(a)]
              /\ UNCHANGED redisUnavailable
           \/ /\ att[a].answer = "unavailable"
              /\ redisUnavailable' = [redisUnavailable EXCEPT ![i] = TRUE]
              /\ PickLocally(a, i, att[a].keys)
        /\ UNCHANGED <<ledgerVars, localDisabled, localCooldownUntil, fetch, providerVars>>

-----------------------------------------------------------------------------
(***************************************************************************)
(* The provider, as the gateway's code expects it: a key without credits   *)
(* may be answered 402; a request may be refused for other reasons (429,   *)
(* 401 or 403) at no cost; it may be served and say what it used (ok), or  *)
(* end without saying so (other: another status, a broken connection).     *)
(* A fetch remembers, as history, the attempts that a reading found under  *)
(* way (seen) and the ones that were charged after it (since).             *)
(***************************************************************************)
Charge(a, k, cost) ==
    /\ remaining' = [remaining EXCEPT ![k] = @ - cost]
    /\ fetch' = [f \in Refreshes |->
                   IF f[2] = k /\ fetch[f].at = "read" /\ cost > 0
                   THEN [fetch[f] EXCEPT !.since = @ \cup {a}] ELSE fetch[f]]
    /\ tainted' = [tainted EXCEPT ![k] = @ \/ (att[a].source = "local" /\ cost > 0)]

Provide(a, answer, cost) ==
    LET k == att[a].key
    IN  /\ att[a].at = "sent"
        /\ cost <= remaining[k]
        /\ answer \in {"402", "429", "401"} => cost = 0
        /\ answer = "402" => remaining[k] = 0
        /\ att' = [att EXCEPT ![a] = [@ EXCEPT !.at = "answered", !.answer = answer, !.cost = cost]]
        /\ Charge(a, k, cost)
        /\ UNCHANGED <<ledgerVars, localVars>>

(* Mutant: the 429 cooldown is computed twice over. *)
RecordLongCooldown(a) ==
    LET i == att[a].on
        k == att[a].key
        settles == att[a].source = "redis" /\ att[a].answer \in {"ok", "402", "429", "401"}
    IN  /\ att[a].at = "answered"
        /\ localDisabled' = [localDisabled EXCEPT ![i] =
                               IF att[a].answer = "402" THEN @ \cup {k} ELSE @]
        /\ localCooldownUntil' = [localCooldownUntil EXCEPT ![i][k] =
                               CASE att[a].answer = "402" -> 0
                                 [] att[a].answer = "429" -> now + Cooldown
                                 [] OTHER -> @]
        /\ att' = [att EXCEPT ![a] =
                      IF ~settles THEN Finished(a)
                      ELSE [@ EXCEPT !.at = "settling",
                                     !.until = IF att[a].answer = "429"
                                               THEN now + Cooldown + Cooldown ELSE 0]]
        /\ UNCHANGED <<ledgerVars, redisUnavailable, fetch, providerVars>>

(* recordResponse(), up to its call of the ledger. *)
Record(a) ==
    LET i == att[a].on
        k == att[a].key
        settles == att[a].source = "redis" /\ att[a].answer \in {"ok", "402", "429", "401"}
    IN  /\ att[a].at = "answered"
        /\ localDisabled' = [localDisabled EXCEPT ![i] =
                               IF att[a].answer = "402" THEN @ \cup {k} ELSE @]
        /\ localCooldownUntil' = [localCooldownUntil EXCEPT ![i][k] =
                               CASE att[a].answer = "402" -> 0
                                 [] att[a].answer = "429" -> now + Cooldown
                                 [] OTHER -> @]
        /\ att' = [att EXCEPT ![a] =
                      IF ~settles THEN Finished(a)
                      ELSE [@ EXCEPT !.at = "settling",
                                     !.until = IF att[a].answer = "429" THEN now + Cooldown ELSE 0]]
        /\ UNCHANGED <<ledgerVars, redisUnavailable, fetch, providerVars>>

(* Mutant: the estimate of a successful request is given back. *)
SettleScriptRefunds(a) ==
    LET k == att[a].key
    IN  CASE att[a].answer = "402" -> Ledger!SettleDisabled(k, a)
          [] att[a].answer = "429" -> Ledger!SettleCooldown(k, a, att[a].until)
          [] att[a].answer \in {"401", "ok"} -> Ledger!SettleRefund(k, a)

(* The settlement a response asks for. *)
SettleScript(a) ==
    LET k == att[a].key
    IN  CASE att[a].answer = "402" -> Ledger!SettleDisabled(k, a)
          [] att[a].answer = "429" -> Ledger!SettleCooldown(k, a, att[a].until)
          [] att[a].answer = "401" -> Ledger!SettleRefund(k, a)
          [] att[a].answer = "ok" -> Ledger!SettleActualUsage(k, a, att[a].cost)

(* Mutant: a settlement is sent again when its caller gave up on the first. *)
SettleRetried(a) ==
    /\ att[a].at = "settling"
    /\ \/ SettleScript(a) \/ UNCHANGED ledgerVars
    /\ \/ att' = [att EXCEPT ![a] = Finished(a)]
       \/ UNCHANGED att
    /\ UNCHANGED <<localVars, fetch, providerVars>>

Settle(a) ==
    /\ att[a].at = "settling"
    /\ SettleScript(a) \/ UNCHANGED ledgerVars   \* the command may never run
    /\ att' = [att EXCEPT ![a] = Finished(a)]
    /\ UNCHANGED <<localVars, fetch, providerVars>>

-----------------------------------------------------------------------------
(* refreshCreditUsage().  A running refresh of the key is joined, and a    *)
(* call within 30 seconds of the last one returns what that one found; it  *)
(* changes nothing, so here a refresh may start whenever none is running.  *)
(* Without a captured sequence the reading will not reach the ledger.      *)
StartRefresh(i, k) ==
    LET f == <<i, k>>
    IN  /\ fetch[f].at = "none"
        /\ Ledger!Capture(f, k) \/ UNCHANGED ledgerVars
        /\ fetch' = [fetch EXCEPT ![f] = [NoFetch EXCEPT !.at = "reading"]]
        /\ UNCHANGED <<localVars, att, providerVars>>

UnderWay(a, k) ==
    att[a].key = k /\ att[a].source = "redis" /\ att[a].at \in {"told", "sent"}

(* Mutant: the sequence may be captured after the provider was read. *)
ReadProviderFirst(i, k) ==
    LET f == <<i, k>>
    IN  \/ /\ fetch[f].at = "reading"
           /\ fetch' = [fetch EXCEPT ![f] = [@ EXCEPT !.at = "read", !.reading = remaining[k],
                                                      !.seen = {a \in Attempts : UnderWay(a, k)}]]
           /\ UNCHANGED <<ledgerVars, localVars, att, providerVars>>
        \/ /\ fetch[f].at = "read"
           /\ Ledger!Capture(f, k)
           /\ UNCHANGED <<localVars, att, fetch, providerVars>>

ReadProvider(i, k) ==
    LET f == <<i, k>>
    IN  /\ fetch[f].at = "reading"
        /\ fetch' = [fetch EXCEPT ![f] = [@ EXCEPT !.at = "read", !.reading = remaining[k],
                                                   !.seen = {a \in Attempts : UnderWay(a, k)}]]
        /\ UNCHANGED <<ledgerVars, localVars, att, providerVars>>

(* An HTTP error, a malformed body or the ten-second abort: nothing is     *)
(* reconciled and nothing is cached.                                       *)
ReadFails(i, k) ==
    LET f == <<i, k>>
    IN  /\ fetch[f].at = "reading"
        /\ fetch' = [fetch EXCEPT ![f] = NoFetch]
        /\ IF Ledger!Running(f) THEN Ledger!Abandon(f) ELSE UNCHANGED ledgerVars
        /\ UNCHANGED <<localVars, att, providerVars>>

(* What a reconcile cannot account for: an attempt it does not keep that   *)
(* was charged after the reading or is yet to be charged, when it was      *)
(* under way at the reading or its reservation is gone; consumption that   *)
(* went around the ledger; what the kept ones promise beyond the reading,  *)
(* which the clamp at zero forgets; a sequence captured before a loss.     *)
Blind(f, kept) ==
    \/ refresh[f].epoch # losses
    \/ fetch[f].reading < Amount * Cardinality(kept)
    \/ \E a \in fetch[f].since : att[a].source = "local"
    \/ \E a \in Attempts \ kept :
          /\ a \in fetch[f].seen \/ ~Ledger!Open(a)
          /\ a \in fetch[f].since \/ UnderWay(a, f[2])

RunReconcile(i, k) ==
    LET f == <<i, k>>
    IN  /\ fetch[f].at = "read"
        /\ fetch' = [fetch EXCEPT ![f] = [@ EXCEPT !.at = "reconciled", !.seen = {}, !.since = {}]]
        /\ \/ /\ Ledger!Running(f)
              /\ Ledger!Reconcile(f, fetch[f].reading)
              /\ tainted' = [tainted EXCEPT ![k] =
                               Blind(f, Ledger!Pending(k, refresh[f].sequence))]
           \/ /\ Ledger!Running(f)        \* the command never ran
              /\ Ledger!Abandon(f)
              /\ UNCHANGED tainted
           \/ /\ ~Ledger!Running(f)
              /\ UNCHANGED <<ledgerVars, tainted>>
        /\ UNCHANGED <<localVars, att, remaining>>

FinishRefresh(i, k) ==
    LET f == <<i, k>>
    IN  /\ fetch[f].at = "reconciled"
        /\ localDisabled' = [localDisabled EXCEPT ![i] =
                               IF fetch[f].reading > 0 THEN @ \ {k} ELSE @ \cup {k}]
        /\ fetch' = [fetch EXCEPT ![f] = NoFetch]
        /\ UNCHANGED <<ledgerVars, localCooldownUntil, redisUnavailable, att, providerVars>>

-----------------------------------------------------------------------------
BreakerExpires(i) ==
    /\ redisUnavailable[i]
    /\ redisUnavailable' = [redisUnavailable EXCEPT ![i] = FALSE]
    /\ UNCHANGED <<ledgerVars, localDisabled, localCooldownUntil, att, fetch, providerVars>>

(* A new billing period, or credits bought. *)
TopUp(k) ==
    /\ remaining[k] < MaxReading
    /\ remaining' = [remaining EXCEPT ![k] = @ + 1]
    /\ UNCHANGED <<ledgerVars, localVars, att, fetch, tainted>>

LedgerEnvironment ==
    /\ Ledger!Environment
    /\ UNCHANGED <<localVars, att, fetch, providerVars>>

Next ==
    \/ \E a \in Attempts :
          \/ \E i \in Instances, keys \in SUBSET Pools : Ask(a, i, keys)
          \/ \E k \in Pools : ScriptReserves(a, k)
          \/ ScriptDeclines(a)
          \/ \E k \in Pools : QueuedScriptReserves(a, k)
          \/ Continue(a)
          \/ \E answer \in {"ok", "other", "402", "429", "401"}, cost \in 0..MaxActual :
                Provide(a, answer, cost)
          \/ Record(a)
          \/ Settle(a)
    \/ \E i \in Instances, k \in Pools :
          \/ StartRefresh(i, k)
          \/ ReadProvider(i, k)
          \/ ReadFails(i, k)
          \/ RunReconcile(i, k)
          \/ FinishRefresh(i, k)
    \/ \E i \in Instances : BreakerExpires(i)
    \/ \E k \in Pools : TopUp(k)
    \/ LedgerEnvironment

Spec == Init /\ [][Next]_vars

-----------------------------------------------------------------------------
TypeOK ==
    /\ Ledger!TypeOK
    /\ localDisabled \in [Instances -> SUBSET Pools]
    /\ localCooldownUntil \in [Instances -> [Pools -> Nat]]
    /\ redisUnavailable \in [Instances -> BOOLEAN]
    /\ \A a \in Attempts :
          /\ att[a].at \in {"idle", "asking", "told", "sent", "answered", "settling", "done"}
          /\ att[a].key \in Pools \cup {NoKey}
          /\ att[a].at \in {"sent", "answered", "settling"} => att[a].key \in Pools
          /\ att[a].cost \in 0..MaxActual
    /\ \A f \in Refreshes :
          /\ fetch[f].at \in {"none", "reading", "read", "reconciled"}
          /\ fetch[f].reading \in 0..MaxReading
    /\ remaining \in [Pools -> Nat]
    /\ tainted \in [Pools -> BOOLEAN]

(* What the attempts of S have used of what the ledger promised them. *)
LedgerCost(a) == IF att[a].source = "redis" THEN att[a].cost ELSE 0
Costs == [a \in Attempts |-> LedgerCost(a)]
Consumed(S) == SumFunctionOnSet(Costs, S)

(***************************************************************************)
(* The point of the ledger: it never promises credits the provider does    *)
(* not have.  What a pool may still promise and has promised is covered by *)
(* the provider's own counter and by what the pool's indexed reservations  *)
(* have already consumed of it, in every state since the last reconcile    *)
(* that was not blind, as long as no request cost more than its estimate   *)
(* and none went around the ledger.  The history variable tainted is the   *)
(* exact list of the exceptions, and the next reconcile that is not blind  *)
(* ends each of them.                                                      *)
(***************************************************************************)
LedgerWithinProvider ==
    \A k \in Pools : ~tainted[k] /\ (\A a \in Attempts : att[a].cost <= Amount) =>
        credits[k] + reserved[k] <= remaining[k] + Consumed(members[k])

(***************************************************************************)
(* What the ledger's model takes for granted of its callers, and its       *)
(* guards would hide here: nobody reserves under a key that has been drawn *)
(* before, a settlement is only ever sent for a reservation its attempt    *)
(* still holds and for the pool it was drawn from, and a captured sequence *)
(* is kept only while its own reading is under way.                        *)
(***************************************************************************)
LedgerUsedOnce ==
    /\ \A a \in Attempts :
          /\ att[a].at \in {"idle", "asking"} => holder[a] = Fresh
          /\ att[a].at = "settling" => holder[a] = att[a].key
          /\ holder[a] \in Pools /\ att[a].source = "redis" /\ att[a].key # NoKey =>
                holder[a] = att[a].key
    /\ \A f \in Refreshes : Ledger!Running(f) =>
          fetch[f].at \in {"reading", "read"} /\ refresh[f].pool = f[2]

(***************************************************************************)
(* The gateways together drive the ledger through steps the ledger's own   *)
(* specification allows, so what is checked and proved of the ledger with  *)
(* an unrestricted client holds of the system with this one.               *)
(***************************************************************************)
ImplementsLedger == Ledger!Spec
=============================================================================
