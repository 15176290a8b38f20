-------------------------- MODULE CreditRoutingProofs --------------------------
(***************************************************************************)
(* Machine-checked proofs about the gateways around the shared ledger, for *)
(* any number of instances, keys and attempts.  First, every action of an  *)
(* instance runs one of the ledger's scripts or none, called with values   *)
(* the ledger expects, so what is proved of the ledger with an             *)
(* unrestricted client holds in this system; the invariant says what an    *)
(* attempt and a refresh carry from one await to the next.  Then, from     *)
(* that, what the gateways add: how each attempt uses its reservation key  *)
(* (Uses), what a refresh may rely on between its capture, its reading and *)
(* its reconcile (ReadHolds), and that the ledger stays within the         *)
(* provider's counter (Within), for which an attempt under way must be in  *)
(* the index of its pool (Covered).  In the end, what the ledger promises  *)
(* is restated for this system.                                            *)
(***************************************************************************)
EXTENDS CreditRouting, FiniteSetTheorems, WellFoundedInduction, TLAPS

AttemptRecord ==
    [at : {"idle", "asking", "told", "sent", "answered", "settling", "done"},
     on : Instances \cup {NoKey}, keys : SUBSET Pools, key : Pools \cup {NoKey},
     source : {"none", "local", "redis"},
     answer : {"none", "reserved", "no-capacity", "unavailable",
               "ok", "other", "402", "429", "401"},
     cost : 0..MaxActual, until : Int, queued : SUBSET Pools]

FetchRecord ==
    [at : {"none", "reading", "read", "reconciled"}, reading : 0..MaxReading,
     seen : SUBSET Attempts, since : SUBSET Attempts]

(* An attempt that will use its key has one, and one that settles carries  *)
(* an answer that settles, with an end of its cooldown that it computed    *)
(* at some time up to now.                                                 *)
CarriesOn(r, t) ==
    /\ r.at = "told" /\ r.answer = "reserved" => r.key \in Pools
    /\ r.at \in {"sent", "answered", "settling"} => r.key \in Pools
    /\ r.at = "settling" => r.answer \in {"ok", "402", "429", "401"}
    /\ r.at = "settling" /\ r.answer = "429" => \E sent \in 0..t : r.until = sent + Cooldown

RoutingInv ==
    /\ now \in Nat
    /\ att \in [Attempts -> AttemptRecord]
    /\ \A a \in Attempts : CarriesOn(att[a], now)
    /\ fetch \in [Refreshes -> FetchRecord]
    /\ remaining \in [Pools -> 0..MaxReading]

-----------------------------------------------------------------------------
LEMMA InitRouting ==
    ASSUME Init
    PROVE  RoutingInv
<1>1. now = 0 /\ att = [a \in Attempts |-> NewAttempt] /\ fetch = [f \in Refreshes |-> NoFetch]
  BY DEF Init, Ledger!Init
<1>2. NewAttempt \in AttemptRecord /\ CarriesOn(NewAttempt, now)
  BY RoutingBounds DEF NewAttempt, AttemptRecord, CarriesOn
<1>3. NoFetch \in FetchRecord
  BY RoutingBounds DEF NoFetch, FetchRecord
<1>4. QED
  BY <1>1, <1>2, <1>3 DEF Init, RoutingInv

(* One attempt goes on; the rest stays. *)
LEMMA AttemptGoesOn ==
    ASSUME RoutingInv, NEW a \in Attempts, NEW r \in AttemptRecord, CarriesOn(r, now),
           att' = [att EXCEPT ![a] = r],
           now' = now, fetch' \in [Refreshes -> FetchRecord],
           remaining' \in [Pools -> 0..MaxReading]
    PROVE  RoutingInv'
<1>1. att' \in [Attempts -> AttemptRecord]
  BY DEF RoutingInv
<1>2. ASSUME NEW b \in Attempts
      PROVE  CarriesOn(att'[b], now')
  <2>1. CASE b = a
    BY <2>1 DEF RoutingInv
  <2>2. CASE b # a
    BY <2>2 DEF RoutingInv
  <2>3. QED
    BY <2>1, <2>2
<1>3. QED
  BY <1>1, <1>2 DEF RoutingInv

(* A finished attempt settles nothing. *)
LEMMA FinishedIsSound ==
    ASSUME RoutingInv, NEW a \in Attempts
    PROVE  Finished(a) \in AttemptRecord /\ CarriesOn(Finished(a), now)
<1>1. att[a] \in AttemptRecord
  BY DEF RoutingInv
<1>2. NewAttempt \in AttemptRecord
  BY RoutingBounds DEF NewAttempt, AttemptRecord
<1>3. Finished(a) \in AttemptRecord
  BY <1>1, <1>2 DEF Finished, AttemptRecord
<1>4. Finished(a).at = "done"
  BY <1>1, <1>2 DEF Finished, AttemptRecord
<1>5. QED
  BY <1>3, <1>4 DEF CarriesOn

(* Local rotation hands out a usable key or none. *)
LEMMA PickIsSound ==
    ASSUME RoutingInv, NEW a \in Attempts, NEW i \in Instances \cup {NoKey},
           NEW keys \in SUBSET Pools, PickLocally(a, i, keys),
           now' = now, UNCHANGED <<fetch, remaining>>
    PROVE  RoutingInv'
<1>1. att[a] \in AttemptRecord
  BY DEF RoutingInv
<1>2. fetch' \in [Refreshes -> FetchRecord] /\ remaining' \in [Pools -> 0..MaxReading]
  BY DEF RoutingInv
<1>3. ASSUME NEW k \in keys,
             att' = [att EXCEPT ![a] = [@ EXCEPT !.at = "sent", !.on = i, !.key = k,
                                              !.source = "local", !.answer = "none",
                                              !.keys = {}]]
      PROVE  RoutingInv'
  <2> DEFINE r == [att[a] EXCEPT !.at = "sent", !.on = i, !.key = k, !.source = "local",
                                 !.answer = "none", !.keys = {}]
  <2>1. r \in AttemptRecord /\ CarriesOn(r, now)
    BY <1>1 DEF AttemptRecord, CarriesOn
  <2>2. att' = [att EXCEPT ![a] = r]
    BY <1>3
  <2>3. QED
    BY <1>2, <2>1, <2>2, AttemptGoesOn
<1>4. CASE att' = [att EXCEPT ![a] = Finished(a)]
  BY <1>2, <1>4, FinishedIsSound, AttemptGoesOn
<1>5. QED
  BY <1>3, <1>4 DEF PickLocally

-----------------------------------------------------------------------------
(* The steps of an attempt. *)
LEMMA AskPreserves ==
    ASSUME RoutingInv, NEW a \in Attempts, NEW i \in Instances, NEW keys \in SUBSET Pools,
           Ask(a, i, keys)
    PROVE  RoutingInv'
<1>1. att[a] \in AttemptRecord
  BY DEF RoutingInv
<1>2. now' = now /\ UNCHANGED <<fetch, remaining>>
  BY DEF Ask, ledgerVars, providerVars
<1>3. CASE PickLocally(a, i, keys)
  BY <1>2, <1>3, PickIsSound
<1>4. CASE att' = [att EXCEPT ![a] = [@ EXCEPT !.at = "asking", !.on = i, !.keys = keys]]
  <2> DEFINE r == [att[a] EXCEPT !.at = "asking", !.on = i, !.keys = keys]
  <2>1. r \in AttemptRecord
    BY <1>1 DEF AttemptRecord
  <2>2. CarriesOn(r, now)
    BY <1>1 DEF AttemptRecord, CarriesOn
  <2>3. att' = [att EXCEPT ![a] = r]
    BY <1>4
  <2>4. QED
    BY <1>2, <2>1, <2>2, <2>3, AttemptGoesOn DEF RoutingInv
<1>5. QED
  BY <1>3, <1>4 DEF Ask

LEMMA ScriptReservesPreserves ==
    ASSUME RoutingInv, NEW a \in Attempts, NEW k \in Pools, ScriptReserves(a, k)
    PROVE  RoutingInv'
<1>1. att[a] \in AttemptRecord
  BY DEF RoutingInv
<1>2. now' = now /\ UNCHANGED <<fetch, remaining>>
  BY DEF ScriptReserves, Ledger!Reserve, providerVars
<1>3. CASE att' = [att EXCEPT ![a] = [@ EXCEPT !.at = "told", !.key = k, !.source = "redis",
                                              !.answer = "reserved"]]
  <2> DEFINE r == [att[a] EXCEPT !.at = "told", !.key = k, !.source = "redis",
                                 !.answer = "reserved"]
  <2>1. r \in AttemptRecord
    BY <1>1 DEF AttemptRecord
  <2>2. CarriesOn(r, now)
    BY <1>1 DEF AttemptRecord, CarriesOn
  <2>3. att' = [att EXCEPT ![a] = r]
    BY <1>3
  <2>4. QED
    BY <1>2, <2>1, <2>2, <2>3, AttemptGoesOn DEF RoutingInv
<1>4. CASE att' = [att EXCEPT ![a] = [@ EXCEPT !.at = "told", !.answer = "unavailable"]]
  <2> DEFINE r == [att[a] EXCEPT !.at = "told", !.answer = "unavailable"]
  <2>1. r \in AttemptRecord
    BY <1>1 DEF AttemptRecord
  <2>2. CarriesOn(r, now)
    BY <1>1 DEF AttemptRecord, CarriesOn
  <2>3. att' = [att EXCEPT ![a] = r]
    BY <1>4
  <2>4. QED
    BY <1>2, <2>1, <2>2, <2>3, AttemptGoesOn DEF RoutingInv
<1>5. QED
  BY <1>3, <1>4 DEF ScriptReserves

LEMMA ScriptDeclinesPreserves ==
    ASSUME RoutingInv, NEW a \in Attempts, ScriptDeclines(a)
    PROVE  RoutingInv'
<1>1. att[a] \in AttemptRecord
  BY DEF RoutingInv
<1>2. now' = now /\ UNCHANGED <<fetch, remaining>>
  BY DEF ScriptDeclines, ledgerVars, providerVars
<1>3. PICK answer \in {"no-capacity", "unavailable"}, queued \in {{}, att[a].keys} :
        att' = [att EXCEPT ![a] = [@ EXCEPT !.at = "told", !.answer = answer, !.queued = queued]]
  BY DEF ScriptDeclines
<1> DEFINE r == [att[a] EXCEPT !.at = "told", !.answer = answer, !.queued = queued]
<1>4. r \in AttemptRecord
  BY <1>1 DEF AttemptRecord
<1>5. CarriesOn(r, now)
  BY <1>1 DEF AttemptRecord, CarriesOn
<1>6. att' = [att EXCEPT ![a] = r]
  BY <1>3
<1>7. QED
  BY <1>2, <1>4, <1>5, <1>6, AttemptGoesOn DEF RoutingInv

LEMMA QueuedScriptReservesPreserves ==
    ASSUME RoutingInv, NEW a \in Attempts, NEW k \in Pools, QueuedScriptReserves(a, k)
    PROVE  RoutingInv'
<1>1. att[a] \in AttemptRecord /\ CarriesOn(att[a], now)
  BY DEF RoutingInv
<1>2. now' = now /\ UNCHANGED <<fetch, remaining>>
  BY DEF QueuedScriptReserves, Ledger!Reserve, providerVars
<1> DEFINE r == [att[a] EXCEPT !.queued = {}]
<1>3. r \in AttemptRecord
  BY <1>1 DEF AttemptRecord
<1>4. CarriesOn(r, now)
  BY <1>1 DEF AttemptRecord, CarriesOn
<1>5. att' = [att EXCEPT ![a] = r]
  BY DEF QueuedScriptReserves
<1>6. QED
  BY <1>2, <1>3, <1>4, <1>5, AttemptGoesOn DEF RoutingInv

LEMMA ContinuePreserves ==
    ASSUME RoutingInv, NEW a \in Attempts, Continue(a)
    PROVE  RoutingInv'
<1>1. att[a] \in AttemptRecord /\ CarriesOn(att[a], now)
  BY DEF RoutingInv
<1>2. now' = now /\ UNCHANGED <<fetch, remaining>> /\ att[a].at = "told"
  BY DEF Continue, ledgerVars, providerVars
<1>3. CASE /\ att[a].answer = "reserved"
           /\ att' = [att EXCEPT ![a] = [@ EXCEPT !.at = "sent", !.answer = "none", !.keys = {}]]
  <2> DEFINE r == [att[a] EXCEPT !.at = "sent", !.answer = "none", !.keys = {}]
  <2>1. r \in AttemptRecord
    BY <1>1 DEF AttemptRecord
  <2>2. CarriesOn(r, now)
    BY <1>1, <1>2, <1>3 DEF AttemptRecord, CarriesOn
  <2>3. att' = [att EXCEPT ![a] = r]
    BY <1>3
  <2>4. QED
    BY <1>2, <2>1, <2>2, <2>3, AttemptGoesOn DEF RoutingInv
<1>4. CASE att' = [att EXCEPT ![a] = Finished(a)]
  BY <1>2, <1>4, FinishedIsSound, AttemptGoesOn DEF RoutingInv
<1>5. CASE PickLocally(a, att[a].on, att[a].keys)
  <2>1. att[a].on \in Instances \cup {NoKey} /\ att[a].keys \in SUBSET Pools
    BY <1>1 DEF AttemptRecord
  <2>2. QED
    BY <1>2, <1>5, <2>1, PickIsSound
<1>6. QED
  BY <1>3, <1>4, <1>5 DEF Continue

LEMMA ProvidePreserves ==
    ASSUME RoutingInv, NEW a \in Attempts, NEW cost \in 0..MaxActual,
           NEW answer \in {"ok", "other", "402", "429", "401"}, Provide(a, answer, cost)
    PROVE  RoutingInv'
<1>1. att[a] \in AttemptRecord /\ CarriesOn(att[a], now)
  BY DEF RoutingInv
<1>2. now' = now /\ att[a].at = "sent" /\ Charge(a, att[a].key, cost)
      /\ cost <= remaining[att[a].key]
  BY DEF Provide, ledgerVars
<1>3. att[a].key \in Pools
  BY <1>1, <1>2 DEF CarriesOn
<1>4. remaining' \in [Pools -> 0..MaxReading]
  <2>1. remaining[att[a].key] \in 0..MaxReading
    BY <1>3 DEF RoutingInv
  <2>2. remaining[att[a].key] - cost \in 0..MaxReading
    BY <1>2, <2>1, RoutingBounds
  <2>3. QED
    BY <1>2, <2>2 DEF Charge, RoutingInv
<1>5. fetch' \in [Refreshes -> FetchRecord]
  <2>1. ASSUME NEW f \in Refreshes
        PROVE  [fetch[f] EXCEPT !.since = @ \cup {a}] \in FetchRecord /\ fetch[f] \in FetchRecord
    BY DEF RoutingInv, FetchRecord
  <2>2. QED
    BY <1>2, <2>1 DEF Charge
<1> DEFINE r == [att[a] EXCEPT !.at = "answered", !.answer = answer, !.cost = cost]
<1>6. r \in AttemptRecord
  BY <1>1 DEF AttemptRecord
<1>7. CarriesOn(r, now)
  BY <1>1, <1>3 DEF AttemptRecord, CarriesOn
<1>8. att' = [att EXCEPT ![a] = r]
  BY DEF Provide
<1>9. QED
  BY <1>2, <1>4, <1>5, <1>6, <1>7, <1>8, AttemptGoesOn

LEMMA RecordPreserves ==
    ASSUME RoutingInv, NEW a \in Attempts, Record(a)
    PROVE  RoutingInv'
<1>1. att[a] \in AttemptRecord /\ CarriesOn(att[a], now) /\ now \in Nat
  BY DEF RoutingInv
<1>2. now' = now /\ att[a].at = "answered" /\ UNCHANGED <<fetch, remaining>>
  BY DEF Record, ledgerVars, providerVars
<1>3. CASE att' = [att EXCEPT ![a] = Finished(a)]
  BY <1>2, <1>3, FinishedIsSound, AttemptGoesOn DEF RoutingInv
<1> DEFINE end == IF att[a].answer = "429" THEN now + Cooldown ELSE 0
           r == [att[a] EXCEPT !.at = "settling", !.until = end]
<1>4. CASE /\ att[a].answer \in {"ok", "402", "429", "401"}
           /\ att' = [att EXCEPT ![a] = r]
  <2>1. end \in Int
    BY <1>1, RoutingBounds
  <2> HIDE DEF end
  <2>2. r \in AttemptRecord
    BY <1>1, <2>1 DEF AttemptRecord
  <2>3. r.at = "settling" /\ r.key = att[a].key /\ r.answer = att[a].answer /\ r.until = end
    BY <1>1, <2>1 DEF AttemptRecord
  <2>4. att[a].key \in Pools
    BY <1>1, <1>2 DEF CarriesOn
  <2>5. att[a].answer = "429" => end = now + Cooldown /\ now \in 0..now
    BY <1>1 DEF end
  <2> HIDE DEF r
  <2>6. CarriesOn(r, now)
    BY <1>4, <2>3, <2>4, <2>5 DEF CarriesOn
  <2>7. QED
    BY <1>2, <1>4, <2>2, <2>6, AttemptGoesOn DEF RoutingInv
<1>5. QED
  BY <1>3, <1>4 DEF Record

(* A settlement is one of the ledger's, for a pool, with legal arguments. *)
LEMMA SettleIsLedgerStep ==
    ASSUME RoutingInv, NEW a \in Attempts, Settle(a)
    PROVE  /\ Ledger!Request \/ UNCHANGED ledgerVars
           /\ now' = now
<1> DEFINE k == att[a].key
<1>1. /\ att[a] \in AttemptRecord
      /\ att[a].at = "settling" => att[a].answer \in {"ok", "402", "429", "401"}
      /\ att[a].at = "settling" => att[a].key \in Pools
      /\ att[a].at = "settling" /\ att[a].answer = "429" =>
            \E sent \in 0..now : att[a].until = sent + Cooldown
  BY DEF RoutingInv, CarriesOn
<1>2. att[a].at = "settling"
  BY DEF Settle
<1>3. k \in Pools /\ att[a].cost \in 0..MaxActual
  BY <1>1, <1>2 DEF AttemptRecord
<1>4. CASE UNCHANGED ledgerVars
  BY <1>4 DEF ledgerVars
<1>5. CASE SettleScript(a) /\ att[a].answer = "402"
  <2>1. Ledger!SettleDisabled(k, a)
    BY <1>5 DEF SettleScript
  <2>2. QED
    BY <1>3, <2>1 DEF Ledger!Request, Ledger!SettleDisabled
<1>6. CASE SettleScript(a) /\ att[a].answer = "429"
  <2>1. Ledger!SettleCooldown(k, a, att[a].until)
    BY <1>6 DEF SettleScript
  <2>2. PICK sent \in 0..now : att[a].until = sent + Cooldown
    BY <1>1, <1>2, <1>6
  <2>3. Ledger!SettleCooldown(k, a, sent + Cooldown)
    BY <2>1, <2>2
  <2>4. now' = now
    BY <2>1 DEF Ledger!SettleCooldown
  <2>5. QED
    BY <1>3, <2>3, <2>4 DEF Ledger!Request
<1>7. CASE SettleScript(a) /\ att[a].answer = "401"
  <2>1. Ledger!SettleRefund(k, a)
    BY <1>7 DEF SettleScript
  <2>2. QED
    BY <1>3, <2>1 DEF Ledger!Request, Ledger!SettleRefund
<1>8. CASE SettleScript(a) /\ att[a].answer = "ok"
  <2>1. Ledger!SettleActualUsage(k, a, att[a].cost)
    BY <1>8 DEF SettleScript
  <2>2. now' = now
    BY <2>1 DEF Ledger!SettleActualUsage
  <2>3. QED
    BY <1>3, <2>1, <2>2 DEF Ledger!Request
<1>9. QED
  BY <1>1, <1>2, <1>4, <1>5, <1>6, <1>7, <1>8 DEF Settle

LEMMA SettlePreserves ==
    ASSUME RoutingInv, NEW a \in Attempts, Settle(a)
    PROVE  RoutingInv'
<1>1. UNCHANGED <<fetch, remaining>> /\ att' = [att EXCEPT ![a] = Finished(a)]
  BY DEF Settle, providerVars
<1>2. QED
  BY <1>1, SettleIsLedgerStep, FinishedIsSound, AttemptGoesOn DEF RoutingInv

-----------------------------------------------------------------------------
(* The steps of a refresh, and of everything else. *)
LEMMA RefreshPreserves ==
    ASSUME RoutingInv, NEW i \in Instances, NEW k \in Pools,
           \/ StartRefresh(i, k)
           \/ ReadProvider(i, k)
           \/ ReadFails(i, k)
           \/ RunReconcile(i, k)
           \/ FinishRefresh(i, k)
    PROVE  RoutingInv'
<1> DEFINE f == <<i, k>>
<1>1. f \in Refreshes /\ fetch[f] \in FetchRecord
  BY DEF Refreshes, RoutingInv
<1>2. now' = now /\ att' = att /\ remaining' = remaining
  BY DEF StartRefresh, ReadProvider, ReadFails, RunReconcile, FinishRefresh, ledgerVars,
         providerVars, Ledger!Capture, Ledger!Abandon, Ledger!Reconcile
<1>3. fetch' \in [Refreshes -> FetchRecord]
  <2>1. NoFetch \in FetchRecord
    BY RoutingBounds DEF NoFetch, FetchRecord
  <2>2. CASE StartRefresh(i, k)
    <3>1. [NoFetch EXCEPT !.at = "reading"] \in FetchRecord
      BY <2>1 DEF FetchRecord
    <3>2. QED
      BY <2>2, <3>1 DEF StartRefresh, RoutingInv
  <2>3. CASE ReadProvider(i, k)
    <3>1. remaining[k] \in 0..MaxReading
      BY DEF RoutingInv
    <3>2. [fetch[f] EXCEPT !.at = "read", !.reading = remaining[k],
                           !.seen = {a \in Attempts : UnderWay(a, k)}] \in FetchRecord
      BY <1>1, <3>1 DEF FetchRecord
    <3>3. QED
      BY <2>3, <3>2 DEF ReadProvider, RoutingInv
  <2>4. CASE ReadFails(i, k) \/ FinishRefresh(i, k)
    BY <2>1, <2>4 DEF ReadFails, FinishRefresh, RoutingInv
  <2>5. CASE RunReconcile(i, k)
    <3>1. [fetch[f] EXCEPT !.at = "reconciled", !.seen = {}, !.since = {}] \in FetchRecord
      BY <1>1 DEF FetchRecord
    <3>2. QED
      BY <2>5, <3>1 DEF RunReconcile, RoutingInv
  <2>6. QED
    BY <2>2, <2>3, <2>4, <2>5
<1>4. QED
  BY <1>2, <1>3 DEF RoutingInv

LEMMA EnvironmentPreserves ==
    ASSUME RoutingInv,
           \/ LedgerEnvironment
           \/ \E i \in Instances : BreakerExpires(i)
           \/ \E k \in Pools : TopUp(k)
    PROVE  RoutingInv'
<1>1. now' \in {now, now + 1} /\ UNCHANGED <<att, fetch>>
  BY DEF LedgerEnvironment, Ledger!Environment, Ledger!Expire, Ledger!LoseData, Ledger!Tick,
         BreakerExpires, TopUp, ledgerVars, localVars
<1>2. now' \in Nat /\ 0..now \subseteq 0..now'
  BY <1>1 DEF RoutingInv
<1>3. ASSUME NEW a \in Attempts
      PROVE  CarriesOn(att'[a], now')
  BY <1>1, <1>2 DEF RoutingInv, CarriesOn
<1>4. remaining' \in [Pools -> 0..MaxReading]
  <2>1. CASE \E k \in Pools : TopUp(k)
    BY <2>1, RoutingBounds DEF TopUp, RoutingInv
  <2>2. CASE remaining' = remaining
    BY <2>2 DEF RoutingInv
  <2>3. QED
    BY <2>1, <2>2 DEF LedgerEnvironment, BreakerExpires, providerVars
<1>5. QED
  BY <1>1, <1>2, <1>3, <1>4 DEF RoutingInv

LEMMA StepRouting ==
    ASSUME RoutingInv, [Next]_vars
    PROVE  RoutingInv'
<1>1. CASE Next
  <2>1. ASSUME NEW a \in Attempts, NEW i \in Instances, NEW keys \in SUBSET Pools, Ask(a, i, keys)
        PROVE  RoutingInv'
    BY <2>1, AskPreserves
  <2>2. ASSUME NEW a \in Attempts, NEW k \in Pools,
               ScriptReserves(a, k) \/ QueuedScriptReserves(a, k)
        PROVE  RoutingInv'
    BY <2>2, ScriptReservesPreserves, QueuedScriptReservesPreserves
  <2>3. ASSUME NEW a \in Attempts,
               ScriptDeclines(a) \/ Continue(a) \/ Record(a) \/ Settle(a)
        PROVE  RoutingInv'
    BY <2>3, ScriptDeclinesPreserves, ContinuePreserves, RecordPreserves, SettlePreserves
  <2>4. ASSUME NEW a \in Attempts, NEW answer \in {"ok", "other", "402", "429", "401"},
               NEW cost \in 0..MaxActual, Provide(a, answer, cost)
        PROVE  RoutingInv'
    BY <2>4, ProvidePreserves
  <2>5. QED
    BY <1>1, <2>1, <2>2, <2>3, <2>4, RefreshPreserves, EnvironmentPreserves DEF Next
<1>2. CASE UNCHANGED vars
  <2>1. UNCHANGED <<now, att, fetch, remaining>>
    BY <1>2 DEF vars, ledgerVars, providerVars
  <2>2. QED
    BY <2>1 DEF RoutingInv
<1>3. QED
  BY <1>1, <1>2

LEMMA RoutingInvariant == Spec => []RoutingInv
<1>1. Init => RoutingInv
  BY InitRouting
<1>2. RoutingInv /\ [Next]_vars => RoutingInv'
  BY StepRouting
<1>3. QED
  BY <1>1, <1>2, PTL DEF Spec

-----------------------------------------------------------------------------
(* An attempt runs one of the ledger's request scripts, or none. *)
LEMMA AttemptIsLedgerStep ==
    ASSUME RoutingInv, NEW a \in Attempts,
           \/ \E i \in Instances, keys \in SUBSET Pools : Ask(a, i, keys)
           \/ \E k \in Pools : ScriptReserves(a, k) \/ QueuedScriptReserves(a, k)
           \/ ScriptDeclines(a)
           \/ Continue(a)
           \/ \E answer \in {"ok", "other", "402", "429", "401"}, cost \in 0..MaxActual :
                 Provide(a, answer, cost)
           \/ Record(a)
           \/ Settle(a)
    PROVE  Ledger!Next \/ UNCHANGED ledgerVars
<1>1. att[a].keys \in SUBSET Pools /\ att[a].queued \in SUBSET Pools
  BY DEF RoutingInv, AttemptRecord
<1>2. ASSUME NEW k \in Pools, ScriptReserves(a, k)
      PROVE  Ledger!Next
  BY <1>1, <1>2 DEF ScriptReserves, Ledger!Next, Ledger!Request
<1>3. ASSUME NEW k \in Pools, QueuedScriptReserves(a, k)
      PROVE  Ledger!Next
  BY <1>1, <1>3 DEF QueuedScriptReserves, Ledger!Next, Ledger!Request
<1>4. CASE Settle(a)
  BY <1>4, SettleIsLedgerStep DEF Ledger!Next
<1>5. ASSUME NEW answer, NEW cost, Provide(a, answer, cost)
      PROVE  UNCHANGED ledgerVars
  BY <1>5 DEF Provide
<1>6. ASSUME NEW i, NEW keys, Ask(a, i, keys)
      PROVE  UNCHANGED ledgerVars
  BY <1>6 DEF Ask
<1>7. CASE ScriptDeclines(a) \/ Continue(a) \/ Record(a)
  BY <1>7 DEF ScriptDeclines, Continue, Record
<1>8. QED
  BY <1>2, <1>3, <1>4, <1>5, <1>6, <1>7

(* A refresh captures, abandons or reconciles, or leaves the ledger alone. *)
LEMMA RefreshIsLedgerStep ==
    ASSUME RoutingInv, NEW i \in Instances, NEW k \in Pools,
           \/ StartRefresh(i, k)
           \/ ReadProvider(i, k)
           \/ ReadFails(i, k)
           \/ RunReconcile(i, k)
           \/ FinishRefresh(i, k)
    PROVE  Ledger!Next \/ UNCHANGED ledgerVars
<1> DEFINE f == <<i, k>>
<1>1. f \in Refreshes
  BY DEF Refreshes
<1>2. fetch[f].reading \in 0..MaxReading
  BY <1>1 DEF RoutingInv, FetchRecord
<1>3. CASE StartRefresh(i, k)
  <2>1. Ledger!Capture(f, k) \/ UNCHANGED ledgerVars
    BY <1>3 DEF StartRefresh
  <2>2. QED
    BY <1>1, <2>1 DEF Ledger!Next, Ledger!Refresh
<1>4. CASE ReadFails(i, k)
  <2>1. Ledger!Abandon(f) \/ UNCHANGED ledgerVars
    BY <1>4 DEF ReadFails
  <2>2. QED
    BY <1>1, <2>1 DEF Ledger!Next, Ledger!Refresh
<1>5. CASE RunReconcile(i, k)
  <2>1. Ledger!Reconcile(f, fetch[f].reading) \/ Ledger!Abandon(f) \/ UNCHANGED ledgerVars
    BY <1>5 DEF RunReconcile
  <2>2. QED
    BY <1>1, <1>2, <2>1 DEF Ledger!Next, Ledger!Refresh
<1>6. CASE ReadProvider(i, k) \/ FinishRefresh(i, k)
  BY <1>6 DEF ReadProvider, FinishRefresh
<1>7. QED
  BY <1>3, <1>4, <1>5, <1>6

LEMMA LedgerStep ==
    ASSUME RoutingInv, [Next]_vars
    PROVE  [Ledger!Next]_(Ledger!vars)
<1>1. CASE Next
  <2>1. CASE LedgerEnvironment
    BY <2>1 DEF LedgerEnvironment, Ledger!Next
  <2>2. CASE \/ \E i \in Instances : BreakerExpires(i)
             \/ \E k \in Pools : TopUp(k)
    BY <2>2 DEF BreakerExpires, TopUp, ledgerVars, Ledger!vars, Ledger!poolVars
  <2>3. CASE UNCHANGED ledgerVars
    BY <2>3 DEF ledgerVars, Ledger!vars, Ledger!poolVars
  <2>4. QED
    BY <1>1, <2>1, <2>2, <2>3, AttemptIsLedgerStep, RefreshIsLedgerStep DEF Next
<1>2. CASE UNCHANGED vars
  BY <1>2 DEF vars, ledgerVars, Ledger!vars, Ledger!poolVars
<1>3. QED
  BY <1>1, <1>2

(* The gateways, with their retries, lost commands and overlapping         *)
(* refreshes, take only steps that the ledger's specification allows: what *)
(* holds of the ledger with an unrestricted client holds of this system.   *)
THEOREM RoutingImplementsLedger == Spec => ImplementsLedger
<1>1. Init => Ledger!Init
  BY DEF Init
<1>2. RoutingInv /\ [Next]_vars => [Ledger!Next]_(Ledger!vars)
  BY LedgerStep
<1>3. QED
  BY <1>1, <1>2, RoutingInvariant, PTL DEF Spec, Ledger!Spec, ImplementsLedger

-----------------------------------------------------------------------------
(***************************************************************************)
(* Sums over finite sets. FoldFunctionOnSet is a CHOOSE of a recursive     *)
(* function; it is shown to exist, step by step, and to add up as a sum    *)
(* should.                                                                 *)
(***************************************************************************)

(* A set of subsets of a finite set has a smallest member: what takes the  *)
(* place of an induction over the set. (These lemmas stand before the      *)
(* rate limiter's proofs too.)                                             *)
LEMMA SmallestSubset ==
    ASSUME NEW S, IsFiniteSet(S), NEW T, T \subseteq SUBSET S, T # {}
    PROVE  \E x \in T : \A y \in T : y \subseteq x => y = x
<1>1. FiniteSubsetsOf(S) = SUBSET S
  BY FS_FiniteSubsetsOfFinite
<1>2. IsWellFoundedOn(StrictSubsetOrdering(S), SUBSET S)
  BY <1>1, FS_StrictSubsetOrderingWellFounded
<1>3. PICK x \in T : \A y \in T : ~(<<y, x>> \in StrictSubsetOrdering(S))
  BY <1>2, WFMin
<1>4. QED
  BY <1>3 DEF StrictSubsetOrdering

(* The recursive function in FoldFunctionOnSet, by a name. *)
One(s) == CHOOSE x \in s : TRUE
Sums(f, S, g) ==
    g = [s \in SUBSET S |-> IF s = {} THEN 0 ELSE f[One(s)] + g[s \ {One(s)}]]

LEMMA SumUnfold ==
    ASSUME NEW f, NEW S
    PROVE  SumFunctionOnSet(f, S) = (CHOOSE g : Sums(f, S, g))[S]
  BY DEF SumFunctionOnSet, FoldFunctionOnSet, MapThenFoldSet, Sums, One

LEMMA OneIsIn == ASSUME NEW s, s # {} PROVE One(s) \in s
  BY DEF One

(* There is one such function, and it exists. *)
LEMMA SumsAgree ==
    ASSUME NEW f, NEW S, IsFiniteSet(S), NEW g, Sums(f, S, g),
           NEW T \in SUBSET S, NEW h, Sums(f, T, h)
    PROVE  g[T] = h[T]
<1> DEFINE Bad == {s \in SUBSET T : g[s] # h[s]}
<1>1. IsFiniteSet(T)
  BY FS_Subset
<1>2. SUFFICES ASSUME Bad # {} PROVE FALSE
  OBVIOUS
<1>3. PICK s \in Bad : \A y \in Bad : y \subseteq s => y = s
  <2> HIDE DEF Bad
  <2>1. Bad \subseteq SUBSET T
    BY DEF Bad
  <2>2. QED
    BY <1>1, <1>2, <2>1, SmallestSubset
<1>4. CASE s = {}
  BY <1>3, <1>4 DEF Sums
<1>5. CASE s # {}
  <2> DEFINE r == s \ {One(s)}
  <2>1. r \subseteq s /\ r # s /\ r \in SUBSET T /\ s \in SUBSET T
    BY <1>3, <1>5, OneIsIn
  <2>2. g[r] = h[r]
    BY <1>3, <2>1
  <2>3. g[s] = f[One(s)] + g[r] /\ h[s] = f[One(s)] + h[r]
    BY <1>5, <2>1 DEF Sums
  <2>4. QED
    BY <1>3, <2>2, <2>3
<1>6. QED
  BY <1>4, <1>5

LEMMA SumsExist ==
    ASSUME NEW f, NEW S, IsFiniteSet(S)
    PROVE  Sums(f, S, CHOOSE g : Sums(f, S, g))
<1> DEFINE Bad == {s \in SUBSET S : ~ \E g : Sums(f, s, g)}
           Total(s) == (CHOOSE g : Sums(f, s, g))[s]
<1>1. SUFFICES Bad = {}
  OBVIOUS
<1>2. SUFFICES ASSUME Bad # {} PROVE FALSE
  OBVIOUS
<1>3. PICK T \in Bad : \A y \in Bad : y \subseteq T => y = T
  <2> HIDE DEF Bad
  <2>1. Bad \subseteq SUBSET S
    BY DEF Bad
  <2>2. QED
    BY <1>2, <2>1, SmallestSubset
<1>4. IsFiniteSet(T) /\ T \in SUBSET S
  BY <1>3, FS_Subset
<1>5. ASSUME NEW s \in SUBSET T, s # T
      PROVE  Sums(f, s, CHOOSE g : Sums(f, s, g))
  BY <1>3, <1>5
<1>6. ASSUME NEW s \in SUBSET T, s # T, NEW r \in SUBSET s
      PROVE  (CHOOSE g : Sums(f, s, g))[r] = Total(r)
  <2>1. Sums(f, s, CHOOSE g : Sums(f, s, g)) /\ IsFiniteSet(s)
    BY <1>4, <1>5, <1>6, FS_Subset
  <2>2. r # T /\ r \in SUBSET T
    BY <1>6
  <2>3. Sums(f, r, CHOOSE g : Sums(f, r, g))
    BY <1>5, <2>2
  <2>4. QED
    BY <2>1, <2>3, SumsAgree
<1>7. ASSUME NEW s \in SUBSET T, s # T, s # {}
      PROVE  Total(s) = f[One(s)] + Total(s \ {One(s)})
  <2> DEFINE g == CHOOSE g : Sums(f, s, g)
  <2>1. Sums(f, s, g)
    BY <1>5, <1>7
  <2> HIDE DEF g
  <2>2. g[s] = f[One(s)] + g[s \ {One(s)}]
    BY <1>7, <2>1 DEF Sums
  <2>3. g[s \ {One(s)}] = Total(s \ {One(s)}) /\ g[s] = Total(s)
    BY <1>6, <1>7 DEF g
  <2>4. QED
    BY <2>2, <2>3
<1>8. ASSUME T # {} PROVE FALSE
  <2> DEFINE top == f[One(T)] + Total(T \ {One(T)})
             h == [s \in SUBSET T |-> IF s = T THEN top ELSE Total(s)]
  <2> HIDE DEF Total
  <2>1. T \ {One(T)} # T /\ T \ {One(T)} \in SUBSET T
    BY <1>8, OneIsIn
  <2>2. Total({}) = 0
    <3>1. {} \in SUBSET T /\ {} # T
      BY <1>8
    <3>2. Sums(f, {}, CHOOSE g : Sums(f, {}, g))
      BY <1>5, <3>1
    <3>3. QED
      BY <3>2 DEF Sums, Total
  <2>3. ASSUME NEW s \in SUBSET T
        PROVE  h[s] = IF s = {} THEN 0 ELSE f[One(s)] + h[s \ {One(s)}]
    <3>1. CASE s = {}
      BY <1>8, <2>2, <3>1
    <3>2. CASE s # {}
      <4>1. s \ {One(s)} # T /\ s \ {One(s)} \in SUBSET T
        BY <3>2, OneIsIn
      <4>2. h[s \ {One(s)}] = Total(s \ {One(s)})
        BY <4>1
      <4>3. h[s] = f[One(s)] + Total(s \ {One(s)})
        BY <1>7, <3>2
      <4>4. QED
        BY <3>2, <4>2, <4>3
    <3>3. QED
      BY <3>1, <3>2
  <2>4. Sums(f, T, h)
    <3> DEFINE rhs == [s \in SUBSET T |-> IF s = {} THEN 0 ELSE f[One(s)] + h[s \ {One(s)}]]
    <3>1. h = [s \in SUBSET T |-> h[s]]
      OBVIOUS
    <3> HIDE DEF h
    <3>2. rhs = [s \in SUBSET T |-> h[s]]
      BY <2>3
    <3>3. QED
      BY <3>1, <3>2 DEF Sums
  <2>5. QED
    BY <1>3, <2>4
<1>9. ASSUME T = {} PROVE FALSE
  <2>1. Sums(f, T, [s \in SUBSET T |-> 0])
    BY <1>9 DEF Sums
  <2>2. QED
    BY <1>3, <2>1
<1>10. QED
  BY <1>8, <1>9

LEMMA SumEmpty ==
    ASSUME NEW f
    PROVE  SumFunctionOnSet(f, {}) = 0
  BY SumsExist, SumUnfold, FS_EmptySet DEF Sums

LEMMA SumOne ==
    ASSUME NEW f, NEW S, IsFiniteSet(S), S # {}
    PROVE  SumFunctionOnSet(f, S) = f[One(S)] + SumFunctionOnSet(f, S \ {One(S)})
<1> DEFINE g == CHOOSE g : Sums(f, S, g)
           T == S \ {One(S)}
           h == CHOOSE h : Sums(f, T, h)
<1>1. IsFiniteSet(T) /\ T \in SUBSET S
  BY FS_Subset
<1>2. Sums(f, S, g) /\ Sums(f, T, h)
  BY <1>1, SumsExist
<1>3. SumFunctionOnSet(f, S) = g[S] /\ SumFunctionOnSet(f, T) = h[T]
  BY SumUnfold
<1> HIDE DEF g, h
<1>4. g[S] = f[One(S)] + g[T]
  BY <1>2 DEF Sums
<1>5. g[T] = h[T]
  BY <1>1, <1>2, SumsAgree
<1>6. QED
  BY <1>3, <1>4, <1>5

(* The order in which the elements are taken does not matter. *)
LEMMA SumRemove ==
    ASSUME NEW S, IsFiniteSet(S), NEW f, \A x \in S : f[x] \in Int
    PROVE  /\ SumFunctionOnSet(f, S) \in Int
           /\ \A x \in S : SumFunctionOnSet(f, S) = f[x] + SumFunctionOnSet(f, S \ {x})
<1> DEFINE Good(s) == /\ SumFunctionOnSet(f, s) \in Int
                      /\ \A x \in s : SumFunctionOnSet(f, s) = f[x] + SumFunctionOnSet(f, s \ {x})
           Bad == {s \in SUBSET S : ~Good(s)}
<1>1. SUFFICES ASSUME Bad # {} PROVE FALSE
  OBVIOUS
<1>2. PICK s \in Bad : \A y \in Bad : y \subseteq s => y = s
  <2> HIDE DEF Bad
  <2>1. Bad \subseteq SUBSET S
    BY DEF Bad
  <2>2. QED
    BY <1>1, <2>1, SmallestSubset
<1>3. s \in SUBSET S /\ IsFiniteSet(s) /\ ~Good(s)
  BY <1>2, FS_Subset
<1>4. \A r \in SUBSET s : r # s => Good(r)
  BY <1>2, <1>3
<1>5. s # {}
  BY <1>3, SumEmpty
<1> DEFINE o == One(s)
<1>6. o \in s /\ SumFunctionOnSet(f, s) = f[o] + SumFunctionOnSet(f, s \ {o})
  BY <1>3, <1>5, SumOne, OneIsIn
<1> HIDE DEF o, Good, Bad
<1>7. \A x \in s : Good(s \ {x})
  BY <1>4
<1>8. \A x \in s : f[x] \in Int /\ SumFunctionOnSet(f, s \ {x}) \in Int
  BY <1>3, <1>7 DEF Good
<1>9. SumFunctionOnSet(f, s) \in Int
  BY <1>6, <1>8
<1>10. ASSUME NEW x \in s, x # o
       PROVE  SumFunctionOnSet(f, s) = f[x] + SumFunctionOnSet(f, s \ {x})
  <2>1. x \in s \ {o} /\ o \in s \ {x} /\ (s \ {o}) \ {x} = (s \ {x}) \ {o}
    BY <1>6, <1>10
  <2>2. SumFunctionOnSet(f, s \ {o}) = f[x] + SumFunctionOnSet(f, (s \ {o}) \ {x})
    BY <1>6, <1>7, <2>1 DEF Good
  <2>3. SumFunctionOnSet(f, s \ {x}) = f[o] + SumFunctionOnSet(f, (s \ {o}) \ {x})
    BY <1>6, <1>7, <2>1 DEF Good
  <2>4. SumFunctionOnSet(f, (s \ {o}) \ {x}) \in Int
    <3>1. (s \ {o}) \ {x} \in SUBSET s /\ (s \ {o}) \ {x} # s
      BY <1>6
    <3>2. QED
      BY <1>4, <3>1 DEF Good
  <2>5. QED
    BY <1>6, <1>8, <2>2, <2>3, <2>4
<1>11. QED
  BY <1>3, <1>6, <1>9, <1>10 DEF Good

(* A sum depends on the values alone. *)
LEMMA SumSame ==
    ASSUME NEW S, IsFiniteSet(S), NEW f, NEW g, \A x \in S : f[x] = g[x]
    PROVE  SumFunctionOnSet(f, S) = SumFunctionOnSet(g, S)
<1> DEFINE Bad == {s \in SUBSET S : SumFunctionOnSet(f, s) # SumFunctionOnSet(g, s)}
<1>1. SUFFICES ASSUME Bad # {} PROVE FALSE
  OBVIOUS
<1>2. PICK s \in Bad : \A y \in Bad : y \subseteq s => y = s
  <2> HIDE DEF Bad
  <2>1. Bad \subseteq SUBSET S
    BY DEF Bad
  <2>2. QED
    BY <1>1, <2>1, SmallestSubset
<1>3. s \in SUBSET S /\ IsFiniteSet(s)
  BY <1>2, FS_Subset
<1>4. s # {}
  BY <1>2, SumEmpty
<1>5. One(s) \in s /\ s \ {One(s)} # s /\ s \ {One(s)} \in SUBSET S
  BY <1>3, <1>4, OneIsIn
<1>6. SumFunctionOnSet(f, s \ {One(s)}) = SumFunctionOnSet(g, s \ {One(s)})
  BY <1>2, <1>5
<1>7. f[One(s)] = g[One(s)]
  BY <1>3, <1>5
<1>8. SumFunctionOnSet(f, s) = SumFunctionOnSet(g, s)
  BY <1>3, <1>4, <1>6, <1>7, SumOne
<1>9. QED
  BY <1>2, <1>8

(* A sum of numbers is one. *)
LEMMA SumNat ==
    ASSUME NEW S, IsFiniteSet(S), NEW f, \A x \in S : f[x] \in Nat
    PROVE  SumFunctionOnSet(f, S) \in Nat
<1> DEFINE Bad == {s \in SUBSET S : SumFunctionOnSet(f, s) \notin Nat}
<1>1. SUFFICES ASSUME Bad # {} PROVE FALSE
  OBVIOUS
<1>2. PICK s \in Bad : \A y \in Bad : y \subseteq s => y = s
  <2> HIDE DEF Bad
  <2>1. Bad \subseteq SUBSET S
    BY DEF Bad
  <2>2. QED
    BY <1>1, <2>1, SmallestSubset
<1>3. s \in SUBSET S /\ IsFiniteSet(s)
  BY <1>2, FS_Subset
<1>4. s # {}
  <2>1. SumFunctionOnSet(f, {}) \in Nat
    BY SumEmpty
  <2>2. QED
    BY <1>2, <2>1
<1>5. One(s) \in s /\ s \ {One(s)} # s /\ s \ {One(s)} \in SUBSET S
  BY <1>3, <1>4, OneIsIn
<1>6. SumFunctionOnSet(f, s \ {One(s)}) \in Nat /\ f[One(s)] \in Nat
  BY <1>2, <1>3, <1>5
<1>7. SumFunctionOnSet(f, s) = f[One(s)] + SumFunctionOnSet(f, s \ {One(s)})
  BY <1>3, <1>4, SumOne
<1>8. QED
  BY <1>2, <1>6, <1>7



(* One element more. *)
LEMMA SumAdd ==
    ASSUME NEW S, IsFiniteSet(S), NEW x, x \notin S, NEW f, f[x] \in Int,
           \A y \in S : f[y] \in Int
    PROVE  SumFunctionOnSet(f, S \cup {x}) = f[x] + SumFunctionOnSet(f, S)
<1>1. IsFiniteSet(S \cup {x})
  BY FS_AddElement
<1>2. (S \cup {x}) \ {x} = S
  OBVIOUS
<1>3. SumFunctionOnSet(f, S \cup {x}) = f[x] + SumFunctionOnSet(f, (S \cup {x}) \ {x})
  BY <1>1, SumRemove
<1>4. QED
  BY <1>2, <1>3

(* A part weighs no more than the whole. *)
LEMMA SumMonotone ==
    ASSUME NEW S, IsFiniteSet(S), NEW f, \A x \in S : f[x] \in Nat, NEW T \in SUBSET S
    PROVE  SumFunctionOnSet(f, T) <= SumFunctionOnSet(f, S)
<1> DEFINE Bad == {s \in SUBSET S : T \subseteq s /\
                       ~(SumFunctionOnSet(f, T) <= SumFunctionOnSet(f, s))}
<1>1. SUFFICES ASSUME Bad # {} PROVE FALSE
  OBVIOUS
<1>2. PICK s \in Bad : \A y \in Bad : y \subseteq s => y = s
  <2> HIDE DEF Bad
  <2>1. Bad \subseteq SUBSET S
    BY DEF Bad
  <2>2. QED
    BY <1>1, <2>1, SmallestSubset
<1>3. s \in SUBSET S /\ IsFiniteSet(s) /\ IsFiniteSet(T) /\ T \subseteq s
      /\ ~(SumFunctionOnSet(f, T) <= SumFunctionOnSet(f, s))
  BY <1>2, FS_Subset
<1>4. SumFunctionOnSet(f, T) \in Nat /\ SumFunctionOnSet(f, s) \in Nat
  BY <1>3, SumNat
<1>5. PICK x \in s : x \notin T
  BY <1>3, <1>4
<1>6. s \ {x} # s /\ s \ {x} \in SUBSET S /\ T \subseteq s \ {x} /\ IsFiniteSet(s \ {x})
  BY <1>3, <1>5, FS_Subset
<1>7. SumFunctionOnSet(f, T) <= SumFunctionOnSet(f, s \ {x})
  BY <1>2, <1>6
<1>8. SumFunctionOnSet(f, s \ {x}) \in Nat /\ f[x] \in Nat
  BY <1>3, <1>6, SumNat
<1>9. SumFunctionOnSet(f, s) = f[x] + SumFunctionOnSet(f, s \ {x})
  BY <1>3, SumRemove
<1>10. QED
  BY <1>3, <1>4, <1>7, <1>8, <1>9

-----------------------------------------------------------------------------
(***************************************************************************)
(* What is proved of the ledger with an unrestricted client is proved of   *)
(* the ledger in this system: its theorems, for the attempts.              *)
(***************************************************************************)
Proved == INSTANCE CreditLedgerProofs WITH Reservations <- Attempts

(* The instance names the ledger's operators anew; they are the same. *)
LEMMA AttemptsFinite == Proved!IsFiniteSet(Attempts)
  BY RoutingAttempts DEF Proved!IsFiniteSet, IsFiniteSet

LEMMA SameSize ==
    ASSUME NEW S
    PROVE  /\ Ledger!Cardinality(S) = Cardinality(S)
           /\ Proved!Cardinality(S) = Ledger!Cardinality(S)
  BY DEF Ledger!Cardinality, Proved!Cardinality, Cardinality

LEMMA SameInit ==
    ASSUME Ledger!Init
    PROVE  Proved!Init
  BY DEF Ledger!Init, Proved!Init, Ledger!Idle, Proved!Idle

LEMMA SameReserve ==
    ASSUME NEW C, NEW p, NEW r, Ledger!Reserve(C, p, r)
    PROVE  Proved!Reserve(C, p, r)
  BY DEF Ledger!Reserve, Proved!Reserve, Ledger!Selectable, Proved!Selectable,
         Ledger!Eligible, Proved!Eligible

LEMMA SameSettle ==
    ASSUME NEW p, NEW r, NEW x
    PROVE  /\ Ledger!SettleRefund(p, r) => Proved!SettleRefund(p, r)
           /\ Ledger!SettleCooldown(p, r, x) => Proved!SettleCooldown(p, r, x)
           /\ Ledger!SettleDisabled(p, r) => Proved!SettleDisabled(p, r)
           /\ Ledger!SettleActualUsage(p, r, x) => Proved!SettleActualUsage(p, r, x)
<1> USE DEF Ledger!Close, Proved!Close, Ledger!Open, Proved!Open
<1>1. Ledger!SettleRefund(p, r) => Proved!SettleRefund(p, r)
  BY DEF Ledger!SettleRefund, Proved!SettleRefund, Ledger!Refunded, Proved!Refunded
<1>2. Ledger!SettleCooldown(p, r, x) => Proved!SettleCooldown(p, r, x)
  BY DEF Ledger!SettleCooldown, Proved!SettleCooldown, Ledger!Refunded, Proved!Refunded
<1>3. Ledger!SettleDisabled(p, r) => Proved!SettleDisabled(p, r)
  BY DEF Ledger!SettleDisabled, Proved!SettleDisabled
<1>4. Ledger!SettleActualUsage(p, r, x) => Proved!SettleActualUsage(p, r, x)
  BY DEF Ledger!SettleActualUsage, Proved!SettleActualUsage, Ledger!LesserOf, Proved!LesserOf,
         Ledger!AtLeastZero, Proved!AtLeastZero
<1>5. QED
  BY <1>1, <1>2, <1>3, <1>4

LEMMA SameRefresh ==
    ASSUME NEW f, NEW x
    PROVE  /\ Ledger!Capture(f, x) => Proved!Capture(f, x)
           /\ Ledger!Abandon(f) => Proved!Abandon(f)
           /\ Ledger!Reconcile(f, x) => Proved!Reconcile(f, x)
<1> USE DEF Ledger!Open, Proved!Open, Ledger!Running, Proved!Running, Ledger!Idle, Proved!Idle,
            Ledger!poolVars, Proved!poolVars
<1>1. Ledger!Capture(f, x) => Proved!Capture(f, x)
  BY DEF Ledger!Capture, Proved!Capture
<1>2. Ledger!Abandon(f) => Proved!Abandon(f)
  BY DEF Ledger!Abandon, Proved!Abandon
<1>3. Ledger!Reconcile(f, x) => Proved!Reconcile(f, x)
  BY SameSize DEF Ledger!Reconcile, Proved!Reconcile, Ledger!Pending, Proved!Pending,
                  Ledger!AtLeastZero, Proved!AtLeastZero
<1>4. QED
  BY <1>1, <1>2, <1>3

LEMMA SameEnvironment ==
    ASSUME NEW r
    PROVE  /\ Ledger!LeaveReserved(r) => Proved!LeaveReserved(r)
           /\ Ledger!Expire(r) => Proved!Expire(r)
           /\ Ledger!LoseData => Proved!LoseData
           /\ Ledger!Tick => Proved!Tick
  BY DEF Ledger!LeaveReserved, Proved!LeaveReserved, Ledger!Expire, Proved!Expire,
         Ledger!LoseData, Proved!LoseData, Ledger!Tick, Proved!Tick, Ledger!Open, Proved!Open,
         Ledger!poolVars, Proved!poolVars

LEMMA SameStep ==
    ASSUME [Ledger!Next]_(Ledger!vars)
    PROVE  [Proved!Next]_(Proved!vars)
<1>1. Ledger!Next => Proved!Next
  BY SameReserve, SameSettle, SameRefresh, SameEnvironment
  DEF Ledger!Next, Proved!Next, Ledger!Request, Proved!Request, Ledger!Refresh, Proved!Refresh,
      Ledger!Environment, Proved!Environment
<1>2. QED
  BY <1>1 DEF Ledger!vars, Proved!vars, Ledger!poolVars, Proved!poolVars

(* What the ledger's proofs know of its state, and the parts of it used    *)
(* here.                                                                   *)
LedgerHolds == Proved!LedgerInv /\ Proved!FenceInv

LEMMA LedgerFacts ==
    ASSUME LedgerHolds
    PROVE  /\ Ledger!TypeOK
           /\ Ledger!IndexSound
           /\ Ledger!ReservedMatchesIndex
           /\ Ledger!FenceSound
<1>1. Proved!TypeOK /\ Proved!IndexSound /\ Proved!ReservedMatchesIndex
  BY DEF LedgerHolds, Proved!LedgerInv
<1>2. Ledger!TypeOK
  BY <1>1 DEF Proved!TypeOK, Ledger!TypeOK, Proved!RefreshRecord, Ledger!RefreshRecord,
              Proved!Idle, Ledger!Idle
<1>3. Ledger!IndexSound
  BY <1>1 DEF Proved!IndexSound, Ledger!IndexSound, Proved!Open, Ledger!Open
<1>4. Ledger!ReservedMatchesIndex
  BY <1>1, SameSize DEF Proved!ReservedMatchesIndex, Ledger!ReservedMatchesIndex
<1>5. Ledger!FenceSound
  BY DEF LedgerHolds, Proved!FenceInv, Proved!FenceHolds, Ledger!FenceSound, Proved!Open,
         Ledger!Open, Proved!Running, Ledger!Running, Proved!Idle, Ledger!Idle
<1>6. QED
  BY <1>2, <1>3, <1>4, <1>5

(* Every step of the system is one of the ledger, so the ledger's own      *)
(* invariants hold of it.                                                  *)
LEMMA InitLedgerHolds ==
    ASSUME Init
    PROVE  LedgerHolds
<1>1. Proved!Init
  BY SameInit DEF Init
<1>2. Proved!LedgerInv
  BY <1>1, Proved!InitLedgerInv, AttemptsFinite, RoutingBounds, RoutingAmount, RoutingHolders
<1>3. Proved!FenceInv
  BY <1>1 DEF Proved!Init, Proved!FenceInv, Proved!Running
<1>4. QED
  BY <1>2, <1>3 DEF LedgerHolds

LEMMA StepLedgerHolds ==
    ASSUME RoutingInv, LedgerHolds, [Next]_vars
    PROVE  LedgerHolds'
<1>1. [Proved!Next]_(Proved!vars)
  BY LedgerStep, SameStep
<1>2. Proved!LedgerInv'
  BY <1>1, Proved!StepLedgerInv, AttemptsFinite, RoutingBounds, RoutingAmount, RoutingHolders
     DEF LedgerHolds
<1>3. Proved!FenceInv'
  BY <1>1, Proved!StepFenceInv, AttemptsFinite, RoutingBounds, RoutingAmount, RoutingHolders
     DEF LedgerHolds
<1>4. QED
  BY <1>2, <1>3 DEF LedgerHolds

(***************************************************************************)
(* The local state of the instances keeps its types.                       *)
(***************************************************************************)
LocalTypes ==
    /\ localDisabled \in [Instances -> SUBSET Pools]
    /\ localCooldownUntil \in [Instances -> [Pools -> Nat]]
    /\ redisUnavailable \in [Instances -> BOOLEAN]
    /\ tainted \in [Pools -> BOOLEAN]

LEMMA StepLocalTypes ==
    ASSUME RoutingInv, LocalTypes, [Next]_vars
    PROVE  LocalTypes'
<1> USE DEF LocalTypes
<1>1. CASE /\ UNCHANGED <<localDisabled, localCooldownUntil>>
           /\ tainted' = tainted
           /\ \/ redisUnavailable' = redisUnavailable
              \/ \E i, v \in BOOLEAN : redisUnavailable' = [redisUnavailable EXCEPT ![i] = v]
  BY <1>1
<1>2. ASSUME NEW a \in Attempts, Record(a)
      PROVE  LocalTypes'
  <2>1. att[a] \in AttemptRecord /\ CarriesOn(att[a], now) /\ att[a].at = "answered"
    BY <1>2 DEF RoutingInv, Record
  <2>2. att[a].key \in Pools /\ now + Cooldown \in Nat
    BY <2>1, RoutingBounds DEF CarriesOn, RoutingInv
  <2>3. UNCHANGED <<redisUnavailable, tainted>>
    BY <1>2 DEF Record, providerVars
  <2>4. localDisabled' \in [Instances -> SUBSET Pools]
    BY <1>2, <2>2 DEF Record
  <2> DEFINE end == CASE att[a].answer = "402" -> 0
                      [] att[a].answer = "429" -> now + Cooldown
                      [] OTHER -> localCooldownUntil[att[a].on][att[a].key]
  <2>5. localCooldownUntil' =
          [localCooldownUntil EXCEPT ![att[a].on] = [@ EXCEPT ![att[a].key] = end]]
    BY <1>2 DEF Record
  <2>6. att[a].on \in Instances => end \in Nat
    BY <2>2
  <2> HIDE DEF end
  <2>7. localCooldownUntil' \in [Instances -> [Pools -> Nat]]
    BY <2>2, <2>5, <2>6
  <2>8. QED
    BY <2>3, <2>4, <2>7
<1>3. ASSUME NEW a \in Attempts, NEW cost \in 0..MaxActual, NEW answer, Provide(a, answer, cost)
      PROVE  LocalTypes'
  BY <1>3 DEF Provide, Charge, localVars
<1>4. ASSUME NEW i \in Instances, NEW k \in Pools, RunReconcile(i, k)
      PROVE  LocalTypes'
  <2>1. UNCHANGED <<localDisabled, localCooldownUntil, redisUnavailable>>
    BY <1>4 DEF RunReconcile, localVars
  <2> DEFINE blind == Blind(<<i, k>>, Ledger!Pending(k, refresh[<<i, k>>].sequence))
  <2>2. blind \in BOOLEAN
    BY DEF Blind
  <2> HIDE DEF blind
  <2>3. tainted' = tainted \/ tainted' = [tainted EXCEPT ![k] = blind]
    BY <1>4 DEF RunReconcile, blind
  <2>4. QED
    BY <2>1, <2>2, <2>3
<1>5. ASSUME NEW i \in Instances, NEW k \in Pools, FinishRefresh(i, k)
      PROVE  LocalTypes'
  BY <1>5 DEF FinishRefresh, providerVars
<1>6. ASSUME NEW a \in Attempts, Continue(a)
      PROVE  LocalTypes'
  BY <1>6 DEF Continue, providerVars
<1>7. CASE \/ \E a \in Attempts :
                \/ \E i \in Instances, keys \in SUBSET Pools : Ask(a, i, keys)
                \/ \E k \in Pools : ScriptReserves(a, k) \/ QueuedScriptReserves(a, k)
                \/ ScriptDeclines(a)
                \/ Settle(a)
           \/ \E i \in Instances, k \in Pools :
                StartRefresh(i, k) \/ ReadProvider(i, k) \/ ReadFails(i, k)
           \/ \E i \in Instances : BreakerExpires(i)
           \/ \E k \in Pools : TopUp(k)
           \/ LedgerEnvironment
           \/ UNCHANGED vars
  BY <1>7 DEF Ask, ScriptReserves, QueuedScriptReserves, ScriptDeclines, Settle, StartRefresh,
              ReadProvider, ReadFails, BreakerExpires, TopUp, LedgerEnvironment, vars,
              localVars, providerVars
<1>8. QED
  BY <1>2, <1>3, <1>4, <1>5, <1>6, <1>7 DEF Next

-----------------------------------------------------------------------------
(***************************************************************************)
(* How the attempts use the ledger.                                        *)
(***************************************************************************)

(* An attempt the provider has answered. *)
AfterCall == {"answered", "settling", "done"}

(* How an attempt r uses the reservation key it was given, whose holder    *)
(* is h: it asks under a fresh key and at most once; what Redis gave it,   *)
(* it holds until it settles; a key that was not answered for in time      *)
(* belongs to nobody's attempt; and only an answer that was served has a   *)
(* cost.                                                                   *)
Uses(r, h) ==
    /\ r.at \in {"idle", "asking"} => h = Fresh /\ r.source = "none" /\ r.queued = {}
    /\ r.at = "told" /\ r.answer = "reserved" => r.source = "redis"
    /\ r.at \in {"sent", "answered"} => r.source \in {"local", "redis"}
    /\ r.at = "settling" => r.source = "redis"
    /\ r.source = "redis" => h # Fresh /\ r.queued = {}
    /\ r.source = "redis" /\ r.at # "done" => h = r.key /\ h \in Pools
    /\ r.source = "redis" /\ r.at = "done" => r.key = NoKey
    /\ r.at \in {"idle", "asking", "told", "sent"} => r.cost = 0
    /\ r.at \in {"answered", "settling"} /\ r.answer \in {"402", "429", "401"} => r.cost = 0

(* And how the instances use the ledger: a caller that is done left no     *)
(* hash behind, and a captured sequence lives as long as its reading.      *)
UsesInv ==
    /\ \A a \in Attempts : Uses(att[a], holder[a])
    /\ \A a \in Attempts : holder[a] = Answered => ticket[a] = 0
    /\ \A f \in Refreshes : Ledger!Running(f) =>
          fetch[f].at \in {"reading", "read"} /\ refresh[f].pool = f[2]

(* What an attempt has used of a reserved estimate. *)
CostOf(r) == IF r.source = "redis" THEN r.cost ELSE 0

(* An attempt moves on and changes nothing the ledger is accounted for. *)
Moves(r0, r1) ==
    /\ r0.at \in AfterCall => r1.at \in AfterCall /\ r1.source = r0.source
    /\ r1.source = "redis" => r0.source = "redis"
    /\ r1.source = "redis" /\ r1.at \in {"told", "sent"} =>
          r0.at \in {"told", "sent"} /\ r1.key = r0.key
    /\ r1.cost = r0.cost
    /\ CostOf(r1) = CostOf(r0)

(* An attempt ends. *)
LEMMA FinishedMoves ==
    ASSUME RoutingInv, NEW a \in Attempts, NEW h, h # Fresh \/ h = holder[a],
           Uses(att[a], holder[a])
    PROVE  /\ Finished(a) \in AttemptRecord
           /\ Uses(Finished(a), h)
           /\ Moves(att[a], Finished(a))
<1> DEFINE r == Finished(a)
<1>1. att[a] \in AttemptRecord /\ r \in AttemptRecord
  BY FinishedIsSound DEF RoutingInv
<1>2. /\ r.at = "done" /\ r.source = att[a].source /\ r.cost = att[a].cost
      /\ r.queued = att[a].queued /\ r.key = NoKey
  BY DEF Finished, NewAttempt
<1> HIDE DEF r
<1>3. Uses(r, h)
  BY <1>2 DEF Uses
<1>4. Moves(att[a], r)
  BY <1>2 DEF Moves, CostOf, AfterCall
<1>5. QED
  BY <1>1, <1>3, <1>4 DEF r

(* An attempt goes to a key by local rotation. *)
LEMMA PickMoves ==
    ASSUME RoutingInv, NEW a \in Attempts, NEW i \in Instances \cup {NoKey},
           NEW keys \in SUBSET Pools, PickLocally(a, i, keys), att[a].at \in {"idle", "told"},
           Uses(att[a], holder[a])
    PROVE  \E r \in AttemptRecord :
              att' = [att EXCEPT ![a] = r] /\ Uses(r, holder[a]) /\ Moves(att[a], r)
<1>1. att[a] \in AttemptRecord
  BY DEF RoutingInv
<1>2. ASSUME NEW k \in keys,
             att' = [att EXCEPT ![a] = [@ EXCEPT !.at = "sent", !.on = i, !.key = k,
                                              !.source = "local", !.answer = "none",
                                              !.keys = {}]]
      PROVE  \E r \in AttemptRecord :
                att' = [att EXCEPT ![a] = r] /\ Uses(r, holder[a]) /\ Moves(att[a], r)
  <2> DEFINE r == [att[a] EXCEPT !.at = "sent", !.on = i, !.key = k, !.source = "local",
                                 !.answer = "none", !.keys = {}]
  <2>1. r \in AttemptRecord
    BY <1>1 DEF AttemptRecord
  <2>2. r.at = "sent" /\ r.source = "local" /\ r.cost = att[a].cost
    BY <1>1 DEF AttemptRecord
  <2>3. att' = [att EXCEPT ![a] = r]
    BY <1>2
  <2> HIDE DEF r
  <2>4. att[a].cost = 0
    BY DEF Uses
  <2>5. Uses(r, holder[a]) /\ Moves(att[a], r)
    BY <2>2, <2>4 DEF Uses, Moves, CostOf, AfterCall
  <2>6. QED
    BY <2>1, <2>3, <2>5
<1>3. CASE att' = [att EXCEPT ![a] = Finished(a)]
  BY <1>3, FinishedMoves
<1>4. QED
  BY <1>2, <1>3 DEF PickLocally

(* The steps of an attempt that run no script and call no provider. *)
LEMMA QuietMoves ==
    ASSUME RoutingInv, UsesInv, NEW a \in Attempts,
           \/ \E i \in Instances, keys \in SUBSET Pools : Ask(a, i, keys)
           \/ ScriptDeclines(a)
           \/ Continue(a)
           \/ Record(a)
    PROVE  \E r \in AttemptRecord :
              att' = [att EXCEPT ![a] = r] /\ Uses(r, holder[a]) /\ Moves(att[a], r)
<1>1. att[a] \in AttemptRecord /\ CarriesOn(att[a], now) /\ Uses(att[a], holder[a])
  BY DEF RoutingInv, UsesInv
<1> DEFINE Goal == \E r \in AttemptRecord :
              att' = [att EXCEPT ![a] = r] /\ Uses(r, holder[a]) /\ Moves(att[a], r)
<1>2. ASSUME NEW i \in Instances, NEW keys \in SUBSET Pools, Ask(a, i, keys)
      PROVE  Goal
  <2>1. att[a].at = "idle"
    BY <1>2 DEF Ask
  <2>2. CASE PickLocally(a, i, keys)
    BY <1>1, <2>1, <2>2, PickMoves
  <2>3. CASE att' = [att EXCEPT ![a] = [@ EXCEPT !.at = "asking", !.on = i, !.keys = keys]]
    <3> DEFINE r == [att[a] EXCEPT !.at = "asking", !.on = i, !.keys = keys]
    <3>1. r \in AttemptRecord
      BY <1>1 DEF AttemptRecord
    <3>2. /\ r.at = "asking" /\ r.source = att[a].source /\ r.queued = att[a].queued
          /\ r.cost = att[a].cost /\ r.answer = att[a].answer /\ r.key = att[a].key
      BY <1>1 DEF AttemptRecord
    <3>3. att' = [att EXCEPT ![a] = r]
      BY <2>3
    <3> HIDE DEF r
    <3>4. Uses(r, holder[a]) /\ Moves(att[a], r)
      BY <1>1, <2>1, <3>2 DEF Uses, Moves, CostOf, AfterCall
    <3>5. QED
      BY <3>1, <3>3, <3>4
  <2>4. QED
    BY <1>2, <2>2, <2>3 DEF Ask
<1>3. CASE ScriptDeclines(a)
  <2>1. PICK answer \in {"no-capacity", "unavailable"}, queued \in {{}, att[a].keys} :
          att' = [att EXCEPT ![a] = [@ EXCEPT !.at = "told", !.answer = answer,
                                              !.queued = queued]]
    BY <1>3 DEF ScriptDeclines
  <2>2. att[a].at = "asking"
    BY <1>3 DEF ScriptDeclines
  <2> DEFINE r == [att[a] EXCEPT !.at = "told", !.answer = answer, !.queued = queued]
  <2>3. r \in AttemptRecord
    BY <1>1 DEF AttemptRecord
  <2>4. /\ r.at = "told" /\ r.source = att[a].source /\ r.answer # "reserved"
        /\ r.cost = att[a].cost /\ r.key = att[a].key
    BY <1>1 DEF AttemptRecord
  <2>5. att' = [att EXCEPT ![a] = r]
    BY <2>1
  <2> HIDE DEF r
  <2>6. Uses(r, holder[a]) /\ Moves(att[a], r)
    BY <1>1, <2>2, <2>4 DEF Uses, Moves, CostOf, AfterCall
  <2>7. QED
    BY <2>3, <2>5, <2>6
<1>4. CASE Continue(a)
  <2>1. att[a].at = "told" /\ att[a].on \in Instances \cup {NoKey} /\ att[a].keys \in SUBSET Pools
    BY <1>1, <1>4 DEF Continue, AttemptRecord
  <2>2. CASE /\ att[a].answer = "reserved"
             /\ att' = [att EXCEPT ![a] = [@ EXCEPT !.at = "sent", !.answer = "none",
                                                    !.keys = {}]]
    <3> DEFINE r == [att[a] EXCEPT !.at = "sent", !.answer = "none", !.keys = {}]
    <3>1. r \in AttemptRecord
      BY <1>1 DEF AttemptRecord
    <3>2. /\ r.at = "sent" /\ r.source = att[a].source /\ r.queued = att[a].queued
          /\ r.cost = att[a].cost /\ r.key = att[a].key
      BY <1>1 DEF AttemptRecord
    <3>3. att' = [att EXCEPT ![a] = r]
      BY <2>2
    <3> HIDE DEF r
    <3>4. Uses(r, holder[a]) /\ Moves(att[a], r)
      BY <1>1, <2>1, <2>2, <3>2 DEF Uses, Moves, CostOf, AfterCall
    <3>5. QED
      BY <3>1, <3>3, <3>4
  <2>3. CASE att' = [att EXCEPT ![a] = Finished(a)]
    BY <1>1, <2>3, FinishedMoves
  <2>4. CASE PickLocally(a, att[a].on, att[a].keys)
    BY <1>1, <2>1, <2>4, PickMoves
  <2>5. QED
    BY <1>4, <2>2, <2>3, <2>4 DEF Continue
<1>5. CASE Record(a)
  <2>1. att[a].at = "answered"
    BY <1>5 DEF Record
  <2>2. CASE att' = [att EXCEPT ![a] = Finished(a)]
    BY <1>1, <2>2, FinishedMoves
  <2> DEFINE end == IF att[a].answer = "429" THEN now + Cooldown ELSE 0
             r == [att[a] EXCEPT !.at = "settling", !.until = end]
  <2>3. CASE /\ att[a].source = "redis"
             /\ att' = [att EXCEPT ![a] = r]
    <3>1. end \in Int
      BY RoutingBounds DEF RoutingInv
    <3> HIDE DEF end
    <3>2. r \in AttemptRecord
      BY <1>1, <3>1 DEF AttemptRecord
    <3>3. /\ r.at = "settling" /\ r.source = att[a].source /\ r.queued = att[a].queued
          /\ r.cost = att[a].cost /\ r.key = att[a].key /\ r.answer = att[a].answer
      BY <1>1 DEF AttemptRecord
    <3>4. att' = [att EXCEPT ![a] = r]
      BY <2>3
    <3> HIDE DEF r
    <3>5. Uses(r, holder[a]) /\ Moves(att[a], r)
      BY <1>1, <2>1, <2>3, <3>3 DEF Uses, Moves, CostOf, AfterCall
    <3>6. QED
      BY <3>2, <3>4, <3>5
  <2>4. QED
    BY <1>5, <2>2, <2>3 DEF Record
<1>6. QED
  BY <1>2, <1>3, <1>4, <1>5

(* An attempt whose script has run, in time or too late for its caller. *)
Reserves(r0, r1, k) ==
    /\ r0.at \in AfterCall => r1.at = r0.at /\ r1.source = r0.source
    /\ r1.source = "redis" => r1.key = k /\ r1.at = "told"
    /\ r1.cost = r0.cost
    /\ CostOf(r0) = 0 /\ CostOf(r1) = 0

(* A reservation reaches the ledger, and its attempt unless it was given   *)
(* up.                                                                     *)
LEMMA ReserveEffect ==
    ASSUME RoutingInv, UsesInv, NEW a \in Attempts, NEW k \in Pools,
           ScriptReserves(a, k) \/ QueuedScriptReserves(a, k)
    PROVE  /\ holder[a] = Fresh /\ credits[k] >= Amount
           /\ credits' = [credits EXCEPT ![k] = @ - Amount]
           /\ reserved' = [reserved EXCEPT ![k] = @ + Amount]
           /\ ticket' = [ticket EXCEPT ![a] = reserveSequence[k] + 1]
           /\ members' = [members EXCEPT ![k] = @ \cup {a}]
           /\ holder' = [holder EXCEPT ![a] = k]
           /\ UNCHANGED <<refresh, losses, fetch, remaining, tainted>>
           /\ \E r \in AttemptRecord :
                 att' = [att EXCEPT ![a] = r] /\ Uses(r, k) /\ Reserves(att[a], r, k)
<1>1. att[a] \in AttemptRecord /\ Uses(att[a], holder[a])
  BY DEF RoutingInv, UsesInv
<1>2. PICK C : Ledger!Reserve(C, k, a) /\ (C = att[a].keys \/ C = att[a].queued)
  BY DEF ScriptReserves, QueuedScriptReserves
<1>3. k \in C /\ credits[k] >= Amount
  BY <1>2 DEF Ledger!Reserve, Ledger!Selectable, Ledger!Eligible
<1>4. /\ holder[a] = Fresh
      /\ credits' = [credits EXCEPT ![k] = @ - Amount]
      /\ reserved' = [reserved EXCEPT ![k] = @ + Amount]
      /\ ticket' = [ticket EXCEPT ![a] = reserveSequence[k] + 1]
      /\ members' = [members EXCEPT ![k] = @ \cup {a}]
      /\ holder' = [holder EXCEPT ![a] = k]
      /\ UNCHANGED <<refresh, losses>>
  BY <1>2 DEF Ledger!Reserve
<1>5. UNCHANGED <<fetch, remaining, tainted>>
  BY DEF ScriptReserves, QueuedScriptReserves, providerVars
<1>6. att[a].source # "redis" /\ k # Fresh
  BY <1>1, <1>4, RoutingHolders DEF Uses
<1> DEFINE Goal == \E r \in AttemptRecord :
                 att' = [att EXCEPT ![a] = r] /\ Uses(r, k) /\ Reserves(att[a], r, k)
<1>7. ASSUME att[a].at = "asking",
             att' = [att EXCEPT ![a] = [@ EXCEPT !.at = "told", !.key = k, !.source = "redis",
                                              !.answer = "reserved"]]
      PROVE  Goal
  <2> DEFINE r == [att[a] EXCEPT !.at = "told", !.key = k, !.source = "redis",
                                 !.answer = "reserved"]
  <2>1. r \in AttemptRecord
    BY <1>1 DEF AttemptRecord
  <2>2. /\ r.at = "told" /\ r.source = "redis" /\ r.key = k /\ r.cost = att[a].cost
        /\ r.queued = att[a].queued
    BY <1>1 DEF AttemptRecord
  <2>3. att' = [att EXCEPT ![a] = r]
    BY <1>7
  <2> HIDE DEF r
  <2>4. Uses(r, k) /\ Reserves(att[a], r, k)
    BY <1>1, <1>6, <1>7, <2>2 DEF Uses, Reserves, CostOf, AfterCall
  <2>5. QED
    BY <2>1, <2>3, <2>4
<1>8. ASSUME att[a].at = "asking",
             att' = [att EXCEPT ![a] = [@ EXCEPT !.at = "told", !.answer = "unavailable"]]
      PROVE  Goal
  <2> DEFINE r == [att[a] EXCEPT !.at = "told", !.answer = "unavailable"]
  <2>1. r \in AttemptRecord
    BY <1>1 DEF AttemptRecord
  <2>2. /\ r.at = "told" /\ r.source = att[a].source /\ r.answer = "unavailable"
        /\ r.cost = att[a].cost
    BY <1>1 DEF AttemptRecord
  <2>3. att' = [att EXCEPT ![a] = r]
    BY <1>8
  <2> HIDE DEF r
  <2>4. Uses(r, k) /\ Reserves(att[a], r, k)
    BY <1>1, <1>6, <1>8, <2>2 DEF Uses, Reserves, CostOf, AfterCall
  <2>5. QED
    BY <2>1, <2>3, <2>4
<1>9. ASSUME QueuedScriptReserves(a, k)
      PROVE  Goal
  <2> DEFINE r == [att[a] EXCEPT !.queued = {}]
  <2>1. r \in AttemptRecord
    BY <1>1 DEF AttemptRecord
  <2>2. /\ r.at = att[a].at /\ r.source = att[a].source /\ r.answer = att[a].answer
        /\ r.cost = att[a].cost
    BY <1>1 DEF AttemptRecord
  <2>3. att' = [att EXCEPT ![a] = r]
    BY <1>9 DEF QueuedScriptReserves
  <2>4. k \in att[a].queued
    BY <1>9 DEF QueuedScriptReserves, Ledger!Reserve, Ledger!Selectable, Ledger!Eligible
  <2> HIDE DEF r
  <2>5. att[a].at \notin {"idle", "asking"}
    BY <1>1, <2>4 DEF Uses
  <2>6. Uses(r, k) /\ Reserves(att[a], r, k)
    BY <1>1, <1>6, <2>2, <2>5 DEF Uses, Reserves, CostOf, AfterCall
  <2>7. QED
    BY <2>1, <2>3, <2>6
<1>10. Goal
  BY <1>7, <1>8, <1>9 DEF ScriptReserves
<1>11. QED
  BY <1>3, <1>4, <1>5, <1>10

(* A settlement the ledger carries out closes a reservation its attempt    *)
(* holds, and gives back no more than the estimate less what was used.     *)
LEMMA SettleEffect ==
    ASSUME RoutingInv, UsesInv, LedgerHolds, NEW a \in Attempts, Settle(a)
    PROVE  /\ att' = [att EXCEPT ![a] = Finished(a)]
           /\ att[a].at = "settling" /\ att[a].key \in Pools
           /\ UNCHANGED <<fetch, remaining, tainted>>
           /\ \/ UNCHANGED ledgerVars
              \/ /\ holder[a] = att[a].key
                 /\ Ledger!Close(att[a].key, a)
                 /\ UNCHANGED <<refresh, losses>>
                 /\ \E c : /\ credits' = [credits EXCEPT ![att[a].key] = c]
                           /\ ~Ledger!Open(a) => c <= credits[att[a].key]
                           /\ Ledger!Open(a) /\ att[a].cost <= Amount =>
                                 c <= credits[att[a].key] + Amount - att[a].cost
<1> DEFINE k == att[a].key
<1>1. att[a] \in AttemptRecord /\ CarriesOn(att[a], now) /\ Uses(att[a], holder[a])
  BY DEF RoutingInv, UsesInv
<1>2. att[a].at = "settling" /\ att' = [att EXCEPT ![a] = Finished(a)]
      /\ UNCHANGED <<fetch, remaining, tainted>> /\ (SettleScript(a) \/ UNCHANGED ledgerVars)
  BY DEF Settle, providerVars
<1>3. k \in Pools /\ att[a].answer \in {"ok", "402", "429", "401"} /\ att[a].cost \in Nat
  BY <1>1, <1>2, RoutingBounds DEF CarriesOn, AttemptRecord
<1>4. credits \in [Pools -> Nat] /\ Amount \in Nat \ {0}
  BY LedgerFacts, RoutingAmount DEF Ledger!TypeOK
<1> DEFINE Effect ==
                 /\ holder[a] = k
                 /\ Ledger!Close(k, a)
                 /\ UNCHANGED <<refresh, losses>>
                 /\ \E c : /\ credits' = [credits EXCEPT ![k] = c]
                           /\ ~Ledger!Open(a) => c <= credits[k]
                           /\ Ledger!Open(a) /\ att[a].cost <= Amount =>
                                 c <= credits[k] + Amount - att[a].cost
<1>5. CASE SettleScript(a) /\ att[a].answer = "402"
  <2>1. Ledger!SettleDisabled(k, a)
    BY <1>5 DEF SettleScript
  <2>2. credits' = [credits EXCEPT ![k] = 0] /\ 0 <= credits[k]
        /\ (att[a].cost <= Amount => 0 <= credits[k] + Amount - att[a].cost)
    BY <1>3, <1>4, <2>1 DEF Ledger!SettleDisabled
  <2>3. Effect
    BY <2>1, <2>2 DEF Ledger!SettleDisabled
  <2>4. QED
    BY <1>2, <1>3, <2>3
<1>6. ASSUME att[a].cost = 0, Ledger!Close(k, a), credits' = Ledger!Refunded(k, a),
             holder[a] = k, UNCHANGED <<refresh, losses>>
      PROVE  Effect
  <2>1. CASE Ledger!Open(a)
    <3>1. credits' = [credits EXCEPT ![k] = credits[k] + Amount]
      BY <1>6, <2>1 DEF Ledger!Refunded
    <3>2. credits[k] + Amount <= credits[k] + Amount - att[a].cost
      BY <1>3, <1>4, <1>6
    <3>3. QED
      BY <1>6, <2>1, <3>1, <3>2
  <2>2. CASE ~Ledger!Open(a)
    <3>1. credits' = [credits EXCEPT ![k] = credits[k]] /\ credits[k] <= credits[k]
      BY <1>3, <1>4, <1>6, <2>2 DEF Ledger!Refunded
    <3>2. QED
      BY <1>6, <2>2, <3>1
  <2>3. QED
    BY <2>1, <2>2
<1>7. CASE SettleScript(a) /\ att[a].answer = "429"
  <2>1. Ledger!SettleCooldown(k, a, att[a].until) /\ att[a].cost = 0
    BY <1>1, <1>2, <1>7 DEF SettleScript, Uses
  <2>2. Effect
    BY <1>6, <2>1 DEF Ledger!SettleCooldown
  <2>3. QED
    BY <1>2, <1>3, <2>2
<1>8. CASE SettleScript(a) /\ att[a].answer = "401"
  <2>1. Ledger!SettleRefund(k, a) /\ att[a].cost = 0
    BY <1>1, <1>2, <1>8 DEF SettleScript, Uses
  <2>2. Effect
    BY <1>6, <2>1 DEF Ledger!SettleRefund
  <2>3. QED
    BY <1>2, <1>3, <2>2
<1>9. CASE SettleScript(a) /\ att[a].answer = "ok"
  <2>1. Ledger!SettleActualUsage(k, a, att[a].cost)
    BY <1>9 DEF SettleScript
  <2>2. holder[a] = k /\ Ledger!Close(k, a) /\ UNCHANGED <<refresh, losses>>
    BY <2>1 DEF Ledger!SettleActualUsage
  <2> DEFINE delta == att[a].cost - Amount
  <2>3. CASE ~Ledger!Open(a)
    <3>1. credits' = [credits EXCEPT ![k] = credits[k]] /\ credits[k] <= credits[k]
      BY <1>3, <1>4, <2>1, <2>3 DEF Ledger!SettleActualUsage
    <3>2. QED
      BY <1>2, <1>3, <2>2, <2>3, <3>1
  <2>4. CASE Ledger!Open(a) /\ delta > 0
    <3>1. \E c : credits' = [credits EXCEPT ![k] = c]
      BY <2>1, <2>4 DEF Ledger!SettleActualUsage
    <3>2. ~(att[a].cost <= Amount)
      BY <1>3, <1>4, <2>4
    <3>3. QED
      BY <1>2, <1>3, <2>2, <2>4, <3>1, <3>2
  <2>5. CASE Ledger!Open(a) /\ ~(delta > 0)
    <3>1. credits' = [credits EXCEPT ![k] = credits[k] - delta]
      BY <2>1, <2>5 DEF Ledger!SettleActualUsage
    <3>2. credits[k] - delta <= credits[k] + Amount - att[a].cost
      BY <1>3, <1>4
    <3>3. QED
      BY <1>2, <1>3, <2>2, <2>5, <3>1, <3>2
  <2>6. QED
    BY <2>3, <2>4, <2>5
<1>10. QED
  BY <1>2, <1>3, <1>5, <1>7, <1>8, <1>9

(* The provider answers an attempt that was sent. *)
LEMMA ProvideMoves ==
    ASSUME RoutingInv, UsesInv, NEW a \in Attempts, NEW cost \in 0..MaxActual,
           NEW answer \in {"ok", "other", "402", "429", "401"}, Provide(a, answer, cost)
    PROVE  /\ att[a].at = "sent" /\ att[a].key \in Pools
           /\ CostOf(att[a]) = 0 /\ att[a].cost = 0
           /\ Charge(a, att[a].key, cost) /\ cost <= remaining[att[a].key]
           /\ UNCHANGED ledgerVars
           /\ \E r \in AttemptRecord :
                 /\ att' = [att EXCEPT ![a] = r]
                 /\ Uses(r, holder[a])
                 /\ r.at = "answered" /\ r.source = att[a].source /\ r.cost = cost
<1>1. att[a] \in AttemptRecord /\ CarriesOn(att[a], now) /\ Uses(att[a], holder[a])
  BY DEF RoutingInv, UsesInv
<1>2. att[a].at = "sent" /\ (answer \in {"402", "429", "401"} => cost = 0)
      /\ Charge(a, att[a].key, cost) /\ cost <= remaining[att[a].key] /\ UNCHANGED ledgerVars
  BY DEF Provide
<1>3. att[a].key \in Pools /\ att[a].cost = 0 /\ CostOf(att[a]) = 0
  BY <1>1, <1>2 DEF CarriesOn, Uses, CostOf
<1> DEFINE r == [att[a] EXCEPT !.at = "answered", !.answer = answer, !.cost = cost]
<1>4. r \in AttemptRecord
  BY <1>1 DEF AttemptRecord
<1>5. /\ r.at = "answered" /\ r.source = att[a].source /\ r.cost = cost /\ r.answer = answer
      /\ r.key = att[a].key /\ r.queued = att[a].queued
  BY <1>1 DEF AttemptRecord
<1>6. att' = [att EXCEPT ![a] = r]
  BY DEF Provide
<1> HIDE DEF r
<1>7. Uses(r, holder[a])
  BY <1>1, <1>2, <1>5 DEF Uses
<1>8. QED
  BY <1>2, <1>3, <1>4, <1>5, <1>6, <1>7

(* The ledger is used as it expects at the start, and after every step. *)
LEMMA InitUses ==
    ASSUME Init
    PROVE  UsesInv
<1>1. \A a \in Attempts : Uses(att[a], holder[a])
  BY DEF Init, Ledger!Init, NewAttempt, Uses
<1>2. \A a \in Attempts : holder[a] # Answered
  BY RoutingHolders DEF Init, Ledger!Init
<1>3. \A f \in Refreshes : ~Ledger!Running(f)
  BY DEF Init, Ledger!Init, Ledger!Running
<1>4. QED
  BY <1>1, <1>2, <1>3 DEF UsesInv

(* One attempt and its reservation go on; the others stay. *)
LEMMA UsesGoOn ==
    ASSUME RoutingInv, LedgerHolds, UsesInv, NEW a \in Attempts, NEW r, NEW h, Uses(r, h),
           att' = [att EXCEPT ![a] = r], holder' = [holder EXCEPT ![a] = h]
    PROVE  \A b \in Attempts : Uses(att[b], holder[b])'
<1>1. att \in [Attempts -> AttemptRecord] /\ holder \in [Attempts -> Pools \cup {Fresh, Answered}]
  BY LedgerFacts DEF RoutingInv, Ledger!TypeOK
<1>2. ASSUME NEW b \in Attempts
      PROVE  Uses(att'[b], holder'[b])
  <2>1. CASE b = a
    BY <1>1, <2>1
  <2>2. CASE b # a
    BY <1>1, <2>2 DEF UsesInv
  <2>3. QED
    BY <2>1, <2>2
<1>3. ASSUME NEW b \in Attempts
      PROVE  Uses(att[b], holder[b])' <=> Uses(att'[b], holder'[b])
  BY DEF Uses
<1>4. QED
  BY <1>2, <1>3

LEMMA UsesStay ==
    ASSUME UsesInv, UNCHANGED <<att, holder>>
    PROVE  \A b \in Attempts : Uses(att[b], holder[b])'
  BY DEF UsesInv, Uses

LEMMA RefreshesStay ==
    ASSUME UsesInv, refresh' = refresh, \A f \in Refreshes : fetch'[f].at = fetch[f].at
    PROVE  \A f \in Refreshes : Ledger!Running(f)' =>
              fetch'[f].at \in {"reading", "read"} /\ refresh'[f].pool = f[2]
  BY DEF UsesInv, Ledger!Running

LEMMA AttemptUses ==
    ASSUME RoutingInv, LedgerHolds, UsesInv, NEW a \in Attempts,
           \/ \E i \in Instances, keys \in SUBSET Pools : Ask(a, i, keys)
           \/ ScriptDeclines(a)
           \/ Continue(a)
           \/ Record(a)
           \/ \E k \in Pools : ScriptReserves(a, k) \/ QueuedScriptReserves(a, k)
           \/ \E answer \in {"ok", "other", "402", "429", "401"}, cost \in 0..MaxActual :
                 Provide(a, answer, cost)
           \/ Settle(a)
    PROVE  UsesInv'
<1>1. /\ att \in [Attempts -> AttemptRecord]
      /\ holder \in [Attempts -> Pools \cup {Fresh, Answered}]
      /\ ticket \in [Attempts -> Nat]
  BY LedgerFacts DEF RoutingInv, Ledger!TypeOK
<1>2. CASE \/ \E i \in Instances, keys \in SUBSET Pools : Ask(a, i, keys)
           \/ ScriptDeclines(a)
           \/ Continue(a)
           \/ Record(a)
  <2>1. UNCHANGED <<ticket, holder, refresh, fetch>>
    BY <1>2 DEF Ask, ScriptDeclines, Continue, Record, ledgerVars
  <2>2. holder' = [holder EXCEPT ![a] = holder[a]]
    BY <1>1, <2>1
  <2>3. \A b \in Attempts : Uses(att[b], holder[b])'
    BY <1>2, <2>2, QuietMoves, UsesGoOn
  <2>4. QED
    BY <2>1, <2>3, RefreshesStay DEF UsesInv
<1>3. ASSUME NEW k \in Pools, ScriptReserves(a, k) \/ QueuedScriptReserves(a, k)
      PROVE  UsesInv'
  <2>1. \A b \in Attempts : Uses(att[b], holder[b])'
    BY <1>3, ReserveEffect, UsesGoOn
  <2>2. \A b \in Attempts : holder'[b] = Answered => ticket'[b] = 0
    BY <1>1, <1>3, ReserveEffect, RoutingHolders DEF UsesInv
  <2>3. UNCHANGED <<refresh, fetch>>
    BY <1>3, ReserveEffect
  <2>4. QED
    BY <2>1, <2>2, <2>3, RefreshesStay DEF UsesInv
<1>4. ASSUME NEW answer \in {"ok", "other", "402", "429", "401"}, NEW cost \in 0..MaxActual,
             Provide(a, answer, cost)
      PROVE  UsesInv'
  <2>1. UNCHANGED <<ticket, holder, refresh>>
    BY <1>4, ProvideMoves DEF ledgerVars
  <2>2. holder' = [holder EXCEPT ![a] = holder[a]]
    BY <1>1, <2>1
  <2>3. \A b \in Attempts : Uses(att[b], holder[b])'
    <3>1. PICK r \in AttemptRecord : att' = [att EXCEPT ![a] = r] /\ Uses(r, holder[a])
      BY <1>4, ProvideMoves
    <3>2. QED
      BY <2>2, <3>1, UsesGoOn
  <2>4. ASSUME NEW f \in Refreshes
        PROVE  fetch'[f].at = fetch[f].at
    <3>1. fetch[f] \in FetchRecord
      BY DEF RoutingInv
    <3>2. fetch'[f] \in {fetch[f], [fetch[f] EXCEPT !.since = @ \cup {a}]}
      BY <1>4, ProvideMoves DEF Charge
    <3>3. QED
      BY <3>1, <3>2 DEF FetchRecord
  <2>5. QED
    BY <2>1, <2>3, <2>4, RefreshesStay DEF UsesInv
<1>5. CASE Settle(a)
  <2>1. /\ att' = [att EXCEPT ![a] = Finished(a)] /\ UNCHANGED <<refresh, fetch>>
        /\ Uses(att[a], holder[a])
    BY <1>5, SettleEffect DEF ledgerVars, UsesInv
  <2>2. CASE UNCHANGED ledgerVars
    <3>1. UNCHANGED <<ticket, holder>> /\ holder' = [holder EXCEPT ![a] = holder[a]]
      BY <1>1, <2>2 DEF ledgerVars
    <3>2. \A b \in Attempts : Uses(att[b], holder[b])'
      BY <2>1, <3>1, FinishedMoves, UsesGoOn
    <3>3. QED
      BY <2>1, <3>1, <3>2, RefreshesStay DEF UsesInv
  <2>3. CASE Ledger!Close(att[a].key, a)
    <3>1. /\ holder' = [holder EXCEPT ![a] = Answered]
          /\ ticket' = [ticket EXCEPT ![a] = 0]
      BY <2>3 DEF Ledger!Close
    <3>2. \A b \in Attempts : Uses(att[b], holder[b])'
      BY <2>1, <3>1, FinishedMoves, UsesGoOn, RoutingHolders
    <3>3. \A b \in Attempts : holder'[b] = Answered => ticket'[b] = 0
      BY <1>1, <3>1 DEF UsesInv
    <3>4. QED
      BY <2>1, <3>2, <3>3, RefreshesStay DEF UsesInv
  <2>4. QED
    BY <1>5, <2>2, <2>3, SettleEffect
<1>6. QED
  BY <1>2, <1>3, <1>4, <1>5

LEMMA RefreshUses ==
    ASSUME RoutingInv, LedgerHolds, UsesInv, NEW i \in Instances, NEW k \in Pools,
           \/ StartRefresh(i, k)
           \/ ReadProvider(i, k)
           \/ ReadFails(i, k)
           \/ RunReconcile(i, k)
           \/ FinishRefresh(i, k)
    PROVE  UsesInv'
<1> DEFINE f == <<i, k>>
<1>1. /\ f \in Refreshes /\ f[2] = k
      /\ ticket \in [Attempts -> Nat]
      /\ refresh \in [Refreshes -> Ledger!RefreshRecord \cup {Ledger!Idle}]
      /\ fetch \in [Refreshes -> FetchRecord] /\ fetch[f] \in FetchRecord
  BY LedgerFacts DEF Refreshes, RoutingInv, Ledger!TypeOK
<1>2. UNCHANGED <<att, holder>>
  BY DEF StartRefresh, ReadProvider, ReadFails, RunReconcile, FinishRefresh, ledgerVars,
         Ledger!Capture, Ledger!Abandon, Ledger!Reconcile
<1>3. ASSUME NEW a \in Attempts
      PROVE  ticket'[a] \in {0, ticket[a]}
  BY <1>1 DEF StartRefresh, ReadProvider, ReadFails, RunReconcile, FinishRefresh, ledgerVars,
         Ledger!Capture, Ledger!Abandon, Ledger!Reconcile
<1> DEFINE Placed == \A g \in Refreshes : Ledger!Running(g)' =>
                        fetch'[g].at \in {"reading", "read"} /\ refresh'[g].pool = g[2]
<1>4. ASSUME \A g \in Refreshes : g # f => refresh'[g] = refresh[g] /\ fetch'[g] = fetch[g],
             Ledger!Running(f)' => fetch'[f].at \in {"reading", "read"} /\ refresh'[f].pool = f[2]
      PROVE  Placed
  BY <1>4 DEF UsesInv, Ledger!Running
<1>5. ASSUME StartRefresh(i, k)
      PROVE  Placed
  <2>1. fetch' = [fetch EXCEPT ![f] = [NoFetch EXCEPT !.at = "reading"]] /\ fetch[f].at = "none"
        /\ (Ledger!Capture(f, k) \/ UNCHANGED ledgerVars)
    BY <1>5 DEF StartRefresh
  <2>2. fetch'[f].at = "reading"
    BY <1>1, <2>1 DEF NoFetch
  <2>3. ~Ledger!Running(f)
    BY <1>1, <2>1 DEF UsesInv
  <2>4. CASE Ledger!Capture(f, k)
    <3>1. refresh'[f].pool = k /\ \A g \in Refreshes : g # f => refresh'[g] = refresh[g]
      BY <1>1, <2>4 DEF Ledger!Capture
    <3>2. QED
      BY <1>1, <1>4, <2>1, <2>2, <3>1
  <2>5. CASE refresh' = refresh
    BY <1>1, <1>4, <2>1, <2>3, <2>5 DEF Ledger!Running
  <2>6. QED
    BY <2>1, <2>4, <2>5 DEF ledgerVars
<1>6. ASSUME ReadProvider(i, k)
      PROVE  Placed
  <2>1. fetch'[f].at = "read" /\ \A g \in Refreshes : g # f => fetch'[g] = fetch[g]
    BY <1>1, <1>6 DEF ReadProvider, FetchRecord
  <2>2. refresh' = refresh
    BY <1>6 DEF ReadProvider, ledgerVars
  <2>3. QED
    BY <1>1, <1>4, <2>1, <2>2 DEF UsesInv, Ledger!Running
<1>7. ASSUME ReadFails(i, k) \/ RunReconcile(i, k) \/ FinishRefresh(i, k)
      PROVE  Placed
  <2>1. \A g \in Refreshes : g # f => fetch'[g] = fetch[g]
    BY <1>1, <1>7 DEF ReadFails, RunReconcile, FinishRefresh
  <2>2. refresh' = [refresh EXCEPT ![f] = Ledger!Idle] \/ (refresh' = refresh /\ ~Ledger!Running(f))
    <3>1. CASE ReadFails(i, k) \/ RunReconcile(i, k)
      BY <3>1 DEF ReadFails, RunReconcile, ledgerVars, Ledger!Abandon, Ledger!Reconcile
    <3>2. CASE FinishRefresh(i, k)
      BY <1>1, <3>2 DEF FinishRefresh, ledgerVars, UsesInv
    <3>3. QED
      BY <1>7, <3>1, <3>2
  <2>3. ~Ledger!Running(f)' /\ \A g \in Refreshes : g # f => refresh'[g] = refresh[g]
    BY <1>1, <2>2 DEF Ledger!Running
  <2>4. QED
    BY <1>4, <2>1, <2>3
<1>8. Placed
  BY <1>5, <1>6, <1>7
<1>9. \A a \in Attempts : holder'[a] = Answered => ticket'[a] = 0
  BY <1>2, <1>3 DEF UsesInv
<1>10. QED
  BY <1>2, <1>8, <1>9, UsesStay DEF UsesInv

LEMMA EnvironmentUses ==
    ASSUME RoutingInv, LedgerHolds, UsesInv,
           \/ LedgerEnvironment
           \/ \E i \in Instances : BreakerExpires(i)
           \/ \E k \in Pools : TopUp(k)
           \/ UNCHANGED vars
    PROVE  UsesInv'
<1>1. UNCHANGED <<att, holder, refresh, fetch>>
  BY DEF LedgerEnvironment, BreakerExpires, TopUp, vars, ledgerVars, Ledger!Environment,
         Ledger!Expire, Ledger!LoseData, Ledger!Tick
<1>2. ticket \in [Attempts -> Nat]
  BY LedgerFacts DEF Ledger!TypeOK
<1>3. ASSUME NEW a \in Attempts
      PROVE  ticket'[a] \in {0, ticket[a]}
  BY <1>2 DEF LedgerEnvironment, BreakerExpires, TopUp, vars, ledgerVars, Ledger!Environment,
         Ledger!Expire, Ledger!LoseData, Ledger!Tick
<1>4. \A a \in Attempts : holder'[a] = Answered => ticket'[a] = 0
  BY <1>1, <1>3 DEF UsesInv
<1>5. QED
  BY <1>1, <1>4, UsesStay, RefreshesStay DEF UsesInv

LEMMA StepUses ==
    ASSUME RoutingInv, LedgerHolds, UsesInv, [Next]_vars
    PROVE  UsesInv'
  BY AttemptUses, RefreshUses, EnvironmentUses DEF Next

(* This is what the property asks for. *)
LEMMA UsesGiveLedgerUsedOnce ==
    ASSUME UsesInv
    PROVE  LedgerUsedOnce
<1>1. ASSUME NEW a \in Attempts
      PROVE  /\ att[a].at \in {"idle", "asking"} => holder[a] = Fresh
             /\ att[a].at = "settling" => holder[a] = att[a].key
             /\ holder[a] \in Pools /\ att[a].source = "redis" /\ att[a].key # NoKey =>
                   holder[a] = att[a].key
  BY DEF UsesInv, Uses
<1>2. QED
  BY <1>1 DEF UsesInv, LedgerUsedOnce

-----------------------------------------------------------------------------
(***************************************************************************)
(* What a refresh knows between its capture and its reconcile.             *)
(***************************************************************************)

(* What a running refresh f may rely on for a reservation it captured: it  *)
(* is of its own pool, and once the reading is made, an attempt the        *)
(* reading did not find under way has been answered, and charged before    *)
(* the reading if at all.                                                  *)
Knows(f, a) ==
    a \in refresh[f].known =>
       /\ holder[a] \in {f[2], Answered}
       /\ fetch[f].at = "read" /\ att[a].source = "redis" /\ a \notin fetch[f].seen =>
             att[a].at \in AfterCall /\ a \notin fetch[f].since

(* An attempt charged after the reading of f, while it is under way. *)
Since(f, a) ==
    /\ att[a].at \in AfterCall /\ att[a].source \in {"local", "redis"}
    /\ att[a].source = "redis" => holder[a] \in {f[2], Answered}

(* The reading, as long as it was not reconciled, is covered by the        *)
(* provider's counter of now and what was charged since.                   *)
ReadHolds(f) ==
    /\ Ledger!Running(f) => \A a \in Attempts : Knows(f, a)
    /\ fetch[f].at = "reading" => fetch[f].since = {}
    /\ fetch[f].at = "read" => \A a \in fetch[f].since : Since(f, a)
    /\ fetch[f].at = "read" /\ (\A a \in fetch[f].since : att[a].source = "redis") =>
          fetch[f].reading <= remaining[f[2]] + Consumed(fetch[f].since)

ReadInv == \A f \in Refreshes : ReadHolds(f)

(* The sums over the attempts are numbers. *)
LEMMA ConsumedType ==
    ASSUME RoutingInv, NEW S \in SUBSET Attempts
    PROVE  /\ IsFiniteSet(S)
           /\ \A a \in Attempts : Costs[a] = CostOf(att[a]) /\ Costs[a] \in Nat
           /\ Consumed(S) \in Nat
<1>1. IsFiniteSet(S)
  BY RoutingAttempts, FS_Subset
<1>2. ASSUME NEW a \in Attempts
      PROVE  Costs[a] = CostOf(att[a]) /\ Costs[a] \in Nat
  <2>1. att[a] \in AttemptRecord
    BY DEF RoutingInv
  <2>2. att[a].cost \in Nat
    BY <2>1, RoutingBounds DEF AttemptRecord
  <2>3. QED
    BY <2>2 DEF Costs, LedgerCost, CostOf
<1>3. \A a \in S : Costs[a] \in Nat
  BY <1>2
<1> HIDE DEF Costs
<1>4. SumFunctionOnSet(Costs, S) \in Nat
  BY <1>1, <1>3, SumNat
<1>5. QED
  BY <1>1, <1>2, <1>4 DEF Consumed

(* A step that changes no cost changes no sum. *)
LEMMA ConsumedSame ==
    ASSUME RoutingInv, NEW S \in SUBSET Attempts, \A a \in S : CostOf(att'[a]) = CostOf(att[a])
    PROVE  SumFunctionOnSet(Costs', S) = SumFunctionOnSet(Costs, S)
<1>1. IsFiniteSet(S)
  BY RoutingAttempts, FS_Subset
<1>2. \A a \in S : Costs[a] = CostOf(att[a]) /\ Costs'[a] = CostOf(att'[a])
  BY DEF Costs, LedgerCost, CostOf
<1>3. \A a \in S : Costs'[a] = Costs[a]
  BY <1>2
<1> HIDE DEF Costs
<1>4. QED
  BY <1>1, <1>3, SumSame

(* A step that charges nothing keeps what the readings rely on. *)
LEMMA ReadStays ==
    ASSUME RoutingInv, LedgerHolds, ReadInv, UNCHANGED <<refresh, fetch>>,
           \A k \in Pools : remaining'[k] \in Int /\ remaining[k] <= remaining'[k],
           \A b \in Attempts :
              /\ holder[b] = Fresh \/ holder'[b] \in {holder[b], Answered}
              /\ att[b].at \in AfterCall =>
                    att'[b].at \in AfterCall /\ att'[b].source = att[b].source
              /\ att'[b].source = "redis" => att[b].source = "redis" \/ holder[b] = Fresh
              /\ CostOf(att'[b]) = CostOf(att[b])
    PROVE  ReadInv'
<1> SUFFICES ASSUME NEW f \in Refreshes
             PROVE  ReadHolds(f)'
  BY DEF ReadInv
<1>1. ReadHolds(f) /\ f[2] \in Pools /\ fetch[f] \in FetchRecord
  BY DEF ReadInv, Refreshes, RoutingInv
<1>2. fetch[f].since \in SUBSET Attempts /\ fetch[f].reading \in Int
  BY <1>1, RoutingBounds DEF FetchRecord
<1>3. Ledger!Running(f)' => \A a \in Attempts : Knows(f, a)'
  <2>1. SUFFICES ASSUME Ledger!Running(f)', NEW a \in Attempts, a \in refresh[f].known
                 PROVE  Knows(f, a)'
    BY DEF Knows
  <2>2. Knows(f, a)
    BY <1>1, <2>1 DEF ReadHolds, Ledger!Running
  <2>3. holder[a] \in {f[2], Answered}
    BY <2>1, <2>2 DEF Knows
  <2>4. holder[a] # Fresh
    BY <1>1, <2>3, RoutingHolders
  <2>5. holder'[a] \in {f[2], Answered}
    BY <2>3, <2>4
  <2>6. QED
    BY <2>1, <2>2, <2>4, <2>5 DEF Knows
<1>4. ASSUME fetch[f].at = "read"
      PROVE  \A a \in fetch[f].since : Since(f, a)'
  <2>1. SUFFICES ASSUME NEW a \in fetch[f].since
                 PROVE  Since(f, a)'
    OBVIOUS
  <2>2. Since(f, a) /\ a \in Attempts
    BY <1>1, <1>2, <1>4, <2>1 DEF ReadHolds
  <2>3. att[a].source = "redis" => holder[a] # Fresh
    BY <1>1, <2>2, RoutingHolders DEF Since
  <2>4. QED
    BY <2>2, <2>3 DEF Since
<1>5. ASSUME fetch[f].at = "read", \A a \in fetch[f].since : att'[a].source = "redis"
      PROVE  fetch[f].reading <= remaining'[f[2]] + Consumed(fetch[f].since)'
  <2>1. \A a \in fetch[f].since : att[a].source = "redis"
    BY <1>1, <1>2, <1>4, <1>5 DEF ReadHolds, Since
  <2>2. fetch[f].reading <= remaining[f[2]] + Consumed(fetch[f].since)
    BY <1>1, <1>5, <2>1 DEF ReadHolds
  <2>3. Consumed(fetch[f].since)' = Consumed(fetch[f].since)
    BY <1>2, ConsumedSame DEF Consumed
  <2>4. Consumed(fetch[f].since) \in Nat /\ remaining[f[2]] \in Int
    BY <1>1, <1>2, ConsumedType, RoutingBounds DEF RoutingInv
  <2>5. QED
    BY <1>1, <1>2, <2>2, <2>3, <2>4
<1>6. fetch[f].at = "reading" => fetch[f].since = {}
  BY <1>1 DEF ReadHolds
<1>7. QED
  BY <1>3, <1>4, <1>5, <1>6 DEF ReadHolds

(* The premise about the provider, for the steps that leave it alone. *)
LEMMA RemainingStays ==
    ASSUME RoutingInv, remaining' = remaining
    PROVE  \A k \in Pools : remaining'[k] \in Int /\ remaining[k] <= remaining'[k]
  BY RoutingBounds DEF RoutingInv

(* Each step of an attempt but the provider's answer leaves the readings   *)
(* covered.                                                                *)
LEMMA AttemptReads ==
    ASSUME RoutingInv, LedgerHolds, UsesInv, ReadInv, NEW a \in Attempts,
           \/ \E i \in Instances, keys \in SUBSET Pools : Ask(a, i, keys)
           \/ ScriptDeclines(a)
           \/ Continue(a)
           \/ Record(a)
           \/ \E k \in Pools : ScriptReserves(a, k) \/ QueuedScriptReserves(a, k)
           \/ Settle(a)
    PROVE  ReadInv'
<1> DEFINE Moved(b) ==
              /\ holder[b] = Fresh \/ holder'[b] \in {holder[b], Answered}
              /\ att[b].at \in AfterCall =>
                    att'[b].at \in AfterCall /\ att'[b].source = att[b].source
              /\ att'[b].source = "redis" => att[b].source = "redis" \/ holder[b] = Fresh
              /\ CostOf(att'[b]) = CostOf(att[b])
<1>1. /\ att \in [Attempts -> AttemptRecord]
      /\ holder \in [Attempts -> Pools \cup {Fresh, Answered}]
      /\ Uses(att[a], holder[a])
  BY LedgerFacts DEF RoutingInv, Ledger!TypeOK, UsesInv
<1>2. CASE \/ \E i \in Instances, keys \in SUBSET Pools : Ask(a, i, keys)
           \/ ScriptDeclines(a)
           \/ Continue(a)
           \/ Record(a)
  <2>1. UNCHANGED <<refresh, fetch, holder, remaining>>
    BY <1>2 DEF Ask, ScriptDeclines, Continue, Record, ledgerVars, providerVars
  <2>2. PICK r \in AttemptRecord : att' = [att EXCEPT ![a] = r] /\ Moves(att[a], r)
    BY <1>2, QuietMoves
  <2>3. ASSUME NEW b \in Attempts
        PROVE  Moved(b)
    <3>1. CASE b = a
      BY <1>1, <2>1, <2>2, <3>1 DEF Moves
    <3>2. CASE b # a
      BY <1>1, <2>1, <2>2, <3>2
    <3>3. QED
      BY <3>1, <3>2
  <2>4. QED
    BY <2>1, <2>3, RemainingStays, ReadStays
<1>3. ASSUME NEW k \in Pools, ScriptReserves(a, k) \/ QueuedScriptReserves(a, k)
      PROVE  ReadInv'
  <2>1. /\ UNCHANGED <<refresh, fetch, remaining>> /\ holder[a] = Fresh
        /\ holder' = [holder EXCEPT ![a] = k]
    BY <1>3, ReserveEffect
  <2>2. PICK r \in AttemptRecord : att' = [att EXCEPT ![a] = r] /\ Reserves(att[a], r, k)
    BY <1>3, ReserveEffect
  <2>3. ASSUME NEW b \in Attempts
        PROVE  Moved(b)
    <3>1. CASE b = a
      BY <1>1, <2>1, <2>2, <3>1 DEF Reserves
    <3>2. CASE b # a
      BY <1>1, <2>1, <2>2, <3>2
    <3>3. QED
      BY <3>1, <3>2
  <2>4. QED
    BY <2>1, <2>3, RemainingStays, ReadStays
<1>4. CASE Settle(a)
  <2>1. UNCHANGED <<refresh, fetch, remaining>> /\ att' = [att EXCEPT ![a] = Finished(a)]
    BY <1>4, SettleEffect DEF ledgerVars
  <2>2. Moves(att[a], Finished(a))
    BY <1>1, FinishedMoves
  <2>3. holder' = holder \/ holder' = [holder EXCEPT ![a] = Answered]
    BY <1>4, SettleEffect DEF ledgerVars, Ledger!Close
  <2>4. ASSUME NEW b \in Attempts
        PROVE  Moved(b)
    <3>1. CASE b = a
      BY <1>1, <2>1, <2>2, <2>3, <3>1 DEF Moves
    <3>2. CASE b # a
      BY <1>1, <2>1, <2>3, <3>2
    <3>3. QED
      BY <3>1, <3>2
  <2>5. QED
    BY <2>1, <2>4, RemainingStays, ReadStays
<1>5. QED
  BY <1>2, <1>3, <1>4

(* The provider charges an attempt: every reading under way notes it. *)
LEMMA ProvideReads ==
    ASSUME RoutingInv, LedgerHolds, UsesInv, ReadInv, NEW a \in Attempts,
           NEW cost \in 0..MaxActual, NEW answer \in {"ok", "other", "402", "429", "401"},
           Provide(a, answer, cost)
    PROVE  ReadInv'
<1> DEFINE k == att[a].key
<1>1. /\ att \in [Attempts -> AttemptRecord] /\ remaining \in [Pools -> 0..MaxReading]
      /\ Uses(att[a], holder[a]) /\ cost \in Nat
  BY RoutingBounds DEF RoutingInv, UsesInv
<1>2. /\ att[a].at = "sent" /\ k \in Pools /\ CostOf(att[a]) = 0
      /\ UNCHANGED <<refresh, holder>>
      /\ remaining' = [remaining EXCEPT ![k] = @ - cost]
      /\ fetch' = [f \in Refreshes |->
                     IF f[2] = k /\ fetch[f].at = "read" /\ cost > 0
                     THEN [fetch[f] EXCEPT !.since = @ \cup {a}] ELSE fetch[f]]
  BY ProvideMoves DEF Charge, ledgerVars
<1>3. PICK r \in AttemptRecord :
        /\ att' = [att EXCEPT ![a] = r]
        /\ r.at = "answered" /\ r.source = att[a].source /\ r.cost = cost
  BY ProvideMoves
<1>4. /\ att'[a] = r /\ \A b \in Attempts : b # a => att'[b] = att[b]
      /\ CostOf(r) = IF att[a].source = "redis" THEN cost ELSE 0
  BY <1>1, <1>3 DEF CostOf
<1>5. /\ att[a].source \in {"local", "redis"}
      /\ att[a].source = "redis" => holder[a] = k
  BY <1>1, <1>2 DEF Uses
<1> SUFFICES ASSUME NEW f \in Refreshes
             PROVE  ReadHolds(f)'
  BY DEF ReadInv
<1>6. ReadHolds(f) /\ f[2] \in Pools /\ fetch[f] \in FetchRecord
  BY DEF ReadInv, Refreshes, RoutingInv
<1> DEFINE S == fetch[f].since
<1>7. S \in SUBSET Attempts /\ fetch[f].reading \in Int
  BY <1>6, RoutingBounds DEF FetchRecord
<1>8. fetch[f].at = "read" => a \notin S
  BY <1>2, <1>6 DEF ReadHolds, Since, AfterCall
<1> DEFINE charged == f[2] = k /\ fetch[f].at = "read" /\ cost > 0
<1>9. /\ fetch'[f].at = fetch[f].at /\ fetch'[f].reading = fetch[f].reading
      /\ fetch'[f].seen = fetch[f].seen
      /\ fetch'[f].since = IF charged THEN S \cup {a} ELSE S
  BY <1>2, <1>6 DEF FetchRecord
<1>10. Ledger!Running(f)' => \A b \in Attempts : Knows(f, b)'
  <2>1. SUFFICES ASSUME Ledger!Running(f)', NEW b \in Attempts, b \in refresh[f].known
                 PROVE  Knows(f, b)'
    BY <1>2 DEF Knows
  <2>2. Knows(f, b)
    BY <1>2, <1>6, <2>1 DEF ReadHolds, Ledger!Running
  <2>3. CASE b = a
    <3>1. att[a].at \notin AfterCall /\ att'[a].source = att[a].source
      BY <1>2, <1>3, <1>4 DEF AfterCall
    <3>2. QED
      BY <1>2, <1>9, <2>1, <2>2, <2>3, <3>1 DEF Knows
  <2>4. CASE b # a
    BY <1>2, <1>4, <1>9, <2>1, <2>2, <2>4 DEF Knows
  <2>5. QED
    BY <2>3, <2>4
<1>11. ASSUME fetch[f].at = "read"
       PROVE  \A b \in fetch'[f].since : Since(f, b)'
  <2>1. SUFFICES ASSUME NEW b \in fetch'[f].since
                 PROVE  Since(f, b)'
    OBVIOUS
  <2>2. CASE b = a
    <3>1. a \in fetch'[f].since => f[2] = k
      BY <1>8, <1>9, <1>11
    <3>2. QED
      BY <1>2, <1>3, <1>4, <1>5, <2>1, <2>2, <3>1 DEF Since, AfterCall
  <2>3. CASE b # a
    <3>1. b \in S
      BY <1>9, <2>1, <2>3
    <3>2. Since(f, b) /\ b \in Attempts
      BY <1>6, <1>7, <1>11, <3>1 DEF ReadHolds
    <3>3. QED
      BY <1>2, <1>4, <2>3, <3>2 DEF Since
  <2>4. QED
    BY <2>2, <2>3
<1>12. ASSUME fetch[f].at = "read", \A b \in fetch'[f].since : att'[b].source = "redis"
       PROVE  fetch[f].reading <= remaining'[f[2]] + SumFunctionOnSet(Costs', fetch'[f].since)
  <2>1. a \notin S /\ \A b \in S : att'[b] = att[b]
    BY <1>4, <1>7, <1>8, <1>12
  <2>2. \A b \in S : att[b].source = "redis"
    BY <1>9, <1>12, <2>1
  <2>3. fetch[f].reading <= remaining[f[2]] + Consumed(S)
    BY <1>6, <1>12, <2>2 DEF ReadHolds
  <2>4. SumFunctionOnSet(Costs', S) = Consumed(S) /\ Consumed(S) \in Nat
    <3>1. SumFunctionOnSet(Costs', S) = SumFunctionOnSet(Costs, S)
      BY <1>7, <2>1, ConsumedSame
    <3>2. QED
      BY <1>7, <3>1, ConsumedType DEF Consumed
  <2>5. remaining[f[2]] \in Int /\ remaining[k] \in Int
    BY <1>1, <1>2, <1>6, RoutingBounds
  <2>6. CASE charged
    <3>1. fetch'[f].since = S \cup {a} /\ f[2] = k /\ remaining'[f[2]] = remaining[f[2]] - cost
      BY <1>1, <1>2, <1>9, <2>6
    <3>2. att[a].source = "redis"
      BY <1>3, <1>4, <1>12, <3>1
    <3>3. Costs'[a] = cost /\ \A b \in S : Costs'[b] \in Int
      <4>1. Costs'[a] = CostOf(att'[a]) /\ \A b \in S : Costs'[b] = CostOf(att'[b])
        BY <1>7 DEF Costs, LedgerCost, CostOf
      <4>2. \A b \in S : CostOf(att[b]) \in Nat
        BY <1>7, ConsumedType
      <4>3. QED
        BY <1>4, <2>1, <3>2, <4>1, <4>2
    <3>4. IsFiniteSet(S)
      BY <1>7, ConsumedType
    <3> HIDE DEF Costs
    <3>5. SumFunctionOnSet(Costs', S \cup {a}) = cost + SumFunctionOnSet(Costs', S)
      BY <1>1, <2>1, <3>3, <3>4, SumAdd
    <3>6. QED
      BY <1>1, <1>7, <2>3, <2>4, <2>5, <3>1, <3>5
  <2>7. CASE ~charged
    <3>1. remaining'[f[2]] = remaining[f[2]]
      BY <1>1, <1>2, <1>6, <1>12, <2>5, <2>7
    <3>2. QED
      BY <1>9, <2>3, <2>4, <2>7, <3>1
  <2>8. QED
    BY <2>6, <2>7
<1>13. fetch'[f].at = "reading" => fetch'[f].since = {}
  BY <1>6, <1>9 DEF ReadHolds
<1>14. QED
  BY <1>9, <1>10, <1>11, <1>12, <1>13 DEF ReadHolds, Consumed

(* No reading at the start. *)
LEMMA InitReads ==
    ASSUME Init
    PROVE  ReadInv
<1>1. ASSUME NEW f \in Refreshes
      PROVE  fetch[f].at = "none" /\ ~Ledger!Running(f)
  BY <1>1 DEF Init, Ledger!Init, Ledger!Running, NoFetch
<1>2. QED
  BY <1>1 DEF ReadInv, ReadHolds

(* What is left alone stays as it was. *)
LEMMA OtherReads ==
    ASSUME NEW f, ReadHolds(f), UNCHANGED <<att, holder, remaining>>,
           refresh'[f] = refresh[f], fetch'[f] = fetch[f]
    PROVE  ReadHolds(f)'
<1>1. Ledger!Running(f)' <=> Ledger!Running(f)
  BY DEF Ledger!Running
<1>2. \A a : Knows(f, a)' <=> Knows(f, a)
  BY DEF Knows
<1>3. \A a : Since(f, a)' <=> Since(f, a)
  BY DEF Since
<1>4. Consumed(fetch[f].since)' = Consumed(fetch[f].since)
  BY DEF Consumed, Costs, LedgerCost
<1>5. QED
  BY <1>1, <1>2, <1>3, <1>4 DEF ReadHolds

(* A refresh captures, reads and reconciles: the reading starts out equal  *)
(* to the provider's counter, and what it knows was captured before.       *)
LEMMA RefreshReads ==
    ASSUME RoutingInv, LedgerHolds, UsesInv, ReadInv, NEW i \in Instances, NEW k \in Pools,
           \/ StartRefresh(i, k)
           \/ ReadProvider(i, k)
           \/ ReadFails(i, k)
           \/ RunReconcile(i, k)
           \/ FinishRefresh(i, k)
    PROVE  ReadInv'
<1> DEFINE f == <<i, k>>
<1>1. /\ f \in Refreshes /\ f[2] = k /\ ReadHolds(f)
      /\ refresh \in [Refreshes -> Ledger!RefreshRecord \cup {Ledger!Idle}]
      /\ holder \in [Attempts -> Pools \cup {Fresh, Answered}]
      /\ members[k] \in SUBSET Attempts
      /\ fetch \in [Refreshes -> FetchRecord] /\ fetch[f] \in FetchRecord
  BY LedgerFacts DEF Refreshes, RoutingInv, Ledger!TypeOK, ReadInv
<1>2. UNCHANGED <<att, holder, remaining>>
  BY DEF StartRefresh, ReadProvider, ReadFails, RunReconcile, FinishRefresh, ledgerVars,
         providerVars, Ledger!Capture, Ledger!Abandon, Ledger!Reconcile
<1>3. ASSUME NEW g \in Refreshes, g # f
      PROVE  refresh'[g] = refresh[g] /\ fetch'[g] = fetch[g]
  BY <1>1, <1>3 DEF StartRefresh, ReadProvider, ReadFails, RunReconcile, FinishRefresh, ledgerVars,
         Ledger!Capture, Ledger!Abandon, Ledger!Reconcile
<1>4. ASSUME NEW g \in Refreshes, g # f
      PROVE  ReadHolds(g)'
  BY <1>2, <1>3, <1>4, OtherReads DEF ReadInv
<1>5. ASSUME StartRefresh(i, k)
      PROVE  ReadHolds(f)'
  <2>1. /\ fetch' = [fetch EXCEPT ![f] = [NoFetch EXCEPT !.at = "reading"]]
        /\ fetch[f].at = "none"
        /\ Ledger!Capture(f, k) \/ UNCHANGED ledgerVars
    BY <1>5 DEF StartRefresh
  <2>2. fetch'[f].at = "reading" /\ fetch'[f].since = {}
    BY <1>1, <2>1 DEF NoFetch
  <2>3. ASSUME Ledger!Running(f)', NEW a \in Attempts, a \in refresh'[f].known
        PROVE  holder'[a] \in {f[2], Answered}
    <3>1. ~Ledger!Running(f)
      BY <1>1, <2>1 DEF UsesInv
    <3>2. Ledger!Capture(f, k)
      BY <2>1, <2>3, <3>1 DEF Ledger!Running, ledgerVars
    <3>3. a \in members[k]
      BY <1>1, <2>3, <3>2 DEF Ledger!Capture
    <3>4. holder[a] # Fresh /\ (holder[a] \in Pools => holder[a] = k)
      BY <3>3, LedgerFacts DEF Ledger!IndexSound
    <3>5. QED
      BY <1>1, <1>2, <3>4
  <2>4. QED
    BY <2>2, <2>3 DEF ReadHolds, Knows
<1>6. ASSUME ReadProvider(i, k)
      PROVE  ReadHolds(f)'
  <2>1. /\ fetch[f].at = "reading" /\ refresh' = refresh
        /\ fetch'[f].at = "read" /\ fetch'[f].reading = remaining[k]
        /\ fetch'[f].seen = {a \in Attempts : UnderWay(a, k)}
        /\ fetch'[f].since = {}
    BY <1>1, <1>6 DEF ReadProvider, FetchRecord, ReadHolds, ledgerVars
  <2>2. ASSUME Ledger!Running(f), NEW a \in Attempts, a \in refresh[f].known
        PROVE  /\ holder[a] \in {f[2], Answered}
               /\ att[a].source = "redis" /\ ~UnderWay(a, k) => att[a].at \in AfterCall
    <3>1. holder[a] \in {f[2], Answered}
      BY <1>1, <2>2 DEF ReadHolds, Knows
    <3>2. Uses(att[a], holder[a]) /\ att[a] \in AttemptRecord
      BY DEF UsesInv, RoutingInv
    <3>3. ASSUME att[a].source = "redis", att[a].at \in {"told", "sent"}
          PROVE  UnderWay(a, k)
      <4>1. att[a].key = holder[a] /\ holder[a] \in Pools
        BY <3>2, <3>3 DEF Uses
      <4>2. QED
        BY <1>1, <3>1, <3>3, <4>1, RoutingHolders DEF UnderWay
    <3>4. att[a].source = "redis" => att[a].at \notin {"idle", "asking"}
      BY <3>2 DEF Uses
    <3>5. QED
      BY <3>1, <3>2, <3>3, <3>4 DEF AttemptRecord, AfterCall
  <2>3. Ledger!Running(f)' => \A a \in Attempts : Knows(f, a)'
    BY <1>2, <2>1, <2>2 DEF Knows, Ledger!Running
  <2>4. Consumed(fetch[f].since)' = 0 /\ remaining[k] \in Nat
    BY <1>1, <2>1, SumEmpty, RoutingBounds DEF Consumed, RoutingInv
  <2>5. fetch'[f].reading <= remaining'[f[2]] + Consumed(fetch[f].since)'
    BY <1>1, <1>2, <2>1, <2>4
  <2>6. QED
    BY <2>1, <2>3, <2>5 DEF ReadHolds
<1>7. ASSUME ReadFails(i, k) \/ RunReconcile(i, k) \/ FinishRefresh(i, k)
      PROVE  ReadHolds(f)'
  <2>1. fetch'[f].at \in {"none", "reconciled"}
    <3>1. CASE fetch' = [fetch EXCEPT ![f] = NoFetch]
      BY <1>1, <3>1 DEF NoFetch
    <3>2. CASE RunReconcile(i, k)
      BY <1>1, <3>2 DEF RunReconcile, FetchRecord
    <3>3. QED
      BY <1>7, <3>1, <3>2 DEF ReadFails, FinishRefresh
  <2>2. ~Ledger!Running(f)'
    <3>1. UsesInv'
      BY <1>7, RefreshUses
    <3>2. QED
      BY <1>1, <2>1, <3>1 DEF UsesInv
  <2>3. QED
    BY <2>1, <2>2 DEF ReadHolds
<1>8. QED
  BY <1>4, <1>5, <1>6, <1>7 DEF ReadInv

(* The rest of the system, and all of it. *)
LEMMA EnvironmentReads ==
    ASSUME RoutingInv, LedgerHolds, UsesInv, ReadInv,
           \/ LedgerEnvironment
           \/ \E i \in Instances : BreakerExpires(i)
           \/ \E k \in Pools : TopUp(k)
           \/ UNCHANGED vars
    PROVE  ReadInv'
<1>1. UNCHANGED <<att, holder, refresh, fetch>>
  BY DEF LedgerEnvironment, BreakerExpires, TopUp, vars, ledgerVars, Ledger!Environment,
         Ledger!Expire, Ledger!LoseData, Ledger!Tick
<1>2. \A k \in Pools : remaining'[k] \in Int /\ remaining[k] <= remaining'[k]
  <2>1. CASE remaining' = remaining
    BY <2>1, RemainingStays
  <2>2. CASE \E k \in Pools : remaining' = [remaining EXCEPT ![k] = @ + 1]
    BY <2>2, RoutingBounds DEF RoutingInv
  <2>3. QED
    BY <2>1, <2>2 DEF LedgerEnvironment, BreakerExpires, TopUp, vars, providerVars
<1>3. QED
  BY <1>1, <1>2, ReadStays

LEMMA StepReads ==
    ASSUME RoutingInv, LedgerHolds, UsesInv, ReadInv, [Next]_vars
    PROVE  ReadInv'
  BY AttemptReads, ProvideReads, RefreshReads, EnvironmentReads DEF Next

-----------------------------------------------------------------------------
(***************************************************************************)
(* The ledger stays within the provider's counter.                         *)
(***************************************************************************)

(* The property, for one pool, and what it needs to be kept: every         *)
(* attempt under way has its reservation in the index, so its charge will  *)
(* be accounted for, or the pool was emptied and indexes nothing.          *)
Within(k) ==
    ~tainted[k] /\ (\A a \in Attempts : att[a].cost <= Amount) =>
        credits[k] + reserved[k] <= remaining[k] + Consumed(members[k])

Covered(k) ==
    ~tainted[k] =>
       \/ \A a \in Attempts : UnderWay(a, k) => a \in members[k]
       \/ credits[k] = 0 /\ members[k] = {}

CoverInv == \A k \in Pools : Within(k) /\ Covered(k)

(* The numbers the property relates are numbers. *)
LEMMA CoverTypes ==
    ASSUME RoutingInv, LedgerHolds, NEW k \in Pools
    PROVE  /\ credits[k] \in Nat /\ reserved[k] \in Nat /\ remaining[k] \in Nat
           /\ members[k] \in SUBSET Attempts
           /\ Consumed(members[k]) \in Nat
           /\ Amount \in Nat \ {0}
           /\ \A a \in Attempts : att[a].cost \in Nat
<1>1. credits[k] \in Nat /\ reserved[k] \in Nat /\ members[k] \in SUBSET Attempts
  BY LedgerFacts DEF Ledger!TypeOK
<1>2. remaining[k] \in Nat
  BY RoutingBounds DEF RoutingInv
<1>3. \A a \in Attempts : att[a].cost \in Nat
  BY RoutingBounds DEF RoutingInv, AttemptRecord
<1>4. QED
  BY <1>1, <1>2, <1>3, ConsumedType, RoutingAmount

(* A pool whose credits, promises and index stay as they are is still      *)
(* covered when the provider's counter does not sink.                      *)
LEMMA CoverStays ==
    ASSUME RoutingInv, LedgerHolds, NEW k \in Pools, Within(k), Covered(k),
           credits'[k] = credits[k], reserved'[k] = reserved[k], members'[k] = members[k],
           tainted'[k] = tainted[k], remaining'[k] \in Int, remaining[k] <= remaining'[k],
           \A a \in Attempts :
              /\ UnderWay(a, k)' => UnderWay(a, k)
              /\ att'[a].cost \in Int /\ att[a].cost <= att'[a].cost
              /\ a \in members[k] => CostOf(att'[a]) = CostOf(att[a])
    PROVE  Within(k)' /\ Covered(k)'
<1>1. SumFunctionOnSet(Costs', members[k]) = Consumed(members[k])
  <2>1. members[k] \in SUBSET Attempts
    BY CoverTypes
  <2>2. QED
    BY <2>1, ConsumedSame DEF Consumed
<1>2. (\A a \in Attempts : att'[a].cost <= Amount) => \A a \in Attempts : att[a].cost <= Amount
  <2>1. \A a \in Attempts : att[a].cost \in Int /\ Amount \in Int
    BY CoverTypes
  <2>2. QED
    BY <2>1
<1>3. Within(k)'
  <2>1. SUFFICES ASSUME ~tainted'[k], \A a \in Attempts : att'[a].cost <= Amount
                 PROVE  credits'[k] + reserved'[k]
                          <= remaining'[k] + SumFunctionOnSet(Costs', members'[k])
    BY DEF Within, Consumed
  <2>2. credits[k] + reserved[k] <= remaining[k] + Consumed(members[k])
    BY <1>2, <2>1 DEF Within
  <2>3. QED
    BY <1>1, <2>2, CoverTypes
<1>4. Covered(k)'
  <2>1. SUFFICES ASSUME ~tainted'[k]
                 PROVE  \/ \A a \in Attempts : UnderWay(a, k)' => a \in members[k]
                        \/ credits[k] = 0 /\ members[k] = {}
    BY DEF Covered
  <2>2. QED
    BY <2>1 DEF Covered
<1>5. QED
  BY <1>3, <1>4

(* An attempt moves on without a script. *)
LEMMA QuietCover ==
    ASSUME RoutingInv, LedgerHolds, UsesInv, CoverInv, RoutingInv', NEW a \in Attempts,
           \/ \E i \in Instances, keys \in SUBSET Pools : Ask(a, i, keys)
           \/ ScriptDeclines(a)
           \/ Continue(a)
           \/ Record(a)
    PROVE  CoverInv'
<1> SUFFICES ASSUME NEW k \in Pools
             PROVE  Within(k)' /\ Covered(k)'
  BY DEF CoverInv
<1>1. UNCHANGED <<credits, reserved, members, tainted, remaining>>
  BY DEF Ask, ScriptDeclines, Continue, Record, ledgerVars, providerVars
<1>2. PICK r \in AttemptRecord : att' = [att EXCEPT ![a] = r] /\ Moves(att[a], r)
  BY QuietMoves
<1>3. att \in [Attempts -> AttemptRecord] /\ \A b \in Attempts : att[b].cost \in Int
  BY CoverTypes DEF RoutingInv
<1>4. ASSUME NEW b \in Attempts
      PROVE  /\ UnderWay(b, k)' => UnderWay(b, k)
             /\ att'[b].cost = att[b].cost
             /\ CostOf(att'[b]) = CostOf(att[b])
  <2>1. CASE b = a
    BY <1>2, <1>3, <2>1 DEF Moves, UnderWay
  <2>2. CASE b # a
    BY <1>2, <1>3, <2>2 DEF UnderWay
  <2>3. QED
    BY <2>1, <2>2
<1>5. remaining[k] \in Int
  BY CoverTypes
<1>6. QED
  BY <1>1, <1>3, <1>4, <1>5, CoverStays DEF CoverInv

(* A reservation moves credits to the promises. *)
LEMMA ReserveCover ==
    ASSUME RoutingInv, LedgerHolds, UsesInv, CoverInv, NEW a \in Attempts, NEW k \in Pools,
           ScriptReserves(a, k) \/ QueuedScriptReserves(a, k)
    PROVE  CoverInv'
<1>1. /\ credits[k] >= Amount /\ UNCHANGED <<remaining, tainted>>
      /\ credits' = [credits EXCEPT ![k] = @ - Amount]
      /\ reserved' = [reserved EXCEPT ![k] = @ + Amount]
      /\ members' = [members EXCEPT ![k] = @ \cup {a}]
  BY ReserveEffect
<1>2. PICK r \in AttemptRecord : att' = [att EXCEPT ![a] = r] /\ Reserves(att[a], r, k)
  BY ReserveEffect
<1>3. /\ att \in [Attempts -> AttemptRecord] /\ \A b \in Attempts : att[b].cost \in Int
      /\ credits \in [Pools -> Nat] /\ reserved \in [Pools -> Nat]
      /\ members \in [Pools -> SUBSET Attempts]
  BY CoverTypes, LedgerFacts DEF RoutingInv, Ledger!TypeOK
<1>4. ASSUME NEW b \in Attempts
      PROVE  att'[b].cost = att[b].cost /\ CostOf(att'[b]) = CostOf(att[b])
  BY <1>2, <1>3 DEF Reserves
<1>5. ASSUME NEW q \in Pools, q # k
      PROVE  Within(q)' /\ Covered(q)'
  <2>1. /\ credits'[q] = credits[q] /\ reserved'[q] = reserved[q] /\ members'[q] = members[q]
        /\ remaining'[q] = remaining[q] /\ tainted'[q] = tainted[q] /\ remaining[q] \in Int
    BY <1>1, <1>3, <1>5, CoverTypes
  <2>2. ASSUME NEW b \in Attempts
        PROVE  UnderWay(b, q)' => UnderWay(b, q)
    BY <1>2, <1>3, <1>5 DEF UnderWay, Reserves
  <2>3. QED
    BY <1>3, <1>4, <2>1, <2>2, CoverStays DEF CoverInv
<1>6. Covered(k)'
  <2>1. SUFFICES ASSUME ~tainted'[k]
                 PROVE  \A b \in Attempts : UnderWay(b, k)' => b \in members'[k]
    BY DEF Covered
  <2>2. ~(credits[k] = 0)
    BY <1>1, CoverTypes
  <2>3. \A b \in Attempts : UnderWay(b, k) => b \in members[k]
    BY <1>1, <2>1, <2>2 DEF CoverInv, Covered
  <2>4. QED
    BY <1>1, <1>2, <1>3, <2>3 DEF UnderWay
<1>7. Within(k)'
  <2>1. SUFFICES ASSUME ~tainted'[k], \A b \in Attempts : att'[b].cost <= Amount
                 PROVE  credits'[k] + reserved'[k]
                          <= remaining'[k] + SumFunctionOnSet(Costs', members'[k])
    BY DEF Within, Consumed
  <2>2. credits[k] + reserved[k] <= remaining[k] + Consumed(members[k])
    BY <1>1, <1>4, <2>1 DEF CoverInv, Within
  <2>3. credits'[k] + reserved'[k] = credits[k] + reserved[k]
    <3>1. credits'[k] = credits[k] - Amount /\ reserved'[k] = reserved[k] + Amount
      BY <1>1, <1>3
    <3>2. QED
      BY <3>1, CoverTypes
  <2>4. members'[k] = members[k] \cup {a} /\ members'[k] \in SUBSET Attempts
    BY <1>1, <1>3
  <2>5. SumFunctionOnSet(Costs', members'[k]) = Consumed(members'[k])
    BY <1>4, <2>4, ConsumedSame DEF Consumed
  <2>6. Consumed(members[k]) <= Consumed(members'[k]) /\ Consumed(members'[k]) \in Nat
    <3>1. IsFiniteSet(members'[k]) /\ (\A b \in members'[k] : Costs[b] \in Nat)
          /\ Consumed(members'[k]) \in Nat
      BY <2>4, ConsumedType
    <3> HIDE DEF Costs
    <3>2. SumFunctionOnSet(Costs, members[k]) <= SumFunctionOnSet(Costs, members'[k])
      BY <2>4, <3>1, SumMonotone
    <3>3. QED
      BY <3>1, <3>2 DEF Consumed
  <2>7. QED
    BY <1>1, <2>2, <2>3, <2>5, <2>6, CoverTypes
<1>8. QED
  BY <1>5, <1>6, <1>7 DEF CoverInv

(* The provider charges the attempt: its own reservation accounts for it,  *)
(* unless it went around the ledger, which taints the pool.                *)
LEMMA ProvideCover ==
    ASSUME RoutingInv, LedgerHolds, UsesInv, CoverInv, LocalTypes, RoutingInv',
           NEW a \in Attempts,
           NEW cost \in 0..MaxActual, NEW answer \in {"ok", "other", "402", "429", "401"},
           Provide(a, answer, cost)
    PROVE  CoverInv'
<1>0. PICK k \in Pools : k = att[a].key
  BY ProvideMoves
<1>1. /\ att \in [Attempts -> AttemptRecord] /\ remaining \in [Pools -> 0..MaxReading]
      /\ tainted' = [tainted EXCEPT ![k] = @ \/ (att[a].source = "local" /\ cost > 0)]
      /\ Uses(att[a], holder[a]) /\ cost \in Nat
  BY <1>0, ProvideMoves, RoutingBounds DEF RoutingInv, UsesInv, Charge
<1>2. /\ att[a].at = "sent" /\ k \in Pools /\ CostOf(att[a]) = 0 /\ att[a].cost = 0
      /\ UNCHANGED <<credits, reserved, members>>
      /\ remaining' = [remaining EXCEPT ![k] = @ - cost]
  BY <1>0, ProvideMoves DEF Charge, ledgerVars
<1>3. PICK r \in AttemptRecord :
        /\ att' = [att EXCEPT ![a] = r]
        /\ r.at = "answered" /\ r.source = att[a].source /\ r.cost = cost
  BY ProvideMoves
<1>4. /\ att'[a] = r /\ \A b \in Attempts : b # a => att'[b] = att[b]
      /\ CostOf(r) = IF att[a].source = "redis" THEN cost ELSE 0
  BY <1>1, <1>3 DEF CostOf
<1>5. /\ att[a].source \in {"local", "redis"}
      /\ att[a].source = "redis" => holder[a] = k
  BY <1>0, <1>1, <1>2 DEF Uses
<1>6. ASSUME NEW b \in Attempts
      PROVE  /\ att'[b].cost \in Int /\ att[b].cost <= att'[b].cost
             /\ \A q \in Pools : UnderWay(b, q)' => UnderWay(b, q)
  <2>1. att[b].cost \in Int
    BY <1>2, CoverTypes
  <2>2. CASE b = a
    BY <1>1, <1>2, <1>3, <1>4, <2>2 DEF UnderWay
  <2>3. CASE b # a
    BY <1>4, <2>1, <2>3 DEF UnderWay
  <2>4. QED
    BY <2>2, <2>3
<1>7. ASSUME NEW q \in Pools, q # k
      PROVE  Within(q)' /\ Covered(q)'
  <2>1. remaining'[q] = remaining[q] /\ tainted'[q] = tainted[q] /\ remaining[q] \in Int
    <3>1. tainted'[q] = tainted[q]
      BY <1>1, <1>7 DEF LocalTypes
    <3>2. QED
      BY <1>1, <1>2, <1>7, <3>1, CoverTypes
  <2>2. att[a].source = "redis" => a \notin members[q]
    BY <1>2, <1>5, <1>7, LedgerFacts DEF Ledger!IndexSound
  <2>3. \A b \in Attempts : b \in members[q] => CostOf(att'[b]) = CostOf(att[b])
    BY <1>2, <1>4, <2>2
  <2>4. QED
    BY <1>2, <1>6, <2>1, <2>3, CoverStays DEF CoverInv
<1>8. ((att[a].source = "redis" \/ cost = 0) /\ ~tainted[k]) \/ tainted'[k]
  <2>1. tainted'[k] <=> tainted[k] \/ (att[a].source = "local" /\ cost > 0)
    BY <1>1, <1>2, Zenon DEF LocalTypes
  <2>2. CASE tainted[k] \/ (att[a].source = "local" /\ cost > 0)
    BY <2>1, <2>2
  <2>3. CASE ~tainted[k] /\ ~(att[a].source = "local" /\ cost > 0)
    BY <1>1, <1>5, <2>3
  <2>4. QED
    BY <2>2, <2>3
<1>9. Covered(k)'
  <2>1. SUFFICES ASSUME ~tainted'[k]
                 PROVE  \/ \A b \in Attempts : UnderWay(b, k)' => b \in members'[k]
                        \/ credits'[k] = 0 /\ members'[k] = {}
    BY DEF Covered
  <2>2. ~tainted[k]
    BY <1>8, <2>1
  <2>3. QED
    BY <1>2, <1>6, <2>2 DEF CoverInv, Covered
<1> DEFINE S == members[k]
<1>10. /\ S \in SUBSET Attempts /\ IsFiniteSet(S) /\ \A b \in Attempts : Costs[b] \in Nat
       /\ Costs[a] = 0
  <2>1. S \in SUBSET Attempts
    BY <1>2, CoverTypes
  <2>2. QED
    BY <1>2, <2>1, ConsumedType
<1>11. /\ \A b \in Attempts : Costs'[b] \in Nat
       /\ Costs'[a] = CostOf(r)
       /\ \A b \in Attempts : b # a => Costs'[b] = Costs[b]
  <2>1. \A b \in Attempts : Costs'[b] = CostOf(att'[b])
    BY DEF Costs, LedgerCost, CostOf
  <2>2. \A b \in Attempts : Costs[b] = CostOf(att[b])
    BY DEF Costs, LedgerCost, CostOf
  <2>3. QED
    BY <1>1, <1>4, <1>10, <2>1, <2>2
<1>12. Within(k)'
  <2>1. SUFFICES ASSUME ~tainted'[k], \A b \in Attempts : att'[b].cost <= Amount
                 PROVE  credits[k] + reserved[k] <= remaining'[k] + SumFunctionOnSet(Costs', S)
    BY <1>2 DEF Within, Consumed
  <2>2. \A b \in Attempts : att[b].cost <= Amount
    <3>1. \A b \in Attempts : att[b].cost \in Nat /\ Amount \in Nat
      BY <1>2, CoverTypes
    <3>2. QED
      BY <1>6, <2>1, <3>1
  <2>3. credits[k] + reserved[k] <= remaining[k] + Consumed(S)
    BY <1>2, <1>8, <2>1, <2>2 DEF CoverInv, Within
  <2>4. remaining'[k] = remaining[k] - cost /\ remaining'[k] \in Nat
    BY <1>1, <1>2, RoutingBounds DEF RoutingInv
  <2>5. CASE att[a].source = "redis" /\ a \in S
    <3>1. SumFunctionOnSet(Costs', S) = Consumed(S) + cost
      <4> DEFINE T == S \ {a}
      <4>1. IsFiniteSet(T) /\ T \in SUBSET Attempts /\ Costs'[a] = cost
        BY <1>4, <1>10, <1>11, <2>5, FS_Subset
      <4>a. \A b \in S : Costs[b] \in Int /\ Costs'[b] \in Int
        BY <1>10, <1>11
      <4> HIDE DEF Costs, S
      <4>2. SumFunctionOnSet(Costs, S) = Costs[a] + SumFunctionOnSet(Costs, T)
        BY <1>10, <2>5, <4>a, SumRemove
      <4>3. SumFunctionOnSet(Costs', S) = Costs'[a] + SumFunctionOnSet(Costs', T)
        BY <1>10, <2>5, <4>a, SumRemove
      <4>4. SumFunctionOnSet(Costs', T) = SumFunctionOnSet(Costs, T)
        BY <1>11, <4>1, SumSame
      <4>5. SumFunctionOnSet(Costs, T) \in Nat
        BY <1>10, <4>1, SumNat
      <4>6. QED
        BY <1>1, <1>10, <4>1, <4>2, <4>3, <4>4, <4>5 DEF Consumed
    <3>2. QED
      BY <1>1, <1>2, <2>3, <2>4, <3>1, CoverTypes
  <2>6. CASE CostOf(r) = 0
    <3>1. SumFunctionOnSet(Costs', S) = Consumed(S)
      <4>1. \A b \in S : Costs'[b] = Costs[b]
        BY <1>10, <1>11, <2>6
      <4> HIDE DEF Costs
      <4>2. QED
        BY <1>10, <4>1, SumSame DEF Consumed
    <3>2. cost = 0 \/ att[a].source # "redis"
      BY <1>4, <2>6
    <3>3. cost = 0
      BY <1>5, <1>8, <2>1, <3>2
    <3>4. QED
      BY <1>1, <1>2, <2>3, <2>4, <3>1, <3>3, CoverTypes
  <2>7. CASE credits[k] = 0 /\ S = {}
    <3>1. reserved[k] = 0
      <4>1. reserved[k] = Amount * Cardinality({})
        BY <1>2, <2>7, LedgerFacts, SameSize DEF Ledger!ReservedMatchesIndex
      <4>2. Cardinality({}) = 0
        BY FS_EmptySet
      <4>3. QED
        BY <4>1, <4>2, RoutingAmount
    <3>2. SumFunctionOnSet(Costs', S) = 0
      BY <2>7, SumEmpty
    <3>3. QED
      BY <2>4, <2>7, <3>1, <3>2
  <2>8. CASE att[a].source = "redis" /\ a \notin S
    <3>1. UnderWay(a, k)
      BY <1>0, <1>2, <2>8 DEF UnderWay
    <3>2. credits[k] = 0 /\ S = {}
      BY <1>2, <1>8, <2>1, <2>8, <3>1 DEF CoverInv, Covered
    <3>3. QED
      BY <2>7, <3>2
  <2>9. CASE att[a].source = "local"
    BY <1>4, <2>6, <2>9
  <2>10. QED
    BY <1>5, <2>5, <2>8, <2>9
<1>13. QED
  BY <1>7, <1>9, <1>12 DEF CoverInv

(* The ledger's types, after the step. *)
LEMMA LedgerTypesNext ==
    ASSUME LedgerHolds'
    PROVE  Ledger!TypeOK'
<1>1. Proved!TypeOK'
  BY DEF LedgerHolds, Proved!LedgerInv
<1>2. QED
  BY <1>1 DEF Proved!TypeOK, Ledger!TypeOK, Proved!RefreshRecord, Ledger!RefreshRecord,
              Proved!Idle, Ledger!Idle

(* A settlement gives back no more than the estimate less what was used. *)
LEMMA SettleCover ==
    ASSUME RoutingInv, LedgerHolds, LedgerHolds', UsesInv, CoverInv, NEW a \in Attempts,
           Settle(a)
    PROVE  CoverInv'
<1>0. PICK k \in Pools : k = att[a].key
  BY SettleEffect
<1>1. /\ att \in [Attempts -> AttemptRecord] /\ remaining' = remaining /\ tainted' = tainted
      /\ att' = [att EXCEPT ![a] = Finished(a)] /\ Moves(att[a], Finished(a))
      /\ att[a].source = "redis" /\ att[a].at = "settling" /\ Finished(a).at = "done"
  BY SettleEffect, FinishedMoves DEF RoutingInv, UsesInv, Uses, Finished, NewAttempt
<1>2. /\ credits \in [Pools -> Nat] /\ reserved \in [Pools -> Nat]
      /\ members \in [Pools -> SUBSET Attempts]
      /\ credits' \in [Pools -> Nat]
  <2>1. Ledger!TypeOK /\ Ledger!TypeOK'
    BY LedgerFacts, LedgerTypesNext
  <2>2. QED
    BY <2>1 DEF Ledger!TypeOK
<1>3. ASSUME NEW b \in Attempts
      PROVE  /\ att'[b].cost = att[b].cost /\ att[b].cost \in Int
             /\ CostOf(att'[b]) = CostOf(att[b])
             /\ \A q \in Pools : UnderWay(b, q)' => UnderWay(b, q) /\ b # a
  <2>1. att[b].cost \in Int
    BY <1>0, CoverTypes
  <2>2. CASE b = a
    BY <1>1, <2>1, <2>2 DEF Moves, UnderWay
  <2>3. CASE b # a
    BY <1>1, <2>1, <2>3 DEF UnderWay
  <2>4. QED
    BY <2>2, <2>3
<1>4. ASSUME NEW q \in Pools,
             credits'[q] = credits[q] /\ reserved'[q] = reserved[q] /\ members'[q] = members[q]
      PROVE  Within(q)' /\ Covered(q)'
  <2>1. remaining[q] \in Int
    BY CoverTypes
  <2>2. QED
    BY <1>1, <1>3, <1>4, <2>1, CoverStays DEF CoverInv
<1>5. CASE UNCHANGED ledgerVars
  BY <1>4, <1>5 DEF ledgerVars, CoverInv
<1>6. ASSUME NEW c,
             holder[a] = k, Ledger!Close(k, a), credits' = [credits EXCEPT ![k] = c],
             ~Ledger!Open(a) => c <= credits[k],
             Ledger!Open(a) /\ att[a].cost <= Amount => c <= credits[k] + Amount - att[a].cost
      PROVE  CoverInv'
  <2>1. /\ reserved' = IF Ledger!Open(a) THEN [reserved EXCEPT ![k] = @ - Amount] ELSE reserved
        /\ members' = IF Ledger!Open(a) THEN [members EXCEPT ![k] = @ \ {a}] ELSE members
    BY <1>6 DEF Ledger!Close
  <2>2. ASSUME NEW q \in Pools, q # k
        PROVE  Within(q)' /\ Covered(q)'
    BY <1>2, <1>4, <1>6, <2>1, <2>2
  <2>3. c \in Nat /\ credits'[k] = c
    BY <1>2, <1>6
  <2>4. CASE ~Ledger!Open(a)
    <3>1. reserved'[k] = reserved[k] /\ members'[k] = members[k] /\ c <= credits[k]
      BY <1>6, <2>1, <2>4
    <3>2. Consumed(members[k])' = Consumed(members[k])
      BY <1>2, <1>3, <3>1, ConsumedSame DEF Consumed
    <3>3. Within(k)'
      <4>1. SUFFICES ASSUME ~tainted'[k], \A b \in Attempts : att'[b].cost <= Amount
                     PROVE  credits'[k] + reserved'[k]
                              <= remaining'[k] + Consumed(members[k])'
        BY <3>1 DEF Within, Consumed
      <4>2. credits[k] + reserved[k] <= remaining[k] + Consumed(members[k])
        BY <1>1, <1>3, <4>1 DEF CoverInv, Within
      <4>3. QED
        BY <1>1, <2>3, <3>1, <3>2, <4>2, CoverTypes
    <3>4. Covered(k)'
      <4>1. credits[k] = 0 => credits'[k] = 0
        BY <2>3, <3>1
      <4>2. QED
        BY <1>1, <1>3, <3>1, <4>1 DEF CoverInv, Covered
    <3>5. QED
      BY <2>2, <3>3, <3>4 DEF CoverInv
  <2>5. CASE Ledger!Open(a)
    <3>1. /\ reserved'[k] = reserved[k] - Amount /\ members'[k] = members[k] \ {a}
          /\ att[a].cost <= Amount => c <= credits[k] + Amount - att[a].cost
      BY <1>2, <1>6, <2>1, <2>5
    <3>2. a \in members[k]
      BY <1>6, <2>5, LedgerFacts DEF Ledger!IndexSound
    <3>3. /\ Consumed(members[k]) = att[a].cost + Consumed(members[k] \ {a})
          /\ Consumed(members[k] \ {a}) \in Nat
      <4>1. members[k] \in SUBSET Attempts /\ members[k] \ {a} \in SUBSET Attempts
        BY <1>2
      <4>2. /\ IsFiniteSet(members[k]) /\ \A b \in members[k] : Costs[b] \in Int
            /\ Costs[a] = att[a].cost
        BY <1>1, <4>1, ConsumedType DEF CostOf
      <4> HIDE DEF Costs
      <4>3. SumFunctionOnSet(Costs, members[k])
              = Costs[a] + SumFunctionOnSet(Costs, members[k] \ {a})
        BY <3>2, <4>2, SumRemove
      <4>4. QED
        BY <4>1, <4>2, <4>3, ConsumedType DEF Consumed
    <3>4. Consumed(members[k])' = Consumed(members[k] \ {a})
      <4>1. \A b \in members[k] \ {a} : CostOf(att'[b]) = CostOf(att[b])
        BY <1>2, <1>3
      <4>2. members[k] \ {a} \in SUBSET Attempts
        BY <1>2
      <4>3. QED
        BY <3>1, <4>1, <4>2, ConsumedSame DEF Consumed
    <3>5. Within(k)'
      <4>1. SUFFICES ASSUME ~tainted'[k], \A b \in Attempts : att'[b].cost <= Amount
                     PROVE  credits'[k] + reserved'[k]
                              <= remaining'[k] + Consumed(members[k])'
        BY <3>1 DEF Within, Consumed
      <4>2. credits[k] + reserved[k] <= remaining[k] + Consumed(members[k])
        BY <1>1, <1>3, <4>1 DEF CoverInv, Within
      <4>3. c <= credits[k] + Amount - att[a].cost
        BY <1>3, <3>1, <4>1
      <4>4. c + reserved[k] - Amount <= remaining[k] + Consumed(members[k] \ {a})
        BY <2>3, <3>3, <4>2, <4>3, <1>3, CoverTypes
      <4>5. QED
        BY <1>1, <1>2, <2>3, <3>1, <3>4, <4>4, CoverTypes
    <3>6. Covered(k)'
      BY <1>1, <1>3, <3>1, <3>2 DEF CoverInv, Covered
    <3>7. QED
      BY <2>2, <3>5, <3>6 DEF CoverInv
  <2>6. QED
    BY <2>4, <2>5
<1>7. QED
  BY <1>0, <1>5, <1>6, SettleEffect

(* Tickets and sequences are numbers. *)
LEMMA UsesType == ASSUME LedgerHolds, UsesInv, RoutingInv
                  PROVE  /\ ticket \in [Attempts -> Nat]
                         /\ \A f \in Refreshes : Ledger!Running(f) => refresh[f].sequence \in Nat
  BY LedgerFacts DEF Ledger!TypeOK, Ledger!RefreshRecord, Ledger!Running

(* The heart of the argument: when a reconcile is not blind, each          *)
(* reserved attempt that was charged after the reading, or is yet to be,   *)
(* keeps its reservation. Otherwise it was captured, so it is of this      *)
(* pool and was answered before the reading.                               *)
LEMMA KeptAccountsForAll ==
    ASSUME RoutingInv, LedgerHolds, UsesInv, ReadInv, NEW f \in Refreshes,
           Ledger!Running(f), fetch[f].at = "read", refresh[f].epoch = losses,
           NEW kept, kept = Ledger!Pending(f[2], refresh[f].sequence),
           \A b \in fetch[f].since : att[b].source # "local",
           NEW b \in Attempts, b \in fetch[f].since \/ UnderWay(b, f[2]),
           b \notin kept => b \notin fetch[f].seen /\ Ledger!Open(b)
    PROVE  b \in kept
<1>1. SUFFICES ASSUME b \notin kept
               PROVE  FALSE
  OBVIOUS
<1>2. b \notin fetch[f].seen /\ Ledger!Open(b)
  BY <1>1
<1>3. ReadHolds(f) /\ Uses(att[b], holder[b]) /\ f[2] \in Pools /\ refresh[f].pool = f[2]
  BY DEF ReadInv, UsesInv, Refreshes
<1>4. b \in fetch[f].since => Since(f, b)
  BY <1>3 DEF ReadHolds
<1>5. att[b].source = "redis"
  BY <1>4 DEF Since, UnderWay
<1>6. holder[b] \in {f[2], Answered}
  BY <1>3, <1>4, <1>5 DEF Since, UnderWay, Uses
<1>7. holder[b] = f[2]
  BY <1>2, <1>6 DEF UsesInv, Ledger!Open
<1>8. b \in members[f[2]]
  BY <1>2, <1>3, <1>7, LedgerFacts DEF Ledger!IndexSound
<1>9. ticket[b] <= refresh[f].sequence
  BY <1>1, <1>2, <1>8, UsesType DEF Ledger!Pending
<1>10. b \in refresh[f].known
  BY <1>2, <1>3, <1>8, <1>9, LedgerFacts DEF Ledger!FenceSound
<1>11. att[b].at \in AfterCall /\ b \notin fetch[f].since
  BY <1>2, <1>3, <1>5, <1>10 DEF ReadHolds, Knows
<1>12. QED
  BY <1>11 DEF UnderWay, AfterCall

(* A reconcile replaces the credits by the reading less the kept           *)
(* promises.                                                               *)
LEMMA RefreshCover ==
    ASSUME RoutingInv, LedgerHolds, LedgerHolds', UsesInv, ReadInv, LocalTypes, CoverInv,
           NEW i \in Instances, NEW k \in Pools,
           \/ StartRefresh(i, k)
           \/ ReadProvider(i, k)
           \/ ReadFails(i, k)
           \/ RunReconcile(i, k)
           \/ FinishRefresh(i, k)
    PROVE  CoverInv'
<1> DEFINE f == <<i, k>>
<1>1. UNCHANGED <<att, remaining>>
  BY DEF StartRefresh, ReadProvider, ReadFails, RunReconcile, FinishRefresh, providerVars
<1>2. ASSUME NEW q \in Pools,
             /\ credits'[q] = credits[q] /\ reserved'[q] = reserved[q]
             /\ members'[q] = members[q] /\ tainted'[q] = tainted[q]
      PROVE  Within(q)' /\ Covered(q)'
  <2>1. remaining'[q] \in Int /\ remaining[q] <= remaining'[q]
    BY <1>1, CoverTypes
  <2>2. \A a \in Attempts :
              /\ UnderWay(a, q)' => UnderWay(a, q)
              /\ att'[a].cost \in Int /\ att[a].cost <= att'[a].cost
              /\ CostOf(att'[a]) = CostOf(att[a])
    BY <1>1, CoverTypes DEF UnderWay
  <2>3. QED
    BY <1>2, <2>1, <2>2, CoverStays DEF CoverInv
<1>3. CASE UNCHANGED <<credits, reserved, members, tainted>>
  BY <1>2, <1>3 DEF CoverInv
<1>4. ASSUME fetch[f].at = "read", Ledger!Running(f), Ledger!Reconcile(f, fetch[f].reading),
             tainted' = [tainted EXCEPT ![k] =
                           Blind(f, Ledger!Pending(k, refresh[f].sequence))]
      PROVE  CoverInv'
  <2>1. f \in Refreshes /\ f[2] = k /\ refresh[f].pool = k /\ fetch[f] \in FetchRecord
    BY <1>4 DEF Refreshes, UsesInv, RoutingInv
  <2>2. PICK kept : kept = Ledger!Pending(k, refresh[f].sequence)
    OBVIOUS
  <2>3. PICK reading : reading = fetch[f].reading
    OBVIOUS
  <2>4. PICK since : since = fetch[f].since
    OBVIOUS
  <2>5. reading \in Nat /\ since \in SUBSET Attempts
    BY <2>1, <2>3, <2>4, RoutingBounds DEF FetchRecord
  <2> DEFINE outstanding == Amount * Cardinality(kept)
  <2>6. /\ credits' = [credits EXCEPT ![k] = Ledger!AtLeastZero(reading - outstanding)]
        /\ reserved' = [reserved EXCEPT ![k] = outstanding]
        /\ members' = [members EXCEPT ![k] = kept]
        /\ tainted' = [tainted EXCEPT ![k] = Blind(f, kept)]
    BY <1>4, <2>1, <2>2, <2>3, SameSize DEF Ledger!Reconcile
  <2>7. /\ credits \in [Pools -> Nat] /\ reserved \in [Pools -> Nat]
        /\ members \in [Pools -> SUBSET Attempts]
        /\ reserved' \in [Pools -> Nat] /\ members' \in [Pools -> SUBSET Attempts]
    BY LedgerFacts, LedgerTypesNext DEF Ledger!TypeOK
  <2> HIDE DEF outstanding
  <2>8. ASSUME NEW q \in Pools, q # k
        PROVE  Within(q)' /\ Covered(q)'
    BY <1>2, <2>6, <2>7, <2>8 DEF LocalTypes
  <2>9. outstanding \in Nat /\ members'[k] = kept /\ reserved'[k] = outstanding
        /\ credits'[k] = Ledger!AtLeastZero(reading - outstanding)
        /\ kept \in SUBSET Attempts
    BY <2>6, <2>7
  <2>10. tainted'[k] = Blind(f, kept)
    BY <2>6 DEF LocalTypes
  <2>11. ASSUME ~tainted'[k]
         PROVE  /\ refresh[f].epoch = losses /\ outstanding <= reading
                /\ \A b \in since : att[b].source # "local"
                /\ \A b \in Attempts :
                      b \in since \/ UnderWay(b, k) => b \in kept
    <3>1. ~Blind(f, kept)
      BY <2>10, <2>11
    <3>2. /\ refresh[f].epoch = losses
          /\ ~(fetch[f].reading < Amount * Cardinality(kept))
          /\ \A b \in fetch[f].since : att[b].source # "local"
          /\ \A b \in Attempts \ kept : ~(/\ b \in fetch[f].seen \/ ~Ledger!Open(b)
                                          /\ b \in fetch[f].since \/ UnderWay(b, k))
      BY <2>1, <3>1 DEF Blind
    <3>3. outstanding <= reading
      BY <2>3, <2>5, <2>9, <3>2 DEF outstanding
    <3>4. ASSUME NEW b \in Attempts, b \in since \/ UnderWay(b, k)
          PROVE  b \in kept
      <4>1. b \notin kept => b \notin fetch[f].seen /\ Ledger!Open(b)
        BY <2>4, <3>2, <3>4
      <4>2. QED
        BY <1>4, <2>1, <2>2, <2>4, <3>2, <3>4, <4>1, KeptAccountsForAll
    <3>5. QED
      BY <2>4, <3>2, <3>3, <3>4
  <2>12. Covered(k)'
    <3>1. SUFFICES ASSUME ~tainted'[k], NEW b \in Attempts, UnderWay(b, k)'
                   PROVE  b \in members'[k]
      BY DEF Covered
    <3>2. UnderWay(b, k)
      BY <1>1, <3>1 DEF UnderWay
    <3>3. QED
      BY <2>9, <2>11, <3>1, <3>2
  <2>13. Within(k)'
    <3>1. SUFFICES ASSUME ~tainted'[k]
                   PROVE  credits'[k] + reserved'[k] <= remaining'[k] + Consumed(members[k])'
      BY DEF Within, Consumed
    <3>2. credits'[k] + reserved'[k] = reading
      BY <2>5, <2>9, <2>11, <3>1 DEF Ledger!AtLeastZero
    <3>3. reading <= remaining[k] + Consumed(since)
      <4>1. \A b \in since : att[b].source = "redis"
        BY <1>4, <2>1, <2>4, <2>11, <3>1 DEF ReadInv, ReadHolds, Since
      <4>2. QED
        BY <1>4, <2>1, <2>3, <2>4, <4>1 DEF ReadInv, ReadHolds
    <3>4. Consumed(since) <= Consumed(kept) /\ Consumed(since) \in Nat /\ Consumed(kept) \in Nat
      <4>1. since \in SUBSET kept
        BY <2>5, <2>11, <3>1
      <4>2. IsFiniteSet(kept) /\ \A b \in kept : Costs[b] \in Nat
        BY <2>9, ConsumedType
      <4>3. Consumed(since) \in Nat /\ Consumed(kept) \in Nat
        BY <2>5, <2>9, ConsumedType
      <4> HIDE DEF Costs
      <4>4. QED
        BY <4>1, <4>2, <4>3, SumMonotone DEF Consumed
    <3>5. Consumed(members[k])' = Consumed(kept)
      BY <1>1, <2>9, ConsumedSame DEF Consumed
    <3>6. QED
      BY <1>1, <2>5, <3>2, <3>3, <3>4, <3>5, CoverTypes
  <2>14. QED
    BY <2>8, <2>12, <2>13 DEF CoverInv
<1>5. QED
  <2>1. CASE StartRefresh(i, k) \/ ReadProvider(i, k) \/ ReadFails(i, k) \/ FinishRefresh(i, k)
    BY <1>3, <2>1 DEF StartRefresh, ReadProvider, ReadFails, FinishRefresh, ledgerVars,
                      providerVars, Ledger!Capture, Ledger!Abandon, Ledger!poolVars
  <2>2. CASE RunReconcile(i, k)
    BY <1>3, <1>4, <2>2 DEF RunReconcile, ledgerVars, Ledger!Abandon, Ledger!poolVars
  <2>3. QED
    BY <2>1, <2>2

(* Expiry, the clock, credits bought and the loss of all data. *)
LEMMA EnvironmentCover ==
    ASSUME RoutingInv, LedgerHolds, UsesInv, CoverInv,
           \/ LedgerEnvironment
           \/ \E i \in Instances : BreakerExpires(i)
           \/ \E k \in Pools : TopUp(k)
           \/ UNCHANGED vars
    PROVE  CoverInv'
<1>1. att' = att /\ tainted' = tainted
  BY DEF LedgerEnvironment, BreakerExpires, TopUp, vars, providerVars
<1>2. \A k \in Pools : remaining'[k] \in Int /\ remaining[k] <= remaining'[k]
  <2>1. CASE remaining' = remaining
    BY <2>1, RemainingStays
  <2>2. CASE \E k \in Pools : remaining' = [remaining EXCEPT ![k] = @ + 1]
    BY <2>2, RoutingBounds DEF RoutingInv
  <2>3. QED
    BY <2>1, <2>2 DEF LedgerEnvironment, BreakerExpires, TopUp, vars, providerVars
<1>3. CASE UNCHANGED <<credits, reserved, members>>
  <2>1. SUFFICES ASSUME NEW q \in Pools
                 PROVE  Within(q)' /\ Covered(q)'
    BY DEF CoverInv
  <2>2. \A a \in Attempts :
              /\ UnderWay(a, q)' => UnderWay(a, q)
              /\ att'[a].cost \in Int /\ att[a].cost <= att'[a].cost
              /\ CostOf(att'[a]) = CostOf(att[a])
    BY <1>1, CoverTypes DEF UnderWay
  <2>3. QED
    BY <1>1, <1>2, <1>3, <2>2, CoverStays DEF CoverInv
<1>4. CASE Ledger!LoseData /\ remaining' = remaining
  <2>1. SUFFICES ASSUME NEW q \in Pools
                 PROVE  Within(q)' /\ Covered(q)'
    BY DEF CoverInv
  <2>2. credits'[q] = 0 /\ reserved'[q] = 0 /\ members'[q] = {} /\ remaining'[q] \in Nat
    BY <1>4, CoverTypes DEF Ledger!LoseData
  <2>3. SumFunctionOnSet(Costs', {}) = 0
    BY SumEmpty
  <2>4. QED
    BY <2>2, <2>3 DEF Within, Covered, Consumed
<1>5. QED
  BY <1>3, <1>4 DEF LedgerEnvironment, BreakerExpires, TopUp, vars, ledgerVars, providerVars,
      Ledger!Environment, Ledger!Expire, Ledger!Tick, Ledger!poolVars

-----------------------------------------------------------------------------
(* All of it together, from the start and through every step. *)
LEMMA InitLocalTypes ==
    ASSUME Init
    PROVE  LocalTypes
  BY DEF Init, LocalTypes

LEMMA InitCover ==
    ASSUME Init, RoutingInv
    PROVE  CoverInv
<1> SUFFICES ASSUME NEW k \in Pools
             PROVE  Within(k) /\ Covered(k)
  BY DEF CoverInv
<1>1. credits[k] = 0 /\ reserved[k] = 0 /\ members[k] = {} /\ remaining[k] \in Nat
  BY RoutingBounds DEF Init, Ledger!Init, RoutingInv
<1>2. Consumed(members[k]) = 0
  BY <1>1, SumEmpty DEF Consumed
<1>3. QED
  BY <1>1, <1>2 DEF Within, Covered

LEMMA StepCover ==
    ASSUME RoutingInv, LedgerHolds, UsesInv, ReadInv, LocalTypes, CoverInv,
           RoutingInv', LedgerHolds', [Next]_vars
    PROVE  CoverInv'
<1>1. ASSUME NEW a \in Attempts,
             \/ \E i \in Instances, keys \in SUBSET Pools : Ask(a, i, keys)
             \/ ScriptDeclines(a)
             \/ Continue(a)
             \/ Record(a)
      PROVE  CoverInv'
  BY <1>1, QuietCover
<1>2. ASSUME NEW a \in Attempts, NEW k \in Pools,
             ScriptReserves(a, k) \/ QueuedScriptReserves(a, k)
      PROVE  CoverInv'
  BY <1>2, ReserveCover
<1>3. ASSUME NEW a \in Attempts, NEW answer \in {"ok", "other", "402", "429", "401"},
             NEW cost \in 0..MaxActual, Provide(a, answer, cost)
      PROVE  CoverInv'
  BY <1>3, ProvideCover
<1>4. ASSUME NEW a \in Attempts, Settle(a)
      PROVE  CoverInv'
  BY <1>4, SettleCover
<1>5. ASSUME NEW i \in Instances, NEW k \in Pools,
             \/ StartRefresh(i, k)
             \/ ReadProvider(i, k)
             \/ ReadFails(i, k)
             \/ RunReconcile(i, k)
             \/ FinishRefresh(i, k)
      PROVE  CoverInv'
  BY <1>5, RefreshCover
<1>6. QED
  BY <1>1, <1>2, <1>3, <1>4, <1>5, EnvironmentCover DEF Next

SystemInv == RoutingInv /\ LedgerHolds /\ LocalTypes /\ UsesInv /\ ReadInv /\ CoverInv

(* The invariant of the whole system. *)
LEMMA SystemInvariant == Spec => []SystemInv
<1>1. Init => SystemInv
  BY InitRouting, InitLedgerHolds, InitLocalTypes, InitUses, InitReads, InitCover DEF SystemInv
<1>2. SystemInv /\ [Next]_vars => SystemInv'
  <2>1. SUFFICES ASSUME RoutingInv, LedgerHolds, LocalTypes, UsesInv, ReadInv, CoverInv,
                        [Next]_vars
                 PROVE  SystemInv'
    BY DEF SystemInv
  <2>2. RoutingInv' /\ LedgerHolds' /\ LocalTypes'
    BY <2>1, StepRouting, StepLedgerHolds, StepLocalTypes
  <2>3. UsesInv' /\ ReadInv'
    BY <2>1, StepUses, StepReads
  <2>4. CoverInv'
    BY <2>1, <2>2, StepCover
  <2>5. QED
    BY <2>2, <2>3, <2>4 DEF SystemInv
<1>3. QED
  BY <1>1, <1>2, PTL DEF Spec

(* The state of the gateways, of the provider and of the ledger they       *)
(* share keeps its types: an attempt that uses a key has one.              *)
THEOREM RoutingTypeCorrect == Spec => []TypeOK
<1>1. SystemInv => TypeOK
  <2>1. SUFFICES ASSUME SystemInv
                 PROVE  TypeOK
    OBVIOUS
  <2>2. Ledger!TypeOK /\ LocalTypes /\ RoutingInv
    BY <2>1, LedgerFacts DEF SystemInv
  <2>3. ASSUME NEW a \in Attempts
        PROVE  /\ att[a].at \in {"idle", "asking", "told", "sent", "answered", "settling", "done"}
               /\ att[a].key \in Pools \cup {NoKey}
               /\ att[a].at \in {"sent", "answered", "settling"} => att[a].key \in Pools
               /\ att[a].cost \in 0..MaxActual
    BY <2>2 DEF RoutingInv, AttemptRecord, CarriesOn
  <2>4. ASSUME NEW f \in Refreshes
        PROVE  /\ fetch[f].at \in {"none", "reading", "read", "reconciled"}
               /\ fetch[f].reading \in 0..MaxReading
    BY <2>2 DEF RoutingInv, FetchRecord
  <2>5. remaining \in [Pools -> Nat]
    BY <2>2, RoutingBounds DEF RoutingInv
  <2>6. QED
    BY <2>2, <2>3, <2>4, <2>5 DEF TypeOK, LocalTypes
<1>2. QED
  BY <1>1, SystemInvariant, PTL

(* The gateways use the ledger as its model takes for granted: a fresh     *)
(* key for every reservation, a settlement only for a reservation still    *)
(* held and for its own pool, a captured sequence only while its reading   *)
(* is under way.                                                           *)
THEOREM LedgerIsUsedOnce == Spec => []LedgerUsedOnce
<1>1. SystemInv => LedgerUsedOnce
  BY UsesGiveLedgerUsedOnce DEF SystemInv
<1>2. QED
  BY <1>1, SystemInvariant, PTL

(* The ledger never promises credits the provider does not have, with any  *)
(* number of instances, keys and attempts, however their awaits            *)
(* interleave, commands are lost or run late, hashes expire and Redis      *)
(* restarts: apart from the exceptions the history variable lists.         *)
THEOREM LedgerStaysWithinProvider == Spec => []LedgerWithinProvider
<1>1. SystemInv => LedgerWithinProvider
  BY DEF SystemInv, CoverInv, Within, LedgerWithinProvider
<1>2. QED
  BY <1>1, SystemInvariant, PTL

-----------------------------------------------------------------------------
(***************************************************************************)
(* What the ledger promises its callers holds, then, in the system that    *)
(* the gateways make of it.                                                *)
(***************************************************************************)
(* The steps of the system are steps of the ledger whose proofs these are. *)
LEMMA RunsProvedLedger == Spec => Proved!Spec
<1>1. Init => Proved!Init
  BY SameInit DEF Init
<1>2. SystemInv /\ [Next]_vars => [Proved!Next]_(Proved!vars)
  BY LedgerStep, SameStep DEF SystemInv
<1>3. QED
  BY <1>1, <1>2, SystemInvariant, PTL DEF Spec, Proved!Spec

(* In the whole system hashes, index and counters of the ledger agree, and *)
(* the captured sequence tells old reservations from new ones, whatever    *)
(* the gateways, the network and Redis do between the scripts.             *)
THEOREM LedgerStaysSound ==
    Spec => [](Ledger!IndexSound /\ Ledger!ReservedMatchesIndex /\ Ledger!FenceSound)
<1>1. SystemInv => Ledger!IndexSound /\ Ledger!ReservedMatchesIndex /\ Ledger!FenceSound
  BY LedgerFacts DEF SystemInv
<1>2. QED
  BY <1>1, SystemInvariant, PTL

(* A refresh of the gateways never forgets a promise made after it began,  *)
(* though another instance, or a cron run, refreshes and settles meanwhile. *)
THEOREM GatewaysKeepNewerReservations == Spec => Ledger!NewerReservationsKept
<1> DEFINE Kept ==
      \A f \in Refreshes :
         Ledger!Running(f) /\ ~Ledger!Running(f)' /\ refresh[f].epoch = losses =>
            \A r \in members[refresh[f].pool] \ refresh[f].known :
                Ledger!Open(r) => Ledger!Open(r)' /\ r \in members'[refresh[f].pool]
           Kept0 ==
      \A f \in Refreshes :
         Proved!Running(f) /\ ~Proved!Running(f)' /\ refresh[f].epoch = losses =>
            \A r \in members[refresh[f].pool] \ refresh[f].known :
                Proved!Open(r) => Proved!Open(r)' /\ r \in members'[refresh[f].pool]
<1>1. Proved!Spec => Proved!NewerReservationsKept
  BY Proved!NewerKept, AttemptsFinite, RoutingBounds, RoutingAmount, RoutingHolders
<1>2. [Kept0]_(Proved!vars) => [Kept]_(Ledger!vars)
  BY DEF Proved!vars, Ledger!vars, Proved!poolVars, Ledger!poolVars, Proved!Running,
         Ledger!Running, Proved!Idle, Ledger!Idle, Proved!Open, Ledger!Open
<1>3. QED
  BY <1>1, <1>2, RunsProvedLedger, PTL
     DEF Proved!NewerReservationsKept, Ledger!NewerReservationsKept

(* A cooldown that some instance has written is not cut short by another   *)
(* instance's answers or refreshes, whichever of them comes last.          *)
THEOREM GatewaysKeepCooldowns == Spec => Ledger!CooldownNeverShortened
<1> DEFINE Kept ==
      \A p \in Pools :
         cooldownUntil[p] > now /\ losses' = losses =>
            \/ cooldownUntil'[p] >= cooldownUntil[p]
            \/ (disabled'[p] /\ UNCHANGED refresh)
<1>1. Proved!Spec => Proved!CooldownNeverShortened
  BY Proved!CooldownKept, AttemptsFinite, RoutingBounds, RoutingAmount, RoutingHolders
<1>2. [Kept]_(Proved!vars) => [Kept]_(Ledger!vars)
  BY DEF Proved!vars, Ledger!vars, Proved!poolVars, Ledger!poolVars
<1>3. QED
  BY <1>1, <1>2, RunsProvedLedger, PTL
     DEF Proved!CooldownNeverShortened, Ledger!CooldownNeverShortened

(* The gateways, with all that may go wrong between them and Redis,        *)
(* implement the credit budget: only a reading of the provider's counter   *)
(* adds to what a key may promise and has promised.                        *)
THEOREM GatewaysImplementBudget == Spec => Ledger!ImplementsBudget
<1>1. Proved!Spec => Proved!ImplementsBudget
  BY Proved!LedgerImplementsBudget, AttemptsFinite, RoutingBounds, RoutingAmount, RoutingHolders
<1>2. Proved!Budget!Init => Ledger!Budget!Init
  BY DEF Proved!Budget!Init, Ledger!Budget!Init
<1>3. [Proved!Budget!Next]_(Proved!Budget!vars) => [Ledger!Budget!Next]_(Ledger!Budget!vars)
  BY DEF Proved!Budget!Next, Ledger!Budget!Next, Proved!Budget!vars, Ledger!Budget!vars,
         Proved!Budget!Hold, Ledger!Budget!Hold, Proved!Budget!Resolve, Ledger!Budget!Resolve,
         Proved!Budget!Withdraw, Ledger!Budget!Withdraw, Proved!Budget!Refill,
         Ledger!Budget!Refill, Proved!Budget!Wipe, Ledger!Budget!Wipe,
         Proved!Budget!Elsewhere, Ledger!Budget!Elsewhere
<1>4. QED
  BY <1>1, <1>2, <1>3, RunsProvedLedger, PTL
     DEF Proved!ImplementsBudget, Ledger!ImplementsBudget, Proved!Budget!Spec, Ledger!Budget!Spec
=============================================================================
