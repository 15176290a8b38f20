---------------------------- MODULE ProxyFlowProofs ----------------------------
(***************************************************************************)
(* Machine-checked proofs about one proxied request, for any finite set of *)
(* Cloud keys and any course of the upstreams.  The invariant says, phase  *)
(* by phase of handle(), what the loop's counters, the timers and the      *)
(* attempts on the keys have to do with each other.  The second half is    *)
(* about the scanner that reads the credits an answer has used as its      *)
(* bytes pass to the client: it finds exactly metadata.creditsUsed.        *)
(***************************************************************************)
EXTENDS ProxyFlow, CreditsScanner, FiniteSetTheorems, SequenceTheorems, TLAPS

Fresh == {"settings", "auth", "body", "backend"}
OnCloud == {"cloud", "record", "attempted"}
Looping == OnCloud \cup {"reserve", "quota"}
Answering == {"send", "streaming", "sent", "rejecting", "done"}

(* The route mode admits Cloud, or the self-hosted instance, at some point. *)
CloudAllowed ==
    \/ ChooseInitialBackend = "cloud"
    \/ ChooseInitialBackend = "self-hosted" /\ IsFallbackAllowed
SelfHostedAllowed == ChooseInitialBackend = "self-hosted" \/ IsCloudQuotaFallbackAllowed

(* The keys whose answer the loop has counted: all but the one in hand. *)
Counted == IF pc \in OnCloud THEN tried \ {key} ELSE tried
Exhausted(S) == {k \in S : answers[k] \in Capacity}

Results ==
    [backend : {"none", "cloud", "self-hosted"},
     outcome : Outcomes \cup {"none", "409", "413", "400", "500", "502"},
     call : Nat, stream : BOOLEAN, observed : BOOLEAN]

FlowTypes ==
    /\ req \in Requests
    /\ pc \in Fresh \cup Looping \cup Answering \cup {"self-hosted"}
    /\ asking \in {"none", "first", "fallback", "retry", "initial", "no-pool", "quota"}
    /\ selfHosted \in BOOLEAN /\ fallbackUsed \in BOOLEAN
    /\ keys \subseteq Keys /\ tried \subseteq keys
    /\ key \in Keys \cup {NoKey}
    /\ result \in Results /\ result.call <= calls
    /\ attempts \in Nat /\ quotaAttempts \in Nat /\ quotaAttempts <= attempts
    /\ attempts <= Cardinality(tried)
    /\ calls \in Nat
    /\ armed \subseteq 1..calls /\ streams \subseteq 1..calls
    /\ audit \in {"none", "writing", "settled"}
    /\ recorded \in [Keys -> Nat]
    /\ answers \in [Keys -> Outcomes \cup {"none"}]
    /\ contacted \subseteq {"cloud", "self-hosted"}

(* Why proxyCloud() was called, and what that says of the request's mode. *)
Phases ==
    /\ pc \in Fresh => tried = {} /\ contacted = {} /\ attempts = 0
    /\ pc \in Looping => asking \in {"first", "fallback", "retry"}
    /\ pc = "quota" => asking = "retry"
    /\ pc = "reserve" /\ asking \in {"first", "fallback"} => tried = {}
    /\ pc \in OnCloud /\ asking \in {"first", "fallback"} => tried = {key}
    /\ pc \in OnCloud => key \in tried
    /\ pc \in {"reserve", "quota"} /\ asking = "retry" => key \in tried
    /\ pc = "self-hosted" => asking \in {"initial", "no-pool", "quota"}
    /\ pc = "self-hosted" /\ asking = "initial" => tried = {}
    /\ asking = "initial" => ChooseInitialBackend = "self-hosted"
    /\ asking = "fallback" => ChooseInitialBackend = "self-hosted"
    /\ asking = "first" => ChooseInitialBackend = "cloud" /\ "self-hosted" \notin contacted

Routed ==
    /\ pc \in Looping => CloudAllowed
    /\ "cloud" \in contacted => CloudAllowed
    /\ "self-hosted" \in contacted => SelfHostedAllowed
    /\ pc \in Looping /\ "self-hosted" \in contacted => ChooseInitialBackend = "self-hosted"

(* attempts and quotaAttempts count the keys of the loop and, of them, the *)
(* ones without capacity; what the loop leaves behind is the last answer.  *)
Counters ==
    /\ pc \in Looping => attempts = Cardinality(Counted)
    /\ pc \in Looping => quotaAttempts = Cardinality(Exhausted(Counted))
    /\ pc \in {"reserve", "quota"} /\ asking = "retry" => result.outcome = answers[key]

QuotaKept ==
    req.mode = "cloud-first" =>
        /\ "self-hosted" \in contacted => Exhausted(tried) = tried
        /\ pc \in Answering /\ tried # {} /\ ~req.needsCloud =>
              \/ result.backend = "self-hosted"
              \/ Exhausted(tried) # tried

(* Each key's attempt: untouched, in the air, answered, settled. *)
Settled ==
    /\ \A k \in Keys : /\ k \notin tried => answers[k] = "none"
                       /\ answers[k] \in Retryable /\ (k = key => pc # "record") => recorded[k] = 1
                       /\ recorded[k] # 0 => recorded[k] = 1 /\ answers[k] \in Retryable \cup {"ok"}
    /\ pc = "cloud" => answers[key] = "none"
    /\ pc \in {"record", "attempted"} => answers[key] = result.outcome
    /\ pc = "record" => recorded[key] = 0
    /\ result.observed => /\ result.outcome = "ok" /\ pc # "reserve"
                          /\ key \in tried /\ answers[key] = "ok" /\ recorded[key] = 0

Timers ==
    /\ result.stream => result.outcome = "ok"
    /\ result.observed => result.stream
    /\ pc \in Fresh \cup {"reserve"} => armed = {} /\ streams = {} /\ ~result.stream
    /\ pc \in {"cloud", "self-hosted"} => armed = {calls} /\ streams = {}
    /\ pc \in {"record", "attempted", "quota", "send", "streaming"} =>
          armed = streams /\ streams = IF result.stream THEN {result.call} ELSE {}
    /\ pc = "streaming" => result.stream
    /\ pc \in {"sent", "rejecting", "done"} => armed = {}
    /\ streams \subseteq {result.call}

FlowInv ==
    /\ FlowTypes
    /\ Phases
    /\ Routed
    /\ Counters
    /\ QuotaKept
    /\ EachBackendOnce
    /\ Settled
    /\ Timers

-----------------------------------------------------------------------------
(* What does not change with the request. *)
LEMMA SameRoute ==
    ASSUME req' = req
    PROVE  /\ ChooseInitialBackend' = ChooseInitialBackend
           /\ IsFallbackAllowed' = IsFallbackAllowed
           /\ IsCloudQuotaFallbackAllowed' = IsCloudQuotaFallbackAllowed
           /\ CloudAllowed' = CloudAllowed
           /\ SelfHostedAllowed' = SelfHostedAllowed
  BY 
     DEF ChooseInitialBackend, IsFallbackAllowed, IsCloudQuotaFallbackAllowed, CloudAllowed,
         SelfHostedAllowed

LEMMA RouteFacts ==
    /\ req.mode = "cloud-first" => ChooseInitialBackend = "cloud"
    /\ IsCloudQuotaFallbackAllowed => req.mode = "cloud-first" /\ ~req.needsCloud
    /\ IsFallbackAllowed => req.mode = "self-hosted-first" /\ ~req.private
  BY DEF ChooseInitialBackend, IsFallbackAllowed, IsCloudQuotaFallbackAllowed

LEMMA ModeKnown ==
    ASSUME FlowTypes
    PROVE  req.mode \in Modes
<1>1. RouteModes \subseteq Modes
  BY DEF RouteModes, RouteMode, Modes
<1>2. req.mode \in RouteModes
  BY DEF FlowTypes, Requests
<1>3. QED
  BY <1>1, <1>2

LEMMA TriedFinite ==
    ASSUME FlowTypes
    PROVE  /\ IsFiniteSet(tried) /\ Cardinality(tried) \in Nat
           /\ \A k \in tried : /\ Cardinality(tried \ {k}) = Cardinality(tried) - 1
                              /\ IsFiniteSet(tried \ {k})
           /\ \A k : k \notin tried => Cardinality(tried \cup {k}) = Cardinality(tried) + 1
           /\ (tried \in SUBSET Keys) /\ Cardinality(tried) <= Cardinality(Keys)
           /\ tried # {} => Cardinality(tried) >= 1
<1>1. tried \in SUBSET Keys
  BY DEF FlowTypes
<1>2. IsFiniteSet(tried) /\ Cardinality(tried) <= Cardinality(Keys)
  BY <1>1, FlowKeys, FS_Subset
<1>3. QED
  BY <1>1, <1>2, FS_CardinalityType, FS_RemoveElement, FS_AddElement, FS_EmptySet

(* A rejection made up on the spot. *)
LEMMA RejectFacts ==
    ASSUME NEW backend \in {"none", "cloud"},
           NEW status \in {"401", "413", "400", "502", "409", "429"},
           Reject(backend, status)
    PROVE  /\ pc' = "rejecting" /\ audit' = "writing"
           /\ result' \in Results /\ result'.backend = backend /\ result'.outcome = status
           /\ result'.call = 0 /\ result'.stream = FALSE /\ result'.observed = FALSE
<1>1. result' = [backend |-> backend, outcome |-> status, call |-> 0, stream |-> FALSE,
                 observed |-> FALSE]
  BY DEF Reject, NoResult
<1>2. status \in Outcomes \cup {"none", "409", "413", "400", "500", "502"}
  BY DEF Outcomes
<1>3. result' \in Results
  BY <1>1, <1>2 DEF Results
<1>4. result'.stream = FALSE /\ result'.observed = FALSE
  BY <1>1, Zenon
<1>5. result'.backend = backend /\ result'.outcome = status /\ result'.call = 0
  BY <1>1
<1>6. QED
  BY <1>3, <1>4, <1>5 DEF Reject

(* Rejecting a request that has not reached an upstream. *)
LEMMA RejectStep ==
    ASSUME FlowInv, NEW backend \in {"none", "cloud"},
           NEW status \in {"401", "413", "400", "502", "409", "429"}, Reject(backend, status),
           pc \in Fresh \cup {"reserve"}, tried = {}, keys' \subseteq Keys,
           UNCHANGED <<req, asking, selfHosted, tried, key, attempts, quotaAttempts, fallbackUsed,
                       armed, streams, calls, recorded, answers, contacted>>
    PROVE  FlowInv'
<1> USE DEF FlowInv, Fresh, OnCloud, Looping, Answering
<1>r. /\ pc' = "rejecting" /\ audit' = "writing"
      /\ result' \in Results /\ result'.backend = backend /\ result'.outcome = status
      /\ result'.call = 0 /\ result'.stream = FALSE /\ result'.observed = FALSE
  BY RejectFacts
<1>1. FlowTypes'
  BY <1>r DEF FlowTypes
<1>2. Phases'
  BY SameRoute, <1>r DEF Phases
<1>3. Routed'
  BY SameRoute, <1>r DEF Routed
<1>4. Counters'
  BY <1>r DEF Counters
<1>5. QuotaKept'
  BY <1>r DEF Exhausted, QuotaKept
<1>6. EachBackendOnce'
  BY <1>r DEF EachBackendOnce
<1>7. Settled'
  BY <1>r DEF Settled
<1>8. Timers'
  BY <1>r DEF Timers
<1>9. QED
  BY <1>1, <1>2, <1>3, <1>4, <1>5, <1>6, <1>7, <1>8

(* Calling the self-hosted instance, for whichever reason. *)
LEMMA SelfHostedCalled ==
    ASSUME FlowInv, NEW why \in {"initial", "no-pool", "quota"}, CallSelfHosted(why),
           pc \in Fresh \cup {"reserve", "quota"}, "self-hosted" \notin contacted,
           SelfHostedAllowed, armed = {}, streams = {},
           why = "initial" => tried = {} /\ ChooseInitialBackend = "self-hosted",
           req.mode = "cloud-first" => Exhausted(tried) = tried,
           keys' \subseteq Keys, tried \subseteq keys', fallbackUsed' \in BOOLEAN,
           UNCHANGED <<req, selfHosted, tried, key, result, attempts, quotaAttempts, streams,
                       audit, recorded, answers>>
    PROVE  FlowInv'
<1> USE DEF FlowInv, Fresh, OnCloud, Looping, Answering
<1>1. FlowTypes'
  <2>1. calls' = calls + 1 /\ calls \in Nat /\ calls' \in Nat
    BY DEF CallSelfHosted, Call, FlowTypes
  <2>2. armed' \subseteq 1..calls' /\ streams' \subseteq 1..calls' /\ result.call <= calls'
    BY <2>1 DEF CallSelfHosted, Call, FlowTypes, Results
  <2>3. QED
    BY <2>1, <2>2 DEF CallSelfHosted, Call, FlowTypes
<1>2. Phases'
  BY SameRoute DEF CallSelfHosted, Phases
<1>3. Routed'
  BY SameRoute DEF CallSelfHosted, Call, Routed
<1>4. Counters'
  BY DEF CallSelfHosted, Counters
<1>5. QuotaKept'
  BY DEF CallSelfHosted, Exhausted, QuotaKept
<1>6. EachBackendOnce'
  BY TriedFinite DEF CallSelfHosted, Call, One, EachBackendOnce
<1>7. Settled'
  BY DEF CallSelfHosted, Settled
<1>8. Timers'
  BY DEF CallSelfHosted, Call, Timers
<1>9. QED
  BY <1>1, <1>2, <1>3, <1>4, <1>5, <1>6, <1>7, <1>8

LEMMA LoadSettingsStep ==
    ASSUME FlowInv, LoadSettings
    PROVE  FlowInv'
<1> USE DEF FlowInv, Fresh, OnCloud, Looping, Answering
<1>1. FlowTypes'
  BY DEF LoadSettings, sideVars, FlowTypes
<1>2. Phases'
  BY SameRoute DEF LoadSettings, sideVars, Phases
<1>3. Routed'
  BY SameRoute DEF LoadSettings, sideVars, Routed
<1>4. Counters'
  BY DEF LoadSettings, Counters
<1>5. QuotaKept'
  BY DEF LoadSettings, sideVars, Exhausted, QuotaKept
<1>6. EachBackendOnce'
  BY DEF LoadSettings, sideVars, EachBackendOnce
<1>7. Settled'
  BY DEF LoadSettings, sideVars, Settled
<1>8. Timers'
  BY DEF LoadSettings, sideVars, Timers
<1>9. QED
  BY <1>1, <1>2, <1>3, <1>4, <1>5, <1>6, <1>7, <1>8

(* A request that ends before a backend is chosen. *)
LEMMA EndAtOnceStep ==
    ASSUME FlowInv, pc \in Fresh, NEW status \in {"400", "500"}, EndAtOnce(status)
    PROVE  FlowInv'
<1> USE DEF FlowInv, Fresh, OnCloud, Looping, Answering
<1>a. result' = [backend |-> "none", outcome |-> status, call |-> 0, stream |-> FALSE,
                 observed |-> FALSE]
  BY DEF EndAtOnce, NoResult
<1>b. /\ result' \in Results /\ result'.call = 0 /\ result'.stream = FALSE
      /\ result'.observed = FALSE
  BY <1>a DEF Results
<1>1. FlowTypes'
  BY <1>b DEF EndAtOnce, sideVars, FlowTypes
<1>2. Phases'
  BY SameRoute DEF EndAtOnce, sideVars, Phases
<1>3. Routed'
  BY SameRoute DEF EndAtOnce, sideVars, Routed
<1>4. Counters'
  BY DEF EndAtOnce, Counters
<1>5. QuotaKept'
  BY DEF EndAtOnce, sideVars, Phases, QuotaKept
<1>6. EachBackendOnce'
  BY DEF EndAtOnce, sideVars, EachBackendOnce
<1>7. Settled'
  BY <1>b DEF EndAtOnce, sideVars, Settled
<1>8. Timers'
  BY <1>b DEF EndAtOnce, sideVars, Timers
<1>9. QED
  BY <1>1, <1>2, <1>3, <1>4, <1>5, <1>6, <1>7, <1>8

LEMMA EndedAtOnce ==
    ASSUME FlowInv, RejectUrl \/ DatabaseFails
    PROVE  FlowInv'
  BY EndAtOnceStep DEF RejectUrl, DatabaseFails, Fresh

LEMMA AuthenticateStep ==
    ASSUME FlowInv, Authenticate
    PROVE  FlowInv'
<1> USE DEF FlowInv, Fresh, OnCloud, Looping, Answering
<1>a. CASE Reject("none", "401")
  BY <1>a, RejectStep DEF Authenticate, Phases, FlowTypes
<1>b. CASE pc' = "body" /\ UNCHANGED <<audit, result>>
  <2>1. FlowTypes'
    BY <1>b DEF Authenticate, FlowTypes
  <2>2. Phases'
    BY <1>b, SameRoute DEF Authenticate, Phases
  <2>3. Routed'
    BY <1>b, SameRoute DEF Authenticate, Routed
  <2>4. Counters'
    BY <1>b DEF Authenticate, Counters
  <2>5. QuotaKept'
    BY <1>b DEF Authenticate, Exhausted, QuotaKept
  <2>6. EachBackendOnce'
    BY DEF Authenticate, EachBackendOnce
  <2>7. Settled'
    BY <1>b DEF Authenticate, Settled
  <2>8. Timers'
    BY <1>b DEF Authenticate, Timers
  <2>9. QED
    BY <2>1, <2>2, <2>3, <2>4, <2>5, <2>6, <2>7, <2>8
<1>c. QED
  BY <1>a, <1>b DEF Authenticate

LEMMA InspectBodyStep ==
    ASSUME FlowInv, InspectBody
    PROVE  FlowInv'
<1> USE DEF FlowInv, Fresh, OnCloud, Looping, Answering
<1>a. CASE Reject("none", "413") \/ Reject("none", "400")
  BY <1>a, RejectStep DEF InspectBody, Phases, FlowTypes
<1>b. CASE pc' = "backend" /\ UNCHANGED <<audit, result>>
  <2>1. FlowTypes'
    BY <1>b DEF InspectBody, FlowTypes
  <2>2. Phases'
    BY <1>b, SameRoute DEF InspectBody, Phases
  <2>3. Routed'
    BY <1>b, SameRoute DEF InspectBody, Routed
  <2>4. Counters'
    BY <1>b DEF InspectBody, Counters
  <2>5. QuotaKept'
    BY <1>b DEF InspectBody, Exhausted, QuotaKept
  <2>6. EachBackendOnce'
    BY DEF InspectBody, EachBackendOnce
  <2>7. Settled'
    BY <1>b DEF InspectBody, Settled
  <2>8. Timers'
    BY <1>b DEF InspectBody, Timers
  <2>9. QED
    BY <2>1, <2>2, <2>3, <2>4, <2>5, <2>6, <2>7, <2>8
<1>c. QED
  BY <1>a, <1>b DEF InspectBody

LEMMA ChooseBackendStep ==
    ASSUME FlowInv, ChooseBackend
    PROVE  FlowInv'
<1> USE DEF FlowInv, Fresh, OnCloud, Looping, Answering
<1>k. keys' \subseteq Keys
  BY DEF ChooseBackend
<1>p. pc = "backend" /\ tried = {} /\ contacted = {} /\ armed = {} /\ streams = {}
  BY DEF ChooseBackend, Phases, Timers
<1>i. ChooseInitialBackend \in {"cloud", "self-hosted", "reject"}
  <2>1. req.mode \in Modes
    BY ModeKnown
  <2>2. CASE req.mode \in {"cloud-first", "cloud-only"}
    BY <2>2 DEF ChooseInitialBackend
  <2>3. CASE req.mode = "self-hosted-only"
    BY <2>3 DEF ChooseInitialBackend
  <2>4. CASE req.mode = "self-hosted-first"
    BY <2>4 DEF ChooseInitialBackend
  <2>5. QED
    BY <2>1, <2>2, <2>3, <2>4 DEF Modes
<1>a. CASE ChooseInitialBackend = "cloud" /\ keys' = {}
  BY <1>a, <1>k, <1>p, RejectStep DEF ChooseBackend
<1>b. CASE ChooseInitialBackend = "reject"
  BY <1>b, <1>k, <1>p, RejectStep DEF ChooseBackend
<1>c. CASE ChooseInitialBackend = "self-hosted"
  <2>1. CallSelfHosted("initial") /\ UNCHANGED <<result, audit>>
    BY <1>c DEF ChooseBackend
  <2>2. UNCHANGED <<req, selfHosted, tried, key, attempts, quotaAttempts, fallbackUsed, streams,
                    recorded, answers>>
    BY DEF ChooseBackend
  <2>3. SelfHostedAllowed /\ Exhausted(tried) = tried /\ fallbackUsed' \in BOOLEAN
    BY <1>c, <1>p, <2>2 DEF SelfHostedAllowed, Exhausted, FlowTypes
  <2>4. QED
    BY <1>c, <1>k, <1>p, <2>1, <2>2, <2>3, SelfHostedCalled
<1>d. CASE ChooseInitialBackend = "cloud" /\ keys' # {}
  <2>a. pc' = "reserve" /\ asking' = "first" /\ UNCHANGED <<result, audit, armed, calls, contacted>>
    BY <1>d DEF ChooseBackend
  <2>b. UNCHANGED <<req, selfHosted, tried, key, attempts, quotaAttempts, fallbackUsed, streams,
                    recorded, answers>>
    BY DEF ChooseBackend
  <2>c. ~result.observed /\ ~result.stream
    BY <1>p DEF Settled, Timers
  <2>e. attempts = 0 /\ quotaAttempts = 0
    BY <1>p DEF FlowTypes, Phases
  <2>f. Counted' = {} /\ Exhausted(Counted)' = {} /\ Cardinality({}) = 0
    BY <1>p, <2>b, FS_EmptySet DEF Counted, Exhausted
  <2>1. FlowTypes'
    BY <1>k, <1>p, <2>a, <2>b DEF CloudAllowed, FlowTypes
  <2>2. Phases'
    BY <1>d, <1>k, <1>p, <2>a, <2>b, SameRoute DEF CloudAllowed, Phases
  <2>3. Routed'
    BY <1>d, <1>k, <1>p, <2>a, <2>b, SameRoute DEF CloudAllowed, Routed
  <2>4. Counters'
    BY <2>a, <2>b, <2>e, <2>f DEF Counters
  <2>5. QuotaKept'
    BY <1>k, <1>p, <2>a DEF CloudAllowed, QuotaKept
  <2>6. EachBackendOnce'
    BY <1>k, <2>a, <2>b DEF CloudAllowed, EachBackendOnce
  <2>7. Settled'
    BY <1>k, <1>p, <2>a, <2>b DEF CloudAllowed, Settled
  <2>8. Timers'
    BY <1>k, <1>p, <2>a, <2>b DEF CloudAllowed, Timers
  <2>9. QED
    BY <2>1, <2>2, <2>3, <2>4, <2>5, <2>6, <2>7, <2>8
<1>e. QED
  BY <1>a, <1>b, <1>c, <1>d, <1>i

LEMMA ReserveKeyStep ==
    ASSUME FlowInv, NEW k \in Keys, ReserveKey(k)
    PROVE  FlowInv'
<1> USE DEF FlowInv, Fresh, OnCloud, Looping, Answering
<1>a. /\ Counted' = Counted /\ Exhausted(Counted)' = Exhausted(Counted)
      /\ k \notin tried /\ k \in keys /\ tried' = tried \cup {k} /\ pc = "reserve"
  BY DEF ReserveKey, Counted, Exhausted
<1>1. FlowTypes'
  <2>1. calls' = calls + 1 /\ calls \in Nat /\ calls' \in Nat
    BY DEF ReserveKey, Call, FlowTypes
  <2>2. armed' \subseteq 1..calls' /\ streams' \subseteq 1..calls' /\ result.call <= calls'
    BY <2>1 DEF ReserveKey, Call, FlowTypes, Results
  <2>3. attempts <= Cardinality(tried')
    BY <1>a, TriedFinite DEF FlowTypes
  <2>4. QED
    BY <2>1, <2>2, <2>3 DEF ReserveKey, Call, FlowTypes
<1>2. Phases'
  BY SameRoute DEF ReserveKey, Call, Phases
<1>3. Routed'
  BY SameRoute DEF ReserveKey, Call, Routed
<1>4. Counters'
  BY <1>a DEF ReserveKey, Counters
<1>5. QuotaKept'
  BY RouteFacts DEF ReserveKey, Call, Routed, QuotaKept
<1>6. EachBackendOnce'
  BY TriedFinite DEF ReserveKey, Call, One, EachBackendOnce
<1>7. Settled'
  BY DEF ReserveKey, Settled
<1>8. Timers'
  BY DEF ReserveKey, Call, Timers
<1>9. QED
  BY <1>1, <1>2, <1>3, <1>4, <1>5, <1>6, <1>7, <1>8

LEMMA CloudAnswersStep ==
    ASSUME FlowInv, NEW outcome \in Outcomes, NEW stream \in BOOLEAN,
           NEW observed \in BOOLEAN, CloudAnswers(outcome, stream, observed)
    PROVE  FlowInv'
<1> USE DEF FlowInv, Fresh, OnCloud, Looping, Answering
<1>a. /\ pc = "cloud" /\ pc' = "record" /\ key \in tried /\ key \in Keys /\ "cloud" \notin Fresh
      /\ answers' = [answers EXCEPT ![key] = outcome] /\ answers[key] = "none"
      /\ armed = {calls} /\ streams = {}
  BY TriedFinite DEF CloudAnswers, Phases, Settled, Timers
<1>b. /\ result'.backend = "cloud" /\ result'.outcome = outcome /\ result'.call = calls
      /\ result' \in Results
  BY DEF CloudAnswers, Receive, Results, FlowTypes
<1>c. /\ result'.stream <=> stream
      /\ result'.observed <=> observed
      /\ outcome # "ok" => ~stream
      /\ observed => stream
      /\ ~stream => armed' = {} /\ streams' = {}
      /\ stream => armed' = {calls} /\ streams' = {calls}
  BY <1>a DEF CloudAnswers, Receive
<1>d. Counted' = Counted /\ Exhausted(Counted)' = Exhausted(Counted)
  <2>1. Counted' = Counted /\ key \notin Counted
    BY DEF Counted, CloudAnswers
  <2>2. \A k \in Counted : answers'[k] = answers[k]
    BY <1>a, <2>1
  <2>3. QED
    BY <2>1, <2>2 DEF Exhausted
<1>e. /\ answers' \in [Keys -> Outcomes \cup {"none"}] /\ answers'[key] = outcome
      /\ \A k \in Keys : k # key => answers'[k] = answers[k]
      /\ recorded[key] = 0 /\ recorded' = recorded /\ key' = key /\ tried' = tried
  BY <1>a DEF FlowTypes, Settled, Retryable, CloudAnswers
<1>1. FlowTypes'
  BY <1>a, <1>b, <1>c DEF CloudAnswers, FlowTypes
<1>2. Phases'
  BY SameRoute DEF CloudAnswers, Phases
<1>3. Routed'
  BY SameRoute DEF CloudAnswers, Routed
<1>4. Counters'
  BY <1>d DEF CloudAnswers, Counters
<1>5. QuotaKept'
  BY RouteFacts DEF CloudAnswers, Routed, QuotaKept
<1>6. EachBackendOnce'
  BY DEF CloudAnswers, EachBackendOnce
<1>7. Settled'
  <2>1. ASSUME NEW k \in Keys, k # key
        PROVE  /\ k \notin tried => answers'[k] = "none"
               /\ answers'[k] \in Retryable => recorded[k] = 1
               /\ recorded[k] # 0 => recorded[k] = 1 /\ answers'[k] \in Retryable \cup {"ok"}
    BY <1>e, <2>1 DEF Settled
  <2>2. QED
    BY <1>a, <1>b, <1>c, <1>e, <2>1 DEF Settled
<1>8. Timers'
  BY <1>b, <1>c DEF CloudAnswers, Timers
<1>9. QED
  BY <1>1, <1>2, <1>3, <1>4, <1>5, <1>6, <1>7, <1>8

LEMMA RecordAttemptStep ==
    ASSUME FlowInv, RecordAttempt
    PROVE  FlowInv'
<1> USE DEF FlowInv, Fresh, OnCloud, Looping, Answering
<1>a. /\ pc = "record" /\ pc' = "attempted" /\ key \in tried /\ key \in Keys
      /\ answers[key] = result.outcome /\ recorded[key] = 0
      /\ recorded' \in [Keys -> Nat]
      /\ \A k \in Keys : k # key => recorded'[k] = recorded[k]
      /\ result.outcome \in Retryable => recorded'[key] = 1
      /\ result.outcome \notin Retryable => recorded'[key] = 0
  BY DEF RecordAttempt, Phases, Settled, FlowTypes
<1>1. FlowTypes'
  BY <1>a DEF RecordAttempt, FlowTypes
<1>2. Phases'
  BY SameRoute DEF RecordAttempt, Phases
<1>3. Routed'
  BY SameRoute DEF RecordAttempt, Routed
<1>4. Counters'
  BY DEF RecordAttempt, Counted, Exhausted, Counters
<1>5. QuotaKept'
  BY DEF RecordAttempt, Exhausted, QuotaKept
<1>6. EachBackendOnce'
  BY DEF RecordAttempt, EachBackendOnce
<1>7. Settled'
  <2>1. ASSUME NEW k \in Keys
        PROVE  /\ answers[k] \in Retryable => recorded'[k] = 1
               /\ recorded'[k] # 0 => recorded'[k] = 1 /\ answers[k] \in Retryable \cup {"ok"}
    BY <1>a, <2>1 DEF Settled
  <2>2. UNCHANGED <<answers, tried, result, key>>
    BY DEF RecordAttempt
  <2>3. "ok" \notin Retryable
    BY DEF Retryable
  <2>4. QED
    BY <1>a, <2>1, <2>2, <2>3 DEF Settled
<1>8. Timers'
  BY DEF RecordAttempt, Timers
<1>9. QED
  BY <1>1, <1>2, <1>3, <1>4, <1>5, <1>6, <1>7, <1>8

LEMMA SendReplyStep ==
    ASSUME FlowInv, SendReply
    PROVE  FlowInv'
<1> USE DEF FlowInv, Fresh, OnCloud, Looping, Answering
<1>1. FlowTypes'
  BY DEF SendReply, FlowTypes
<1>2. Phases'
  BY SameRoute DEF SendReply, Phases
<1>3. Routed'
  BY SameRoute DEF SendReply, Routed
<1>4. Counters'
  BY DEF SendReply, Counters
<1>5. QuotaKept'
  BY DEF SendReply, Exhausted, QuotaKept
<1>6. EachBackendOnce'
  BY DEF SendReply, EachBackendOnce
<1>7. Settled'
  BY DEF SendReply, Settled
<1>8. Timers'
  BY DEF SendReply, Timers
<1>9. QED
  BY <1>1, <1>2, <1>3, <1>4, <1>5, <1>6, <1>7, <1>8

LEMMA AuditSettlesStep ==
    ASSUME FlowInv, AuditSettles
    PROVE  FlowInv'
<1> USE DEF FlowInv, Fresh, OnCloud, Looping, Answering
<1>1. FlowTypes'
  BY DEF AuditSettles, flowVars, FlowTypes
<1>2. Phases'
  BY SameRoute DEF AuditSettles, flowVars, Phases
<1>3. Routed'
  BY SameRoute DEF AuditSettles, flowVars, Routed
<1>4. Counters'
  BY DEF AuditSettles, flowVars, Counted, Exhausted, Counters
<1>5. QuotaKept'
  BY DEF AuditSettles, flowVars, Exhausted, QuotaKept
<1>6. EachBackendOnce'
  BY DEF AuditSettles, flowVars, EachBackendOnce
<1>7. Settled'
  BY DEF AuditSettles, flowVars, Settled
<1>8. Timers'
  BY DEF AuditSettles, flowVars, Timers
<1>9. QED
  BY <1>1, <1>2, <1>3, <1>4, <1>5, <1>6, <1>7, <1>8

LEMMA ReturnStep ==
    ASSUME FlowInv, Return
    PROVE  FlowInv'
<1> USE DEF FlowInv, Fresh, OnCloud, Looping, Answering
<1>1. FlowTypes'
  BY DEF Return, sideVars, FlowTypes
<1>2. Phases'
  BY SameRoute DEF Return, sideVars, Phases
<1>3. Routed'
  BY SameRoute DEF Return, sideVars, Routed
<1>4. Counters'
  BY DEF Return, Counters
<1>5. QuotaKept'
  BY DEF Return, sideVars, Exhausted, QuotaKept
<1>6. EachBackendOnce'
  BY DEF Return, sideVars, EachBackendOnce
<1>7. Settled'
  BY DEF Return, sideVars, Settled
<1>8. Timers'
  BY DEF Return, sideVars, Timers
<1>9. QED
  BY <1>1, <1>2, <1>3, <1>4, <1>5, <1>6, <1>7, <1>8

LEMMA StreamEndsStep ==
    ASSUME FlowInv, NEW how, StreamEnds(how)
    PROVE  FlowInv'
<1> USE DEF FlowInv, Fresh, OnCloud, Looping, Answering
<1>1. FlowTypes'
  BY DEF StreamEnds, FlowTypes
<1>2. Phases'
  BY SameRoute DEF StreamEnds, Phases
<1>3. Routed'
  BY SameRoute DEF StreamEnds, Routed
<1>4. Counters'
  BY DEF StreamEnds, Counters
<1>5. QuotaKept'
  BY DEF StreamEnds, Exhausted, QuotaKept
<1>6. EachBackendOnce'
  BY DEF StreamEnds, EachBackendOnce
<1>7. Settled'
  BY DEF StreamEnds, Settled
<1>8. Timers'
  BY DEF StreamEnds, Timers
<1>9. QED
  BY <1>1, <1>2, <1>3, <1>4, <1>5, <1>6, <1>7, <1>8

LEMMA CreditsObservedStep ==
    ASSUME FlowInv, CreditsObserved
    PROVE  FlowInv'
<1> USE DEF FlowInv, Fresh, OnCloud, Looping, Answering
<1>a. /\ result.observed /\ key \in tried /\ key \in Keys
      /\ answers[key] = "ok" /\ recorded[key] = 0 /\ result.outcome = "ok"
      /\ recorded' \in [Keys -> Nat]
      /\ \A k \in Keys : k # key => recorded'[k] = recorded[k]
      /\ recorded'[key] = 1
  BY DEF CreditsObserved, Settled, FlowTypes
<1>b. /\ result'.backend = result.backend /\ result'.outcome = result.outcome
      /\ result'.call = result.call /\ result'.stream = result.stream
      /\ result' \in Results /\ ~result'.observed
  BY DEF CreditsObserved, FlowTypes, Results
<1>1. FlowTypes'
  BY <1>a, <1>b DEF CreditsObserved, FlowTypes
<1>2. Phases'
  BY SameRoute DEF CreditsObserved, Phases
<1>3. Routed'
  BY SameRoute DEF CreditsObserved, Routed
<1>4. Counters'
  BY DEF CreditsObserved, Counters
<1>5. QuotaKept'
  BY DEF CreditsObserved, Exhausted, QuotaKept
<1>6. EachBackendOnce'
  BY DEF CreditsObserved, EachBackendOnce
<1>7. Settled'
  BY DEF CreditsObserved, Settled
<1>8. Timers'
  BY DEF CreditsObserved, Timers
<1>9. QED
  BY <1>1, <1>2, <1>3, <1>4, <1>5, <1>6, <1>7, <1>8

LEMMA NothingReservedStep ==
    ASSUME FlowInv, NothingReserved
    PROVE  FlowInv'
<1> USE DEF FlowInv, Fresh, OnCloud, Looping, Answering
<1>p. /\ pc = "reserve" /\ asking \in {"first", "fallback", "retry"} /\ armed = {} /\ streams = {}
      /\ ~result.stream /\ keys' = keys
  BY DEF NothingReserved, Phases, Timers
<1>u. UNCHANGED <<req, selfHosted, keys, tried, key, attempts, quotaAttempts, streams, recorded,
                  answers>>
  BY DEF NothingReserved
<1>a. CASE asking = "first" /\ ~(IsCloudQuotaFallbackAllowed /\ selfHosted)
  <2>1. Reject("cloud", "429") /\ UNCHANGED <<asking, fallbackUsed, armed, calls, contacted>>
    BY <1>a DEF NothingReserved
  <2>2. QED
    BY <1>a, <1>p, <1>u, <2>1, RejectStep DEF Phases, FlowTypes
<1>b. CASE asking = "first" /\ IsCloudQuotaFallbackAllowed /\ selfHosted
  <2>1. CallSelfHosted("no-pool") /\ fallbackUsed' = TRUE /\ UNCHANGED <<result, audit>>
    BY <1>b DEF NothingReserved
  <2>2. /\ SelfHostedAllowed /\ "self-hosted" \notin contacted
        /\ tried = {} /\ Exhausted(tried) = tried
    BY <1>b, <1>p DEF SelfHostedAllowed, Phases, Exhausted
  <2>3. keys' \subseteq Keys /\ tried \subseteq keys' /\ fallbackUsed' \in BOOLEAN
    BY <1>p, <2>1 DEF FlowTypes
  <2>4. QED
    BY <1>p, <1>u, <2>1, <2>2, <2>3, SelfHostedCalled
<1>c. CASE asking = "fallback"
  <2>a. /\ pc' = "send"
        /\ UNCHANGED <<asking, fallbackUsed, result, audit, armed, calls, contacted>>
    BY <1>c DEF NothingReserved
  <2>1. FlowTypes'
    BY <1>u, <2>a DEF FlowTypes
  <2>2. Phases'
    BY <1>u, <2>a, SameRoute DEF Phases
  <2>3. Routed'
    BY <1>u, <2>a, SameRoute DEF Routed
  <2>4. Counters'
    BY <2>a DEF Counters
  <2>5. QuotaKept'
    BY <1>c, <1>p, <1>u DEF Exhausted, Phases, QuotaKept
  <2>6. EachBackendOnce'
    BY <1>u, <2>a DEF EachBackendOnce
  <2>7. Settled'
    BY <1>p, <1>u, <2>a DEF Settled
  <2>8. Timers'
    BY <1>p, <1>u, <2>a DEF Timers
  <2>9. QED
    BY <2>1, <2>2, <2>3, <2>4, <2>5, <2>6, <2>7, <2>8
<1>d. CASE asking = "retry"
  <2>a. /\ pc' = "quota"
        /\ UNCHANGED <<asking, fallbackUsed, result, audit, armed, calls, contacted>>
    BY <1>d DEF NothingReserved
  <2>1. FlowTypes'
    BY <1>u, <2>a DEF FlowTypes
  <2>2. Phases'
    BY <1>d, <1>p, <1>u, <2>a DEF Phases
  <2>3. Routed'
    BY <1>p, <1>u, <2>a, SameRoute DEF Routed
  <2>4. Counters'
    BY <1>p, <1>u, <2>a DEF Counted, Exhausted, Counters
  <2>5. QuotaKept'
    BY <1>u, <2>a DEF Exhausted, QuotaKept
  <2>6. EachBackendOnce'
    BY <1>u, <2>a DEF EachBackendOnce
  <2>7. Settled'
    BY <1>p, <1>u, <2>a DEF Settled
  <2>8. Timers'
    BY <1>p, <1>u, <2>a DEF Timers
  <2>9. QED
    BY <2>1, <2>2, <2>3, <2>4, <2>5, <2>6, <2>7, <2>8
<1>e. QED
  BY <1>a, <1>b, <1>c, <1>d, <1>p

LEMMA QuotaFallbackStep ==
    ASSUME FlowInv, QuotaFallback
    PROVE  FlowInv'
<1> USE DEF FlowInv, Fresh, OnCloud, Looping, Answering
<1>p. /\ pc = "quota" /\ asking = "retry" /\ key \in tried /\ tried # {}
      /\ result.outcome = answers[key] /\ attempts = Cardinality(tried)
      /\ quotaAttempts = Cardinality(Exhausted(tried))
  BY DEF QuotaFallback, Phases, Counters, Counted
<1>u. UNCHANGED <<req, selfHosted, keys, tried, key, result, attempts, quotaAttempts, streams,
                  audit, recorded, answers>>
  BY DEF QuotaFallback
<1>x. quotaAttempts = attempts <=> Exhausted(tried) = tried
  <2>1. Exhausted(tried) \in SUBSET tried
    BY DEF Exhausted
  <2>2. Exhausted(tried) # tried => Cardinality(Exhausted(tried)) # Cardinality(tried)
    BY <2>1, TriedFinite, FS_Subset, FS_CardinalityType
  <2>3. QED
    BY <1>p, <2>2
<1>o. "self-hosted" \notin contacted \/ ~IsCloudQuotaFallbackAllowed
  BY <1>p, RouteFacts DEF Routed
<1>a. CASE quotaAttempts = attempts /\ result.outcome \in Capacity /\ IsCloudQuotaFallbackAllowed
  <2>1. CallSelfHosted("quota") /\ fallbackUsed' = TRUE
    BY <1>a DEF QuotaFallback
  <2>2. SelfHostedAllowed /\ "self-hosted" \notin contacted
    BY <1>a, <1>o DEF SelfHostedAllowed
  <2>3. ~result.stream
    BY <1>a DEF Timers, Capacity
  <2>4. armed = {} /\ streams = {}
    BY <1>p, <2>3 DEF Timers
  <2>5. keys' \subseteq Keys /\ tried \subseteq keys' /\ fallbackUsed' \in BOOLEAN
    BY <1>u, <2>1 DEF FlowTypes
  <2>6. QED
    BY <1>a, <1>p, <1>u, <1>x, <2>1, <2>2, <2>4, <2>5, SelfHostedCalled
<1>b. CASE ~(quotaAttempts = attempts /\ result.outcome \in Capacity /\ IsCloudQuotaFallbackAllowed)
  <2>a. pc' = "send" /\ UNCHANGED <<asking, fallbackUsed, armed, calls, contacted>>
    BY <1>b DEF QuotaFallback
  <2>b. req.mode = "cloud-first" /\ ~req.needsCloud => Exhausted(tried) # tried
    BY <1>b, <1>p DEF Exhausted, IsCloudQuotaFallbackAllowed
  <2>1. FlowTypes'
    BY <1>u, <2>a DEF FlowTypes
  <2>2. Phases'
    BY <1>p, <2>a DEF Phases
  <2>3. Routed'
    BY <1>u, <2>a, SameRoute DEF Routed
  <2>4. Counters'
    BY <2>a DEF Counters
  <2>5. QuotaKept'
    BY <1>u, <2>a, <2>b DEF Exhausted, QuotaKept
  <2>6. EachBackendOnce'
    BY <1>u, <2>a DEF EachBackendOnce
  <2>7. Settled'
    BY <1>p, <1>u, <2>a DEF Settled
  <2>8. Timers'
    BY <1>p, <1>u, <2>a DEF Timers
  <2>9. QED
    BY <2>1, <2>2, <2>3, <2>4, <2>5, <2>6, <2>7, <2>8
<1>c. QED
  BY <1>a, <1>b

LEMMA SelfHostedAnswersStep ==
    ASSUME FlowInv, NEW outcome \in Outcomes, NEW stream \in BOOLEAN,
           SelfHostedAnswers(outcome, stream)
    PROVE  FlowInv'
<1> USE DEF FlowInv, Fresh, OnCloud, Looping, Answering
<1>a. /\ pc = "self-hosted" /\ armed = {calls} /\ streams = {}
      /\ asking \in {"initial", "no-pool", "quota"}
      /\ UNCHANGED <<req, selfHosted, keys, tried, key, attempts, quotaAttempts, fallbackUsed,
                      calls, audit, recorded, answers, contacted>>
  BY DEF SelfHostedAnswers, Phases, Timers
<1>b. /\ result'.backend = "self-hosted" /\ result'.outcome = outcome /\ result'.call = calls
      /\ result' \in Results
  BY DEF SelfHostedAnswers, Receive, Results, FlowTypes
<1>c. /\ result'.stream <=> stream
      /\ ~result'.observed
      /\ outcome # "ok" => ~stream
      /\ ~stream => armed' = {} /\ streams' = {}
      /\ stream => armed' = {calls} /\ streams' = {calls}
      /\ pc' \in {"reserve", "send"}
      /\ pc' = "send" => asking' = asking
      /\ pc' = "reserve" => /\ asking = "initial" /\ asking' = "fallback"
                            /\ outcome # "ok" /\ IsFallbackAllowed
  BY <1>a DEF SelfHostedAnswers, Receive, IsFallbackEligible
<1>d. pc' = "reserve" => /\ tried = {} /\ CloudAllowed /\ ChooseInitialBackend = "self-hosted"
                        /\ attempts = 0 /\ quotaAttempts = 0
                        /\ Counted' = {} /\ Exhausted(Counted)' = {} /\ Cardinality({}) = 0
  BY <1>a, <1>c, FS_EmptySet DEF Phases, CloudAllowed, FlowTypes, Counted, Exhausted
<1>1. FlowTypes'
  BY <1>a, <1>b, <1>c DEF SelfHostedAnswers, FlowTypes
<1>2. Phases'
  BY SameRoute DEF SelfHostedAnswers, Phases
<1>3. Routed'
  BY <1>d, SameRoute DEF SelfHostedAnswers, Routed
<1>4. Counters'
  BY <1>d DEF SelfHostedAnswers, Counters
<1>5. QuotaKept'
  BY <1>b DEF SelfHostedAnswers, Exhausted, QuotaKept
<1>6. EachBackendOnce'
  BY DEF SelfHostedAnswers, EachBackendOnce
<1>7. Settled'
  BY <1>c DEF SelfHostedAnswers, Settled
<1>8. Timers'
  BY <1>b, <1>c DEF SelfHostedAnswers, Timers
<1>9. QED
  BY <1>1, <1>2, <1>3, <1>4, <1>5, <1>6, <1>7, <1>8

LEMMA FirstAttemptedStep ==
    ASSUME FlowInv, FirstAttempted
    PROVE  FlowInv'
<1> USE DEF FlowInv, Fresh, OnCloud, Looping, Answering
<1>p. /\ pc = "attempted" /\ asking \in {"first", "fallback"} /\ tried = {key} /\ key \in Keys
      /\ answers[key] = result.outcome
      /\ UNCHANGED <<req, selfHosted, keys, tried, key, result, sideVars>>
  BY TriedFinite DEF FirstAttempted, Phases, Settled
<1>c. Cardinality(tried) = 1
  BY <1>p, FS_Singleton
<1>x. (result.outcome \in Capacity => Exhausted(tried) = {key})
      /\ (result.outcome \notin Capacity => Exhausted(tried) = {} /\ Exhausted(tried) # tried)
  BY <1>p DEF Exhausted
<1>f. fallbackUsed' \in BOOLEAN
  BY DEF FirstAttempted
<1>a. CASE result.outcome \in Retryable
  <2>a. /\ attempts' = 1 /\ quotaAttempts' = One(result.outcome \in Capacity)
        /\ pc' = "reserve" /\ asking' = "retry"
    BY <1>a DEF FirstAttempted
  <2>b. /\ Counted' = tried /\ Exhausted(Counted)' = Exhausted(tried)
        /\ quotaAttempts' = Cardinality(Exhausted(tried)) /\ quotaAttempts' \in {0, 1}
    BY <1>p, <1>c, <2>a, FS_EmptySet DEF One, Counted, Exhausted, sideVars
  <2>c. ~result.stream /\ ~result.observed /\ result.outcome # "ok"
    BY <1>a DEF Timers, Retryable
  <2>1. FlowTypes'
    BY <1>c, <1>f, <1>p, <2>a, <2>b DEF sideVars, FlowTypes
  <2>2. Phases'
    BY <1>p, <2>a DEF Phases
  <2>3. Routed'
    BY <1>p, SameRoute DEF sideVars, Routed
  <2>4. Counters'
    BY <1>c, <1>p, <2>a, <2>b DEF sideVars, Counters
  <2>5. QuotaKept'
    BY <1>p, <2>a, <2>b DEF sideVars, QuotaKept
  <2>6. EachBackendOnce'
    BY <1>p DEF sideVars, EachBackendOnce
  <2>7. Settled'
    BY <1>p, <2>a, <2>c DEF sideVars, Settled
  <2>8. Timers'
    BY <1>p, <2>a, <2>c DEF sideVars, Timers
  <2>9. QED
    BY <2>1, <2>2, <2>3, <2>4, <2>5, <2>6, <2>7, <2>8
<1>b. CASE result.outcome \notin Retryable
  <2>a. pc' = "send" /\ UNCHANGED <<attempts, quotaAttempts, asking>>
    BY <1>b DEF FirstAttempted
  <2>b. Exhausted(tried)' # tried'
    BY <1>b, <1>p DEF Retryable, Capacity, Exhausted, sideVars
  <2>1. FlowTypes'
    BY <1>f, <1>p, <2>a DEF sideVars, FlowTypes
  <2>2. Phases'
    BY <1>p, <2>a, SameRoute DEF sideVars, Phases
  <2>3. Routed'
    BY <1>p, SameRoute DEF sideVars, Routed
  <2>4. Counters'
    BY <2>a DEF Counters
  <2>5. QuotaKept'
    BY <1>p, <2>b DEF sideVars, Exhausted, QuotaKept
  <2>6. EachBackendOnce'
    BY <1>p DEF sideVars, EachBackendOnce
  <2>7. Settled'
    BY <1>p, <2>a DEF sideVars, Settled
  <2>8. Timers'
    BY <1>p, <2>a DEF sideVars, Timers
  <2>9. QED
    BY <2>1, <2>2, <2>3, <2>4, <2>5, <2>6, <2>7, <2>8
<1>g. QED
  BY <1>a, <1>b

LEMMA RetryAttemptedStep ==
    ASSUME FlowInv, RetryAttempted
    PROVE  FlowInv'
<1> USE DEF FlowInv, Fresh, OnCloud, Looping, Answering
<1>p. /\ pc = "attempted" /\ asking = "retry" /\ key \in tried /\ key \in Keys
      /\ answers[key] = result.outcome
      /\ UNCHANGED <<req, asking, selfHosted, keys, tried, key, result, sideVars>>
      /\ attempts' = attempts + 1
      /\ quotaAttempts' = quotaAttempts + One(result.outcome \in Capacity)
      /\ pc' \in {"reserve", "quota"}
  BY TriedFinite DEF RetryAttempted, Phases, Settled
<1>q. pc' = "reserve" => result.outcome # "ok"
  BY DEF RetryAttempted, Retryable
<1>f. fallbackUsed' \in BOOLEAN
  BY DEF RetryAttempted
<1>n. /\ attempts = Cardinality(tried \ {key})
      /\ quotaAttempts = Cardinality(Exhausted(tried \ {key}))
      /\ attempts \in Nat /\ quotaAttempts \in Nat /\ quotaAttempts <= attempts
      /\ One(result.outcome \in Capacity) \in {0, 1}
  BY <1>p DEF Counters, Counted, FlowTypes, One
<1>c. attempts' = Cardinality(tried) /\ quotaAttempts' \in Nat /\ quotaAttempts' <= attempts'
  BY <1>n, <1>p, TriedFinite
<1>x. quotaAttempts' = Cardinality(Exhausted(tried))
  <2>1. IsFiniteSet(Exhausted(tried \ {key})) /\ key \notin Exhausted(tried \ {key})
    <3>1. Exhausted(tried \ {key}) \in SUBSET (tried \ {key})
      BY DEF Exhausted
    <3>2. QED
      BY <3>1, TriedFinite, FS_Subset
  <2>2. CASE result.outcome \in Capacity
    <3>1. Exhausted(tried) = Exhausted(tried \ {key}) \cup {key}
      BY <1>p, <2>2 DEF Exhausted
    <3>2. QED
      BY <1>n, <1>p, <2>1, <2>2, <3>1, FS_AddElement DEF One
  <2>3. CASE result.outcome \notin Capacity
    <3>1. Exhausted(tried) = Exhausted(tried \ {key})
      BY <1>p, <2>3 DEF Exhausted
    <3>2. QED
      BY <1>n, <1>p, <2>3, <3>1 DEF One
  <2>4. QED
    BY <2>2, <2>3
<1>y. Counted' = tried /\ Exhausted(Counted)' = Exhausted(tried)
  BY <1>p DEF Counted, Exhausted, sideVars
<1>1. FlowTypes'
  BY <1>p, <1>f, <1>c DEF FlowTypes, sideVars
<1>2. Phases'
  BY <1>p DEF Phases
<1>3. Routed'
  BY <1>p, SameRoute DEF Routed, sideVars
<1>4. Counters'
  BY <1>p, <1>c, <1>x, <1>y DEF Counters, sideVars
<1>5. QuotaKept'
  BY <1>p, <1>y DEF QuotaKept, sideVars
<1>6. EachBackendOnce'
  BY <1>p DEF EachBackendOnce, sideVars
<1>7. Settled'
  BY <1>p, <1>q DEF Settled, sideVars
<1>8. Timers'
  BY <1>p, <1>q DEF Timers, sideVars
<1>9. QED
  BY <1>1, <1>2, <1>3, <1>4, <1>5, <1>6, <1>7, <1>8

LEMMA Stutters ==
    ASSUME FlowInv, UNCHANGED vars
    PROVE  FlowInv'
<1> USE DEF FlowInv, Fresh, OnCloud, Looping, Answering, vars, flowVars, sideVars
<1>1. FlowTypes'
  BY DEF FlowTypes
<1>2. Phases'
  BY SameRoute DEF Phases
<1>3. Routed'
  BY SameRoute DEF Routed
<1>4. Counters'
  BY DEF Counted, Exhausted, Counters
<1>5. QuotaKept'
  BY DEF Exhausted, QuotaKept
<1>6. EachBackendOnce'
  BY DEF EachBackendOnce
<1>7. Settled'
  BY DEF Settled
<1>8. Timers'
  BY DEF Timers
<1>9. QED
  BY <1>1, <1>2, <1>3, <1>4, <1>5, <1>6, <1>7, <1>8

LEMMA StartsInFlowInv ==
    ASSUME Init
    PROVE  FlowInv
<1> USE DEF Init, FlowInv, Fresh, OnCloud, Looping, Answering
<1>a. /\ result.backend = "none" /\ result.outcome = "none" /\ result.call = 0
      /\ ~result.stream /\ ~result.observed
  BY DEF NoResult
<1>b. result \in Results
  BY DEF NoResult, Results
<1>c. Cardinality({}) = 0
  BY FS_EmptySet
<1>1. FlowTypes
  <2>1. recorded \in [Keys -> Nat] /\ answers \in [Keys -> Outcomes \cup {"none"}]
    OBVIOUS
  <2>2. attempts <= Cardinality(tried) /\ armed \subseteq 1..calls /\ streams \subseteq 1..calls
    BY <1>c
  <2>3. result.call <= calls /\ calls = 0
    BY <1>a
  <2>4. /\ req \in Requests /\ pc \in Fresh /\ keys \subseteq Keys /\ tried \subseteq keys
        /\ key \in Keys \cup {NoKey} /\ contacted \subseteq {"cloud", "self-hosted"}
    OBVIOUS
  <2>5. /\ attempts \in Nat /\ quotaAttempts \in Nat /\ quotaAttempts <= attempts /\ calls \in Nat
    OBVIOUS
  <2>6. /\ selfHosted \in BOOLEAN /\ fallbackUsed \in BOOLEAN
        /\ asking \in {"none", "first", "fallback", "retry", "initial", "no-pool", "quota"}
        /\ audit \in {"none", "writing", "settled"}
    OBVIOUS
  <2> HIDE DEF Init
  <2>7. QED
    BY <1>b, <2>1, <2>2, <2>3, <2>4, <2>5, <2>6 DEF FlowTypes
<1>2. Phases
  BY DEF Phases
<1>3. Routed
  BY DEF Routed
<1>4. Counters
  BY DEF Counters
<1>5. QuotaKept
  BY DEF QuotaKept
<1>6. EachBackendOnce
  BY <1>c DEF EachBackendOnce, One
<1>7. Settled
  BY <1>a DEF Settled, Retryable
<1>8. Timers
  BY <1>a DEF Timers
<1>9. QED
  BY <1>1, <1>2, <1>3, <1>4, <1>5, <1>6, <1>7, <1>8

LEMMA StepFlowInv ==
    ASSUME FlowInv, [Next]_vars
    PROVE  FlowInv'
<1>1. CASE Steps
  BY <1>1, LoadSettingsStep, EndedAtOnce, AuthenticateStep, InspectBodyStep,
     ChooseBackendStep, ReserveKeyStep, NothingReservedStep, RecordAttemptStep,
     FirstAttemptedStep, RetryAttemptedStep, QuotaFallbackStep, SendReplyStep, AuditSettlesStep,
     ReturnStep
     DEF Steps
<1>2. CASE Upstream
  BY <1>2, CloudAnswersStep, SelfHostedAnswersStep, StreamEndsStep DEF Upstream
<1>3. CASE CreditsObserved
  BY <1>3, CreditsObservedStep
<1>4. CASE UNCHANGED vars
  BY <1>4, Stutters
<1>5. QED
  BY <1>1, <1>2, <1>3, <1>4 DEF Next

LEMMA FlowInvariant == Spec => []FlowInv
<1>1. Init => FlowInv
  BY StartsInFlowInv
<1>2. FlowInv /\ [Next]_vars => FlowInv'
  BY StepFlowInv
<1>3. QED
  BY <1>1, <1>2, PTL DEF Spec

-----------------------------------------------------------------------------
(***************************************************************************)
(* Every variable of the request keeps its type, and the loop's counters   *)
(* and the number of upstream calls stay within the number of keys: the    *)
(* retry loop of proxyCloudWithRetry() cannot run on.                      *)
(***************************************************************************)
THEOREM FlowTypeCorrect == Spec => []TypeOK
<1>1. ASSUME FlowInv
      PROVE  TypeOK
  <2>1. Cardinality(Keys) \in Nat
    BY FlowKeys, FS_CardinalityType
  <2>2. Cardinality(tried) \in Nat /\ Cardinality(tried) <= Cardinality(Keys)
    BY <1>1, TriedFinite DEF FlowInv
  <2>3. attempts \in 0..Cardinality(Keys) /\ quotaAttempts \in 0..attempts
    BY <1>1, <2>1, <2>2 DEF FlowInv, FlowTypes
  <2>4. calls \in 0..(Cardinality(Keys) + 1)
    BY <1>1, <2>1, <2>2 DEF FlowInv, EachBackendOnce, One
  <2>5. result.backend \in {"none", "cloud", "self-hosted"} /\ result.call \in 0..calls
    BY <1>1 DEF FlowInv, FlowTypes, Results
  <2>6. QED
    BY <1>1, <2>3, <2>4, <2>5 DEF FlowInv, FlowTypes, TypeOK, Fresh, Looping, OnCloud, Answering
<1>2. QED
  BY <1>1, FlowInvariant, PTL

(***************************************************************************)
(* No sequence of answers, retries and fallbacks takes a request to a      *)
(* backend its route mode (policy.ts) excludes.                            *)
(***************************************************************************)
THEOREM RouteModeIsKept == Spec => []RouteModeKept
<1>1. ASSUME FlowInv
      PROVE  RouteModeKept
  <2>1. "cloud" \in contacted => CloudAllowed
    BY <1>1 DEF FlowInv, Routed
  <2>2. "self-hosted" \in contacted => SelfHostedAllowed
    BY <1>1 DEF FlowInv, Routed
  <2>3. req.mode = "self-hosted-only" => "cloud" \notin contacted
    BY <2>1, RouteFacts DEF CloudAllowed, ChooseInitialBackend
  <2>4. req.mode = "cloud-only" => "self-hosted" \notin contacted
    BY <2>2, RouteFacts DEF SelfHostedAllowed, ChooseInitialBackend
  <2>5. req.needsCloud => "self-hosted" \notin contacted
    <3>1. req.mode \in Modes
      BY <1>1, ModeKnown DEF FlowInv
    <3>2. req.needsCloud => ChooseInitialBackend # "self-hosted"
      BY <3>1 DEF Modes, ChooseInitialBackend
    <3>3. QED
      BY <2>2, <3>2, RouteFacts DEF SelfHostedAllowed
  <2>6. req.mode = "self-hosted-first" /\ req.private /\ ~req.needsCloud =>
           "cloud" \notin contacted
    BY <2>1, RouteFacts DEF CloudAllowed, ChooseInitialBackend
  <2>7. QED
    BY <2>3, <2>4, <2>5, <2>6 DEF RouteModeKept
<1>2. QED
  BY <1>1, FlowInvariant, PTL

(***************************************************************************)
(* attempts and quotaAttempts decide as if every key's answer had been     *)
(* looked at again: cloud-first falls back to the self-hosted instance     *)
(* exactly when every key it tried lacked capacity.                        *)
(***************************************************************************)
THEOREM QuotaFallbackIsExact == Spec => []QuotaFallbackExact
<1>1. ASSUME FlowInv
      PROVE  QuotaFallbackExact
  <2>1. (\A k \in tried : answers[k] \in Capacity) <=> Exhausted(tried) = tried
    BY DEF Exhausted
  <2>2. QED
    BY <1>1, <2>1 DEF FlowInv, QuotaKept, QuotaFallbackExact, Answering
<1>2. QED
  BY <1>1, FlowInvariant, PTL

(* One request calls each key, and the self-hosted instance, at most once. *)
THEOREM EachBackendIsCalledOnce == Spec => []EachBackendOnce
<1>1. FlowInv => EachBackendOnce
  BY DEF FlowInv
<1>2. QED
  BY <1>1, FlowInvariant, PTL

(***************************************************************************)
(* recordResponse() and the observer of the stream never settle one        *)
(* attempt twice, and a rejected attempt is settled before the next one.   *)
(***************************************************************************)
THEOREM AttemptsAreSettledOnce == Spec => []AttemptsSettledOnce
<1>1. ASSUME FlowInv
      PROVE  AttemptsSettledOnce
  BY <1>1 DEF FlowInv, Settled, AttemptsSettledOnce
<1>2. QED
  BY <1>1, FlowInvariant, PTL

(***************************************************************************)
(* The body of a streamed answer stays under its abort timer while the     *)
(* request waits for it, and no timer is left behind.                      *)
(***************************************************************************)
THEOREM StreamsStayUnderTimer == Spec => []StreamsUnderTimer
<1>1. ASSUME FlowInv
      PROVE  StreamsUnderTimer
  BY <1>1 DEF FlowInv, Timers, StreamsUnderTimer
<1>2. QED
  BY <1>1, FlowInvariant, PTL

-----------------------------------------------------------------------------
(***************************************************************************)
(* The safety half of RequestEnds: what handle() still has ahead of it,    *)
(* the observer and the audit insert beside it included, gets less with    *)
(* every step.  A key drawn costs it more steps than it had ahead, but     *)
(* there is one key less to draw.                                          *)
(***************************************************************************)
Ahead(at, why) ==
    CASE at = "settings" -> 12
      [] at = "auth" -> 11
      [] at = "body" -> 10
      [] at = "backend" -> 9
      [] at = "self-hosted" -> IF why = "initial" THEN 8 ELSE 5
      [] at = "cloud" -> 11
      [] at = "record" -> 9
      [] at = "attempted" -> 8
      [] at = "reserve" -> 7
      [] at = "quota" -> 6
      [] at = "send" -> 4
      [] at = "streaming" -> 2
      [] at \in {"sent", "rejecting"} -> 1
      [] at = "done" -> 0

Untried == Cardinality(Keys) - Cardinality(tried)

StepsLeft == Ahead(pc, asking) + 5 * Untried + One(audit # "settled") + One(result.observed)

LEMMA AheadIs ==
    ASSUME NEW why
    PROVE  /\ Ahead("settings", why) = 12 /\ Ahead("auth", why) = 11 /\ Ahead("body", why) = 10
           /\ Ahead("backend", why) = 9 /\ Ahead("cloud", why) = 11 /\ Ahead("record", why) = 9
           /\ Ahead("attempted", why) = 8 /\ Ahead("reserve", why) = 7
           /\ Ahead("quota", why) = 6 /\ Ahead("send", why) = 4 /\ Ahead("streaming", why) = 2
           /\ Ahead("sent", why) = 1 /\ Ahead("rejecting", why) = 1 /\ Ahead("done", why) = 0
           /\ Ahead("self-hosted", why) = IF why = "initial" THEN 8 ELSE 5
<1>1. Ahead("settings", why) = 12 /\ Ahead("auth", why) = 11 /\ Ahead("body", why) = 10
  BY DEF Ahead
<1>2. Ahead("backend", why) = 9 /\ Ahead("cloud", why) = 11 /\ Ahead("record", why) = 9
  BY DEF Ahead
<1>3. Ahead("attempted", why) = 8 /\ Ahead("reserve", why) = 7 /\ Ahead("quota", why) = 6
  BY DEF Ahead
<1>4. Ahead("send", why) = 4 /\ Ahead("streaming", why) = 2 /\ Ahead("done", why) = 0
  BY DEF Ahead
<1>5. Ahead("sent", why) = 1 /\ Ahead("rejecting", why) = 1
  BY DEF Ahead
<1>6. Ahead("self-hosted", why) = IF why = "initial" THEN 8 ELSE 5
  BY DEF Ahead
<1>7. QED
  BY <1>1, <1>2, <1>3, <1>4, <1>5, <1>6

LEMMA StepsLeftTyped ==
    ASSUME FlowTypes
    PROVE  /\ Untried \in Nat
           /\ Ahead(pc, asking) \in 0..12
           /\ StepsLeft \in Nat
<1>1. Untried \in Nat
  BY TriedFinite, FlowKeys, FS_CardinalityType DEF Untried
<1>2. Ahead(pc, asking) \in 0..12
  BY AheadIs DEF FlowTypes, Fresh, OnCloud, Looping, Answering
<1>3. QED
  BY <1>1, <1>2 DEF StepsLeft, One

LEMMA StepTakesOne ==
    ASSUME FlowInv, FlowInv', Next
    PROVE  StepsLeft' < StepsLeft
<1> USE DEF FlowInv
<1>a. /\ Untried \in Int /\ Untried' \in Int
      /\ Ahead(pc, asking) \in 0..12 /\ Ahead(pc', asking') \in 0..12
      /\ tried' = tried => Untried' = Untried
  <2>1. FlowTypes /\ FlowTypes'
    OBVIOUS
  <2>2. Untried \in Int /\ Ahead(pc, asking) \in 0..12
    BY <2>1, StepsLeftTyped
  <2>3. Untried' \in Int
    <3>1. tried' \in SUBSET Keys
      BY <2>1 DEF FlowTypes
    <3>2. QED
      BY <3>1, FlowKeys, FS_Subset, FS_CardinalityType DEF Untried
  <2>4. Ahead(pc', asking') \in 0..12
    BY <2>1, AheadIs DEF FlowTypes, Fresh, OnCloud, Looping, Answering
  <2>5. QED
    BY <2>2, <2>3, <2>4 DEF Untried
<1>b. ASSUME tried' = tried, audit' = audit, result' = result,
             Ahead(pc', asking') < Ahead(pc, asking)
      PROVE  StepsLeft' < StepsLeft
  BY <1>a, <1>b DEF StepsLeft, One
<1>c. ASSUME tried' = tried, Ahead(pc', asking') + 2 < Ahead(pc, asking)
      PROVE  StepsLeft' < StepsLeft
  BY <1>a, <1>c DEF StepsLeft, One
<1>1. CASE LoadSettings
  BY <1>1, <1>b, AheadIs DEF LoadSettings, sideVars
<1>2. CASE RejectUrl \/ DatabaseFails
  BY <1>2, <1>c, AheadIs DEF RejectUrl, DatabaseFails, EndAtOnce
<1>3. CASE Authenticate
  BY <1>3, <1>b, <1>c, AheadIs DEF Authenticate, Reject
<1>4. CASE InspectBody
  <2>1. pc = "body" /\ tried' = tried
    BY <1>4 DEF InspectBody
  <2>2. pc' = "rejecting" \/ (pc' = "backend" /\ audit' = audit /\ result' = result)
    BY <1>4 DEF InspectBody, Reject
  <2>3. QED
    BY <2>1, <2>2, <1>b, <1>c, AheadIs
<1>5. CASE ChooseBackend
  <2>1. pc = "backend" /\ tried' = tried
    BY <1>5 DEF ChooseBackend
  <2>2. \/ pc' = "rejecting"
        \/ pc' = "reserve" /\ audit' = audit /\ result' = result
        \/ pc' = "self-hosted" /\ audit' = audit /\ result' = result
    <3>1. ChooseInitialBackend \in {"cloud", "reject", "self-hosted"}
      BY ModeKnown DEF ChooseInitialBackend, Modes
    <3>2. QED
      BY <1>5, <3>1 DEF ChooseBackend, Reject, CallSelfHosted
  <2>3. QED
    BY <2>1, <2>2, <1>b, <1>c, AheadIs
<1>6. ASSUME NEW k \in Keys, ReserveKey(k)
      PROVE  StepsLeft' < StepsLeft
  <2>1. Cardinality(tried') = Cardinality(tried) + 1 /\ Cardinality(tried) \in Nat
    BY <1>6, TriedFinite DEF ReserveKey
  <2>2. Untried' = Untried - 1
    BY <2>1, FlowKeys, FS_CardinalityType DEF Untried
  <2>3. Ahead(pc, asking) = 7 /\ Ahead(pc', asking') = 11
    BY <1>6, AheadIs DEF ReserveKey
  <2>4. audit' = audit /\ result' = result
    BY <1>6 DEF ReserveKey
  <2>5. QED
    BY <1>a, <2>2, <2>3, <2>4 DEF StepsLeft, One
<1>7. CASE NothingReserved
  <2>1. pc = "reserve" /\ tried' = tried
    BY <1>7 DEF NothingReserved
  <2>2. \/ pc' = "rejecting"
        \/ pc' \in {"send", "quota"} /\ audit' = audit /\ result' = result
        \/ pc' = "self-hosted" /\ asking' = "no-pool" /\ audit' = audit /\ result' = result
    BY <1>7 DEF NothingReserved, Reject, CallSelfHosted, Phases, Looping
  <2>3. QED
    BY <2>1, <2>2, <1>b, <1>c, AheadIs
<1>8. CASE RecordAttempt
  BY <1>8, <1>b, AheadIs DEF RecordAttempt
<1>9. CASE FirstAttempted
  BY <1>9, <1>b, AheadIs DEF FirstAttempted, sideVars
<1>10. CASE RetryAttempted
  BY <1>10, <1>b, AheadIs DEF RetryAttempted, sideVars
<1>11. CASE QuotaFallback
  BY <1>11, <1>b, AheadIs DEF QuotaFallback, CallSelfHosted
<1>12. CASE SendReply
  <2>1. /\ tried' = tried /\ result' = result /\ audit' = "writing"
        /\ Ahead(pc, asking) = 4 /\ Ahead(pc', asking') \in {1, 2}
    BY <1>12, AheadIs DEF SendReply
  <2>2. QED
    BY <1>a, <2>1 DEF StepsLeft, One
<1>13. CASE AuditSettles
  <2>1. tried' = tried /\ result' = result /\ audit = "writing" /\ audit' = "settled"
        /\ Ahead(pc', asking') = Ahead(pc, asking)
    BY <1>13, AheadIs DEF AuditSettles, flowVars
  <2>2. QED
    BY <1>a, <2>1 DEF StepsLeft, One
<1>14. CASE Return
  BY <1>14, <1>b, AheadIs DEF Return, sideVars
<1>15. ASSUME NEW outcome \in Outcomes, NEW stream \in BOOLEAN, NEW observed \in BOOLEAN,
              CloudAnswers(outcome, stream, observed)
       PROVE  StepsLeft' < StepsLeft
  <2>1. tried' = tried /\ audit' = audit /\ Ahead(pc, asking) = 11 /\ Ahead(pc', asking') = 9
    BY <1>15, AheadIs DEF CloudAnswers
  <2>2. QED
    BY <1>a, <2>1 DEF StepsLeft, One
<1>16. ASSUME NEW outcome \in Outcomes, NEW stream \in BOOLEAN, SelfHostedAnswers(outcome, stream)
       PROVE  StepsLeft' < StepsLeft
  <2>1. tried' = tried /\ audit' = audit /\ ~result'.observed
    BY <1>16 DEF SelfHostedAnswers, Receive
  <2>2. Ahead(pc', asking') < Ahead(pc, asking)
    BY <1>16, AheadIs DEF SelfHostedAnswers
  <2>3. QED
    BY <1>a, <2>1, <2>2 DEF StepsLeft, One
<1>17. ASSUME NEW how, StreamEnds(how)
       PROVE  StepsLeft' < StepsLeft
  <2>1. /\ tried' = tried /\ audit' = audit /\ result' = result
        /\ Ahead(pc, asking) = 2 /\ Ahead(pc', asking') = 1
    BY <1>17, AheadIs DEF StreamEnds
  <2>2. QED
    BY <1>b, <2>1
<1>18. CASE CreditsObserved
  <2>1. /\ tried' = tried /\ audit' = audit /\ result.observed /\ ~result'.observed
        /\ Ahead(pc', asking') = Ahead(pc, asking)
    BY <1>18, AheadIs DEF CreditsObserved, FlowTypes, Results
  <2>2. QED
    BY <1>a, <2>1 DEF StepsLeft, One
<1>19. QED
  BY <1>1, <1>2, <1>3, <1>4, <1>5, <1>6, <1>7, <1>8, <1>9, <1>10, <1>11, <1>12, <1>13, <1>14,
     <1>15, <1>16, <1>17, <1>18 DEF Next, Steps, Upstream

(***************************************************************************)
(* Every step of a request, of the tasks beside it and of its upstreams    *)
(* takes it nearer to its end: it has at most 13 + 5 * |Keys| of them, so  *)
(* neither the retry loop nor the fallbacks can go round for ever,         *)
(* whatever the backends answer.                                           *)
(***************************************************************************)
THEOREM RequestsAreBounded ==
    Spec => /\ StepsLeft = 13 + 5 * Cardinality(Keys)
            /\ [](StepsLeft \in Nat)
            /\ [][StepsLeft' < StepsLeft]_vars
<1>1. Init => StepsLeft = 13 + 5 * Cardinality(Keys)
  <2> SUFFICES ASSUME Init PROVE StepsLeft = 13 + 5 * Cardinality(Keys)
    OBVIOUS
  <2>1. tried = {} /\ pc = "settings" /\ audit = "none" /\ ~result.observed
    BY DEF Init, NoResult
  <2>2. Untried = Cardinality(Keys) /\ Cardinality(Keys) \in Nat
    BY <2>1, FlowKeys, FS_EmptySet, FS_CardinalityType DEF Untried
  <2>3. One(audit # "settled") = 1 /\ One(result.observed) = 0
    BY <2>1 DEF One
  <2>4. QED
    BY <2>1, <2>2, <2>3, AheadIs DEF StepsLeft
<1>2. FlowInv => StepsLeft \in Nat
  BY StepsLeftTyped DEF FlowInv
<1>3. FlowInv /\ FlowInv' /\ [Next]_vars => [StepsLeft' < StepsLeft]_vars
  BY StepTakesOne
<1>4. QED
  BY <1>1, <1>2, <1>3, FlowInvariant, PTL DEF Spec

-----------------------------------------------------------------------------
(***************************************************************************)
(* The scanner of the answers.  ScannerExact is not inductive: it speaks   *)
(* of values found, and whether the next one is found depends on what the  *)
(* scanner remembers of the document.  The invariant says, for every place *)
(* of the JSON grammar, what that is: its two depths count the containers  *)
(* that are open, its metadata depths say whether the place is within the  *)
(* metadata of the whole document, its pending key is the key of the value *)
(* to come as far as that matters, and its number is the digits so far.    *)
(* A number's value is a recursive function; that one exists for the       *)
(* digits of the number under way, and only one, is itself part of the     *)
(* invariant, kept digit by digit, so that no induction over data is used. *)
(***************************************************************************)
(* The scanner's state, whatever it has read. *)
TextBytes == Letters \cup {"quote", "backslash", "other", "0"}
Keyed == Sought \cup {Null}
ScanStates == {"outside", "string", "after-key", "after-colon", "digits", "after-digits"}

Scanners ==
    [state : ScanStates, escaped : BOOLEAN, candidate : Seq(TextBytes), hasEscape : BOOLEAN,
     pendingKey : Seq(TextBytes) \cup {Null}, value : 0..MaxSafe, overflow : BOOLEAN,
     objectDepth : Nat, arrayDepth : Nat, metadataObjectDepth : Nat \cup {Null},
     metadataArrayDepth : Nat \cup {Null}, found : Nat \cup {Null}]

Containers == [kind : {"object", "array"}, key : Keyed]
Places == {"value", "first", "key", "inKey", "escapeKey", "inString", "escapeString", "colon",
           "after", "minus", "number", "afterNumber"}

Documents ==
    [open : Seq(Containers), at : Places, key : Keyed, text : Seq(TextBytes), plain : BOOLEAN,
     number : Seq(Digits), integer : BOOLEAN]

(* value is the function that ValueOf() reads a number with. *)
IsValue(value, number) ==
    value = [n \in 0..Len(number) |->
                IF n = 0 THEN 0 ELSE 2 * value[n - 1] + DigitValue(number[n])]

(* A number has one value. *)
Valued(number) ==
    \E value \in [0..Len(number) -> Nat] :
       IsValue(value, number) /\ \A other : IsValue(other, number) => other = value

(* What the grammar keeps of a document. *)
WellFormed ==
    /\ doc \in Documents
    /\ Len(doc.open) <= MaxDepth
    /\ Valued(doc.number)
    /\ doc.open # <<>> => doc.open[1].key = Null
    /\ doc.key # Null => Within = "object"
    /\ doc.at = "first" => doc.open # <<>> /\ doc.key = Null
    /\ doc.at \in {"key", "inKey", "escapeKey", "colon"} => Within = "object"
    /\ doc.at \in {"value", "first", "colon"} => doc.integer /\ doc.number = <<>>
    /\ doc.at \in {"first", "key"} => doc.text = <<>> /\ doc.plain
    /\ doc.at = "minus" => ~doc.integer

Objects(open) == {i \in DOMAIN open : open[i].kind = "object"}
Arrays(open) == {i \in DOMAIN open : open[i].kind = "array"}

(* The place is within the metadata of the whole document. *)
InMetadata(open) ==
    /\ Len(open) >= 2
    /\ open[1].kind = "object"
    /\ open[2] = [kind |-> "object", key |-> MetadataKey]
MetadataPath == <<[kind |-> "object", key |-> Null], [kind |-> "object", key |-> MetadataKey]>>

(* The scanner's counters are the containers that are open. *)
Depths ==
    /\ s.objectDepth = Cardinality(Objects(doc.open))
    /\ s.arrayDepth = Cardinality(Arrays(doc.open))
    /\ s.metadataObjectDepth = IF InMetadata(doc.open) THEN 2 ELSE Null
    /\ s.metadataArrayDepth = IF InMetadata(doc.open) THEN 0 ELSE Null

(* The key it remembers is that of the value to come, if that matters. *)
Pending == \A k \in Sought : s.pendingKey = k <=> doc.key = k

(* It holds as much of a string as tells whether it is one of the keys: a  *)
(* buffer that is too long, or has a backslash in it, is none.             *)
MayBeKey(text) == text \in Seq(Letters) /\ Len(text) <= MaxScannedKeyLength
Spoilt(buffer) ==
    Len(buffer) > MaxScannedKeyLength \/ \E i \in 1..Len(buffer) : buffer[i] = "backslash"
Buffered ==
    /\ s.hasEscape = ~doc.plain
    /\ doc.plain => (IF MayBeKey(doc.text) THEN s.candidate = doc.text ELSE Spoilt(s.candidate))

(* The number being written is metadata.creditsUsed, and the scanner has   *)
(* its value, unless it is too large.                                      *)
Tracked == doc.integer /\ doc.key = CreditsUsedKey /\ doc.open = MetadataPath
Added ==
    /\ s.overflow = (ValueOf(doc.number) > MaxSafe)
    /\ ~s.overflow => s.value = ValueOf(doc.number)

(* The scanner's state is the place in the document. *)
States ==
    /\ doc.at \in {"first", "key", "minus"} => s.state = "outside"
    /\ doc.at = "value" => (IF Within = "object" THEN s.state = "after-colon" /\ Pending
                            ELSE s.state = "outside")
    /\ doc.at = "colon" => s.state = "after-key" /\ Pending
    /\ doc.at = "inKey" => s.state = "string" /\ ~s.escaped /\ Buffered
    /\ doc.at = "inString" => s.state = "string" /\ ~s.escaped
    /\ doc.at \in {"escapeKey", "escapeString"} => s.state = "string" /\ s.escaped /\ s.hasEscape
    /\ doc.at = "after" => s.state \in {"outside", "after-key"}
    /\ doc.at = "number" => (IF Tracked THEN s.state = "digits" /\ Added ELSE s.state = "outside")
    /\ doc.at = "afterNumber" => (IF Tracked THEN s.state = "after-digits" /\ Added
                                  ELSE s.state = "outside")

(* Until it has found a value, the scanner follows the document.  (What it *)
(* does after that, when it ignores every byte, concerns nobody.)          *)
Follows == Depths /\ States /\ (s.escaped => s.state = "string")

(* The scanner is one, with a bounded buffer and bounded depths. *)
ScannerTypes ==
    /\ s \in Scanners
    /\ Len(s.candidate) <= MaxScannedKeyLength + 2
    /\ s.objectDepth <= MaxDepth /\ s.arrayDepth <= MaxDepth
    /\ expected \in Nat \cup {Null}

(* The inductive invariant. *)
ScannerInv ==
    /\ ScannerTypes
    /\ WellFormed
    /\ s.found = expected
    /\ s.found = Null => Follows

-----------------------------------------------------------------------------
(* Numbers *)

LEMMA DigitIsNat == ASSUME NEW d PROVE DigitValue(d) \in 0..1
  BY DEF DigitValue

LEMMA ValueIs == ASSUME NEW number \in Seq(Digits), NEW value, IsValue(value, number),
                        \A other : IsValue(other, number) => other = value
                 PROVE  ValueOf(number) = value[Len(number)]
<1> DEFINE Reads(v) == v = [n \in 0..Len(number) |->
                               IF n = 0 THEN 0 ELSE 2 * v[n - 1] + DigitValue(number[n])]
<1>1. Reads(value)
  BY DEF IsValue
<1>2. \A other : Reads(other) => other = value
  BY DEF IsValue
<1> HIDE DEF Reads
<1>3. (CHOOSE v : Reads(v)) = value
  BY <1>1, <1>2, Zenon
<1>4. QED
  BY <1>3 DEF ValueOf, Reads

LEMMA EmptyNumber == Valued(<<>>) /\ ValueOf(<<>>) = 0
<1> DEFINE zero == [n \in {0} |-> 0]
<1>1. Len(<<>>) = 0 /\ 0..Len(<<>>) = {0}
  OBVIOUS
<1>2. \A v : IsValue(v, <<>>) <=> v = zero
  BY <1>1 DEF IsValue
<1>3. zero \in [0..Len(<<>>) -> Nat]
  BY <1>1
<1>4. <<>> \in Seq(Digits) /\ zero[Len(<<>>)] = 0
  BY <1>1
<1>5. ValueOf(<<>>) = zero[Len(<<>>)]
  BY <1>2, <1>4, ValueIs
<1>6. QED
  BY <1>2, <1>3, <1>4, <1>5 DEF Valued

(* A number with one more digit has one value too, twice as large. *)
LEMMA OneMoreDigit ==
    ASSUME NEW number \in Seq(Digits), Valued(number), NEW d \in Digits
    PROVE  /\ Append(number, d) \in Seq(Digits)
           /\ Valued(Append(number, d))
           /\ ValueOf(number) \in Nat
           /\ ValueOf(Append(number, d)) = 2 * ValueOf(number) + DigitValue(d)
<1> DEFINE longer == Append(number, d)
           len == Len(number)
<1>1. /\ longer \in Seq(Digits) /\ Len(longer) = len + 1 /\ len \in Nat
      /\ \A i \in 1..len : longer[i] = number[i]
      /\ longer[len + 1] = d
  OBVIOUS
<1>2. PICK value \in [0..len -> Nat] :
         IsValue(value, number) /\ \A other : IsValue(other, number) => other = value
  BY DEF Valued
<1>3. ValueOf(number) = value[len] /\ value[len] \in Nat
  BY <1>1, <1>2, ValueIs
<1> DEFINE more == [n \in 0..(len + 1) |->
                       IF n = len + 1 THEN 2 * value[len] + DigitValue(d) ELSE value[n]]
<1>4. more \in [0..(len + 1) -> Nat]
  BY <1>1, <1>3, DigitIsNat
<1>5. \A n \in 0..len : value[n] = IF n = 0 THEN 0 ELSE 2 * value[n - 1] + DigitValue(number[n])
  BY <1>2 DEF IsValue
<1>6. \A n \in 0..(len + 1) :
         more[n] = IF n = 0 THEN 0 ELSE 2 * more[n - 1] + DigitValue(longer[n])
  <2>1. SUFFICES ASSUME NEW n \in 0..(len + 1)
                 PROVE  more[n] = IF n = 0 THEN 0 ELSE 2 * more[n - 1] + DigitValue(longer[n])
    OBVIOUS
  <2>2. CASE n = len + 1
    BY <1>1, <2>2
  <2>3. CASE n # len + 1
    BY <1>1, <1>5, <2>3
  <2>4. QED
    BY <2>2, <2>3
<1>7. IsValue(more, longer)
  BY <1>1, <1>6 DEF IsValue
<1>8. ASSUME NEW other, IsValue(other, longer)
      PROVE  other = more
  <2>0. other = [n \in 0..(len + 1) |-> other[n]]
    BY <1>1, <1>8 DEF IsValue
  <2>1. \A n \in 0..(len + 1) :
           other[n] = IF n = 0 THEN 0 ELSE 2 * other[n - 1] + DigitValue(longer[n])
    BY <1>1, <1>8 DEF IsValue
  <2> DEFINE start == [n \in 0..len |-> other[n]]
  <2>2. \A n \in 0..len : start[n] = IF n = 0 THEN 0 ELSE 2 * start[n - 1] + DigitValue(number[n])
    <3>1. SUFFICES ASSUME NEW n \in 0..len
                   PROVE  start[n] = IF n = 0 THEN 0 ELSE 2 * start[n - 1] + DigitValue(number[n])
      OBVIOUS
    <3>2. other[n] = IF n = 0 THEN 0 ELSE 2 * other[n - 1] + DigitValue(longer[n])
      <4>1. n \in 0..(len + 1)
        BY <1>1
      <4>2. QED
        BY <2>1, <4>1, Zenon
    <3>3. n # 0 => n - 1 \in 0..len /\ longer[n] = number[n]
      BY <1>1
    <3>4. QED
      BY <3>2, <3>3
  <2>3. IsValue(start, number)
    BY <2>2 DEF IsValue
  <2>4. start = value
    BY <1>2, <2>3
  <2>5. \A n \in 0..len : other[n] = value[n]
    BY <2>4
  <2>6. other[len + 1] = 2 * value[len] + DigitValue(d)
    BY <1>1, <2>1, <2>5
  <2>7. \A n \in 0..(len + 1) : other[n] = more[n]
    BY <1>1, <2>5, <2>6
  <2>8. QED
    BY <2>0, <2>7, Zenon
<1>9. Valued(longer) /\ ValueOf(longer) = more[len + 1]
  BY <1>1, <1>4, <1>7, <1>8, ValueIs DEF Valued
<1>10. QED
  BY <1>1, <1>3, <1>9

(* The scanner's test for an overflow is that of the sum. *)
LEMMA OverflowIsSeen ==
    ASSUME NEW v \in 0..MaxSafe, NEW d \in 0..1
    PROVE  (v > (MaxSafe - d) \div 2) <=> (2 * v + d > MaxSafe)
  BY ScannerConstants

-----------------------------------------------------------------------------
(* Containers *)

(* Each open container is counted as an object or as an array. *)
LEMMA Counts ==
    ASSUME NEW open \in Seq(Containers)
    PROVE  /\ IsFiniteSet(Objects(open)) /\ IsFiniteSet(Arrays(open))
           /\ Cardinality(Objects(open)) \in Nat /\ Cardinality(Arrays(open)) \in Nat
           /\ Cardinality(Objects(open)) + Cardinality(Arrays(open)) = Len(open)
<1>1. Len(open) \in Nat /\ DOMAIN open = 1..Len(open)
      /\ \A i \in 1..Len(open) : open[i].kind \in {"object", "array"}
  <2>1. Len(open) \in Nat /\ DOMAIN open = 1..Len(open)
    BY LenProperties
  <2>2. \A i \in 1..Len(open) : open[i] \in Containers
    BY ElementOfSeq
  <2>3. QED
    BY <2>1, <2>2 DEF Containers
<1>2. Objects(open) \cup Arrays(open) = 1..Len(open) /\ Objects(open) \cap Arrays(open) = {}
  BY <1>1 DEF Objects, Arrays
<1>3. IsFiniteSet(1..Len(open)) /\ Cardinality(1..Len(open)) = Len(open)
  <2>1. 1 \in Int /\ Len(open) \in Int /\ (1 > Len(open) <=> Len(open) = 0)
    BY <1>1
  <2>2. QED
    BY <1>1, <2>1, FS_Interval
<1>4. IsFiniteSet(Objects(open)) /\ IsFiniteSet(Arrays(open))
  BY <1>2, <1>3, FS_Subset
<1>5. Cardinality(Objects(open) \cup Arrays(open)) =
         Cardinality(Objects(open)) + Cardinality(Arrays(open))
            - Cardinality(Objects(open) \cap Arrays(open))
  BY <1>4, FS_Union
<1>6. Cardinality(Objects(open)) \in Nat /\ Cardinality(Arrays(open)) \in Nat
  BY <1>4, FS_CardinalityType
<1>7. Cardinality(Objects(open) \cup Arrays(open)) = Len(open)
      /\ Cardinality(Objects(open) \cap Arrays(open)) = 0
  BY <1>2, <1>3, FS_EmptySet, Zenon
<1>8. QED
  BY <1>4, <1>5, <1>6, <1>7

(* One more container. *)
LEMMA CountsOpened ==
    ASSUME NEW open \in Seq(Containers), NEW c \in Containers
    PROVE  /\ Append(open, c) \in Seq(Containers)
           /\ Cardinality(Objects(Append(open, c))) =
                 IF c.kind = "object" THEN Cardinality(Objects(open)) + 1
                 ELSE Cardinality(Objects(open))
           /\ Cardinality(Arrays(Append(open, c))) =
                 IF c.kind = "array" THEN Cardinality(Arrays(open)) + 1
                 ELSE Cardinality(Arrays(open))
<1> DEFINE n == Len(open) + 1
<1>1. n \notin Objects(open) /\ n \notin Arrays(open)
  BY DEF Objects, Arrays
<1>2. Objects(Append(open, c)) =
         IF c.kind = "object" THEN Objects(open) \cup {n} ELSE Objects(open)
  BY DEF Objects
<1>3. Arrays(Append(open, c)) =
         IF c.kind = "array" THEN Arrays(open) \cup {n} ELSE Arrays(open)
  BY DEF Arrays
<1>4. Append(open, c) \in Seq(Containers)
  OBVIOUS
<1>5. /\ Cardinality(Objects(open) \cup {n}) = Cardinality(Objects(open)) + 1
      /\ Cardinality(Arrays(open) \cup {n}) = Cardinality(Arrays(open)) + 1
  BY <1>1, Counts, FS_AddElement
<1>6. QED
  BY <1>2, <1>3, <1>4, <1>5

(* One container less. *)
LEMMA CountsClosed ==
    ASSUME NEW open \in Seq(Containers), open # <<>>
    PROVE  /\ Front(open) \in Seq(Containers) /\ Len(Front(open)) = Len(open) - 1
           /\ \A i \in 1..(Len(open) - 1) : Front(open)[i] = open[i]
           /\ Last(open) = open[Len(open)] /\ Last(open) \in Containers
           /\ Cardinality(Objects(Front(open))) =
                 IF Last(open).kind = "object" THEN Cardinality(Objects(open)) - 1
                 ELSE Cardinality(Objects(open))
           /\ Cardinality(Arrays(Front(open))) =
                 IF Last(open).kind = "array" THEN Cardinality(Arrays(open)) - 1
                 ELSE Cardinality(Arrays(open))
<1> DEFINE front == Front(open)
           c == Last(open)
<1>1. Len(open) \in Nat \ {0} /\ c = open[Len(open)] /\ c \in Containers
  BY DEF Last
<1>2. front \in Seq(Containers) /\ Len(front) = Len(open) - 1
      /\ \A i \in 1..(Len(open) - 1) : front[i] = open[i]
  <2>1. \A i \in 1..(Len(open) - 1) : open[i] \in Containers
    BY <1>1
  <2>2. QED
    <3>1. 1 \in Int /\ Len(open) - 1 \in Int
      BY <1>1
    <3>2. /\ front \in Seq(Containers)
          /\ Len(front) = IF 1 <= Len(open) - 1 THEN (Len(open) - 1) - 1 + 1 ELSE 0
          /\ \A i \in 1..((Len(open) - 1) - 1 + 1) : front[i] = open[1 + i - 1]
      BY <2>1, <3>1, SubSeqProperties DEF Front
    <3>3. Len(front) = Len(open) - 1
      <4>1. Len(open) \in Nat /\ Len(open) >= 1
        BY <1>1
      <4>2. \A n \in Nat : n >= 1 => (IF 1 <= n - 1 THEN (n - 1) - 1 + 1 ELSE 0) = n - 1
        OBVIOUS
      <4>3. QED
        BY <3>2, <4>1, <4>2, Zenon
    <3>4. \A i \in 1..(Len(open) - 1) : front[i] = open[i]
      BY <1>1, <3>2
    <3>5. QED
      BY <3>2, <3>3, <3>4, Zenon
<1>3. open = Append(front, c)
  BY <1>1, <1>2
<1>4. /\ Cardinality(Objects(front)) \in Nat /\ Cardinality(Arrays(front)) \in Nat
      /\ Cardinality(Objects(Append(front, c))) =
            IF c.kind = "object" THEN Cardinality(Objects(front)) + 1
            ELSE Cardinality(Objects(front))
      /\ Cardinality(Arrays(Append(front, c))) =
            IF c.kind = "array" THEN Cardinality(Arrays(front)) + 1
            ELSE Cardinality(Arrays(front))
  BY <1>1, <1>2, Counts, CountsOpened
<1>5. c.kind \in {"object", "array"}
  BY <1>1 DEF Containers
<1>6. /\ Cardinality(Objects(front)) =
            IF c.kind = "object" THEN Cardinality(Objects(open)) - 1 ELSE Cardinality(Objects(open))
      /\ Cardinality(Arrays(front)) =
            IF c.kind = "array" THEN Cardinality(Arrays(open)) - 1 ELSE Cardinality(Arrays(open))
  <2>1. Cardinality(Objects(Append(front, c))) = Cardinality(Objects(open))
        /\ Cardinality(Arrays(Append(front, c))) = Cardinality(Arrays(open))
    BY <1>3, Zenon
  <2>2. QED
    BY <1>4, <1>5, <2>1
<1>7. QED
  BY <1>1, <1>2, <1>6

(* What the counters tell of the place. *)
LEMMA CountsPlace ==
    ASSUME NEW open \in Seq(Containers)
    PROVE  /\ Cardinality(Objects(open)) = 1 /\ Cardinality(Arrays(open)) = 0
                 <=> Len(open) = 1 /\ open[1].kind = "object"
           /\ InMetadata(open) =>
                 /\ Cardinality(Objects(open)) >= 2
                 /\ Cardinality(Objects(open)) = 2 /\ Cardinality(Arrays(open)) = 0
                       <=> Len(open) = 2
                 /\ Cardinality(Objects(open)) = 2 /\ open[Len(open)].kind = "object"
                       <=> Len(open) = 2
<1>0. /\ Cardinality(Objects(open)) \in Nat /\ Cardinality(Arrays(open)) \in Nat
      /\ Cardinality(Objects(open)) + Cardinality(Arrays(open)) = Len(open)
  BY Counts
<1>1. ASSUME Cardinality(Arrays(open)) = 0, NEW i \in 1..Len(open)
      PROVE  open[i].kind = "object"
  <2>1. Arrays(open) = {}
    BY <1>1, Counts, FS_EmptySet
  <2>2. open[i] \in Containers /\ i \in DOMAIN open
    BY LenProperties, ElementOfSeq
  <2>3. QED
    BY <2>1, <2>2 DEF Arrays, Containers
<1>2. ASSUME NEW S, S \subseteq Objects(open)
      PROVE  IsFiniteSet(S) /\ Cardinality(S) <= Cardinality(Objects(open))
  BY <1>2, Counts, FS_Subset
<1>3. ASSUME \A i \in 1..Len(open) : open[i].kind = "object"
      PROVE  Cardinality(Arrays(open)) = 0 /\ Cardinality(Objects(open)) = Len(open)
  <2>1. Arrays(open) = {}
    BY <1>3 DEF Arrays
  <2>2. Cardinality(Arrays(open)) = 0
    BY <2>1, FS_EmptySet
  <2>3. QED
    BY <2>2, Counts
<1>4. (Cardinality(Objects(open)) = 1 /\ Cardinality(Arrays(open)) = 0)
         <=> (Len(open) = 1 /\ open[1].kind = "object")
  <2>1. ASSUME Cardinality(Objects(open)) = 1, Cardinality(Arrays(open)) = 0
        PROVE  Len(open) = 1 /\ open[1].kind = "object"
    <3>1. Len(open) = 1
      BY <1>0, <2>1
    <3>2. QED
      BY <1>1, <2>1, <3>1
  <2>2. ASSUME Len(open) = 1, open[1].kind = "object"
        PROVE  Cardinality(Objects(open)) = 1 /\ Cardinality(Arrays(open)) = 0
    BY <1>3, <2>2
  <2>3. QED
    BY <2>1, <2>2
<1>5. ASSUME InMetadata(open)
      PROVE  /\ Cardinality(Objects(open)) >= 2
             /\ (Cardinality(Objects(open)) = 2 /\ Cardinality(Arrays(open)) = 0)
                   <=> Len(open) = 2
             /\ (Cardinality(Objects(open)) = 2 /\ open[Len(open)].kind = "object")
                   <=> Len(open) = 2
  <2>1. Len(open) >= 2 /\ open[1].kind = "object" /\ open[2].kind = "object"
    BY <1>5 DEF InMetadata
  <2>2. {1, 2} \subseteq Objects(open)
    BY <2>1 DEF Objects
  <2>3. IsFiniteSet({1, 2}) /\ Cardinality({1, 2}) = 2
    <3>1. {1, 2} = {1} \cup {2} /\ 2 \notin {1}
      OBVIOUS
    <3>2. IsFiniteSet({1}) /\ Cardinality({1}) = 1
      BY FS_Singleton
    <3>3. /\ IsFiniteSet({1} \cup {2})
          /\ Cardinality({1} \cup {2}) =
                IF 2 \in {1} THEN Cardinality({1}) ELSE Cardinality({1}) + 1
      BY <3>2, FS_AddElement, Zenon
    <3>4. Cardinality({1} \cup {2}) = 2
      <4>1. 1 + 1 = 2
        OBVIOUS
      <4>2. QED
        BY <3>1, <3>2, <3>3, <4>1, Zenon
    <3>5. QED
      BY <3>1, <3>3, <3>4, Zenon
  <2>4. Cardinality(Objects(open)) >= 2
    BY <1>2, <2>2, <2>3, Counts
  <2>5. Len(open) = 2 => Cardinality(Arrays(open)) = 0 /\ Cardinality(Objects(open)) = 2
    BY <1>3, <2>1
  <2>6. ASSUME Len(open) > 2, open[Len(open)].kind = "object"
        PROVE  Cardinality(Objects(open)) >= 3
    <3>1. {1, 2, Len(open)} \subseteq Objects(open)
      BY <2>1, <2>6 DEF Objects
    <3>2. Cardinality({1, 2} \cup {Len(open)}) = 3
      <4>1. Len(open) \notin {1, 2}
        BY <2>6
      <4>2. Cardinality({1, 2} \cup {Len(open)}) =
               IF Len(open) \in {1, 2} THEN Cardinality({1, 2}) ELSE Cardinality({1, 2}) + 1
        BY <2>3, FS_AddElement, Zenon
      <4>3. 2 + 1 = 3
        OBVIOUS
      <4>4. QED
        BY <2>3, <4>1, <4>2, <4>3, Zenon
    <3>3. {1, 2, Len(open)} = {1, 2} \cup {Len(open)}
      OBVIOUS
    <3>4. QED
      BY <1>2, <3>1, <3>2, <3>3, Counts
  <2>7. Cardinality(Arrays(open)) = 0 /\ Cardinality(Objects(open)) = 2 => Len(open) = 2
    BY <1>0
  <2>8. Cardinality(Objects(open)) = 2 /\ open[Len(open)].kind = "object" => Len(open) = 2
    BY <1>0, <2>1, <2>6
  <2>9. QED
    BY <2>1, <2>4, <2>5, <2>7, <2>8
<1>6. QED
  BY <1>4, <1>5

-----------------------------------------------------------------------------
(* The document *)

LEMMA SoughtTyped ==
    /\ Sought \subseteq Seq(TextBytes)
    /\ Null \notin Sought
    /\ Keyed = Sought \cup {Null}
  BY ScannerConstants, SeqMonotonic DEF Sought, TextBytes, Keyed

(* What a byte of a string leaves in the buffer. *)
LEMMA BufferGrows ==
    ASSUME NEW buffer \in Seq(TextBytes), NEW byte \in Letters \cup {"other"}, NEW longer,
           longer = buffer \o (IF byte = "other" THEN Unprintable ELSE <<byte>>)
    PROVE  /\ longer \in Seq(TextBytes)
           /\ Len(buffer) \in Nat /\ Len(longer) \in {Len(buffer) + 1, Len(buffer) + 2}
           /\ byte # "other" => longer = Append(buffer, byte)
           /\ Spoilt(buffer) \/ byte = "other" => Spoilt(longer)
<1> DEFINE piece == IF byte = "other" THEN Unprintable ELSE <<byte>>
<1>1. piece \in Seq(TextBytes) /\ Len(piece) \in {1, 2}
  <2>1. {"backslash", "0", byte} \subseteq TextBytes
    BY DEF TextBytes
  <2>2. Unprintable \in Seq(TextBytes) /\ Len(Unprintable) = 2
    BY <2>1 DEF Unprintable
  <2>3. <<byte>> \in Seq(TextBytes) /\ Len(<<byte>>) = 1
    BY <2>1
  <2>4. CASE byte = "other"
    BY <2>2, <2>4
  <2>5. CASE byte # "other"
    BY <2>3, <2>5
  <2>6. QED
    BY <2>4, <2>5
<1>2. byte = "other" => piece[1] = "backslash"
  BY DEF Unprintable
<1>3. byte # "other" => piece = <<byte>>
  OBVIOUS
<1> HIDE DEF piece
<1>4. /\ longer \in Seq(TextBytes) /\ Len(longer) = Len(buffer) + Len(piece)
      /\ \A i \in 1..Len(buffer) : longer[i] = buffer[i]
      /\ \A i \in 1..Len(piece) : longer[Len(buffer) + i] = piece[i]
      /\ Len(buffer) \in Nat
  BY <1>1 DEF piece
<1>5. byte # "other" => longer = Append(buffer, byte)
  BY <1>3, <1>4 DEF piece
<1>6. MaxScannedKeyLength \in Nat
  BY ScannerConstants
<1>7. Spoilt(buffer) => Spoilt(longer)
  BY <1>1, <1>4, <1>6 DEF Spoilt
<1>8. byte = "other" => Spoilt(longer)
  <2>1. Len(buffer) + 1 \in 1..Len(longer) /\ longer[Len(buffer) + 1] = piece[1]
    BY <1>1, <1>4
  <2>2. QED
    BY <1>2, <2>1 DEF Spoilt
<1>9. QED
  BY <1>1, <1>4, <1>5, <1>7, <1>8

(* A spoilt buffer is none of the keys. *)
LEMMA KeysMayBeKeys ==
    ASSUME NEW k \in Sought
    PROVE  MayBeKey(k) /\ ~Spoilt(k)
<1>1. k \in Seq(Letters) /\ Len(k) \in Nat /\ Len(k) <= MaxScannedKeyLength
      /\ MaxScannedKeyLength \in Nat /\ "backslash" \notin Letters
  BY ScannerConstants, LenProperties DEF Sought
<1>2. \A i \in 1..Len(k) : k[i] \in Letters
  BY <1>1
<1>3. QED
  BY <1>1, <1>2 DEF MayBeKey, Spoilt

(* What may be a key has no unprintable byte, and neither has its front. *)
LEMMA PrefixMayBeKey ==
    ASSUME NEW text \in Seq(TextBytes), NEW byte \in TextBytes, MayBeKey(Append(text, byte))
    PROVE  MayBeKey(text) /\ byte # "other"
<1> DEFINE longer == Append(text, byte)
<1>1. /\ Len(longer) = Len(text) + 1 /\ Len(text) \in Nat
      /\ \A i \in 1..Len(text) : longer[i] = text[i]
      /\ longer[Len(text) + 1] = byte
  BY AppendProperties, LenProperties
<1>2. longer \in Seq(Letters) /\ Len(longer) <= MaxScannedKeyLength /\ MaxScannedKeyLength \in Nat
  BY ScannerConstants DEF MayBeKey
<1> HIDE DEF longer
<1>3. \A i \in 1..Len(longer) : longer[i] \in Letters
  BY <1>2
<1>4. byte \in Letters /\ \A i \in 1..Len(text) : text[i] \in Letters
  BY <1>1, <1>3
<1>5. text \in Seq(Letters)
  BY <1>4, SeqDef
<1>6. QED
  BY <1>1, <1>2, <1>4, <1>5, ScannerConstants DEF MayBeKey

LEMMA NewDocumentTyped == NewDocument \in Documents
  BY SoughtTyped DEF NewDocument, Documents, Places

(* Every action emits one byte. *)
LEMMA Emits == ASSUME NEW byte, NEW next, Emit(byte, next)
               PROVE  s' = ProcessByte(s, byte) /\ doc' = next
  BY DEF Emit

(* Where the document stands on a container's edge or ahead of a value. *)
LEMMA WithinIs == ASSUME doc \in Documents
                  PROVE  /\ doc.open = <<>> <=> Within = "document"
                         /\ doc.open # <<>> => Within = doc.open[Len(doc.open)].kind
                         /\ Within \in {"document", "object", "array"}
<1>1. doc.open \in Seq(Containers)
  BY DEF Documents
<1>2. CASE doc.open = <<>>
  BY <1>2 DEF Within
<1>3. CASE doc.open # <<>>
  <2>1. Last(doc.open) = doc.open[Len(doc.open)] /\ Last(doc.open) \in Containers
    BY <1>1, <1>3, CountsClosed
  <2>2. QED
    BY <1>3, <2>1 DEF Within, Containers
<1>4. QED
  BY <1>2, <1>3

(* A new container. *)
LEMMA OpenedDocument ==
    ASSUME WellFormed, NEW kind \in {"object", "array"}, OpenContainer(kind)
    PROVE  WellFormed' /\ doc'.open = Append(doc.open, [kind |-> kind, key |-> doc.key])
           /\ doc'.at = "first"
<1> DEFINE c == [kind |-> kind, key |-> doc.key]
<1>1. doc \in Documents /\ doc.open \in Seq(Containers) /\ c \in Containers
  BY DEF WellFormed, Documents, Containers
<1>2. doc' = [NewDocument EXCEPT !.open = Append(doc.open, c), !.at = "first"]
  BY Emits DEF OpenContainer
<1>3. /\ Append(doc.open, c) \in Seq(Containers) /\ Append(doc.open, c) # <<>>
      /\ Len(Append(doc.open, c)) = Len(doc.open) + 1
      /\ Append(doc.open, c)[1] = IF doc.open = <<>> THEN c ELSE doc.open[1]
  <2>1. /\ Append(doc.open, c) \in Seq(Containers) /\ Append(doc.open, c) # <<>>
        /\ Len(Append(doc.open, c)) = Len(doc.open) + 1
        /\ \A i \in 1..Len(doc.open) : Append(doc.open, c)[i] = doc.open[i]
        /\ Append(doc.open, c)[Len(doc.open) + 1] = c
    BY <1>1, AppendProperties
  <2>2. doc.open = <<>> => Len(doc.open) + 1 = 1
    OBVIOUS
  <2>3. doc.open # <<>> => 1 \in 1..Len(doc.open)
    BY <1>1, EmptySeq
  <2>4. QED
    BY <2>1, <2>2, <2>3, Zenon
<1>4. /\ doc'.open = Append(doc.open, c) /\ doc'.at = "first" /\ doc'.key = Null
      /\ doc'.number = <<>> /\ doc'.integer /\ doc' \in Documents
      /\ doc'.text = <<>> /\ doc'.plain
  BY <1>2, <1>3, NewDocumentTyped DEF NewDocument, Documents, Places
<1>5. Len(doc.open) + 1 <= MaxDepth
  BY <1>1, ScannerConstants DEF OpenContainer
<1>6. doc.open = <<>> => doc.key = Null
  BY <1>1, WithinIs DEF WellFormed
<1>7. QED
  BY <1>3, <1>4, <1>5, <1>6, EmptyNumber DEF WellFormed

(* Places that leave the containers as they are. *)
LEMMA SamePlace ==
    ASSUME WellFormed, doc' \in Documents, doc'.open = doc.open, Valued(doc'.number),
           doc'.key # Null => Within = "object",
           doc'.at \in {"key", "inKey", "escapeKey", "colon"} => Within = "object",
           doc'.at = "first" => doc.at = "first" /\ doc'.key = Null,
           doc'.at \in {"value", "first", "colon"} => doc'.integer /\ doc'.number = <<>>,
           doc'.at \in {"first", "key"} => doc'.text = <<>> /\ doc'.plain,
           doc'.at = "minus" => ~doc'.integer
    PROVE  WellFormed' /\ Within' = Within
  BY DEF WellFormed, Within

LEMMA WellFormedKept == ASSUME WellFormed, ScannerNext PROVE WellFormed'
<1>0. doc \in Documents
  BY DEF WellFormed
<1>1. CASE Space
  BY <1>0, <1>1, Emits, SamePlace DEF Space, WellFormed
<1>2. CASE SpaceAfterNumber
  BY <1>0, <1>2, Emits, SamePlace DEF SpaceAfterNumber, WellFormed, Documents, Places
<1>3. CASE \E kind \in {"object", "array"} : OpenContainer(kind)
  BY <1>3, OpenedDocument
<1>4. CASE OpenString
  <2>1. doc' = [doc EXCEPT !.at = IF AtKey THEN "inKey" ELSE "inString"]
    BY <1>4, Emits DEF OpenString
  <2>2. AtKey => Within = "object"
    BY DEF AtKey, WellFormed
  <2>3. QED
    BY <1>0, <2>1, <2>2, SamePlace DEF WellFormed, Documents, Places
<1>5. CASE Escape
  <2>1. doc' = [doc EXCEPT !.at = IF @ = "inKey" THEN "escapeKey" ELSE "escapeString"]
    BY <1>5, Emits DEF Escape
  <2>2. /\ doc' \in Documents /\ doc'.open = doc.open /\ doc'.key = doc.key
        /\ doc'.number = doc.number
        /\ doc'.at = IF doc.at = "inKey" THEN "escapeKey" ELSE "escapeString"
    BY <1>0, <2>1 DEF Documents, Places
  <2>3. QED
    BY <2>2, SamePlace DEF WellFormed
<1>6. CASE CloseString
  <2>1. doc.at \in {"inKey", "inString"} /\
        doc' = IF doc.at = "inKey"
               THEN [NewDocument EXCEPT !.open = doc.open, !.at = "colon",
                                        !.key = IF doc.plain /\ doc.text \in Sought
                                                THEN doc.text ELSE Null]
               ELSE [NewDocument EXCEPT !.open = doc.open, !.at = "after"]
    BY <1>6, Emits DEF CloseString
  <2>2. /\ doc' \in Documents /\ doc'.open = doc.open /\ doc'.number = <<>> /\ doc'.integer
        /\ doc'.at = (IF doc.at = "inKey" THEN "colon" ELSE "after")
        /\ doc'.key # Null => doc.at = "inKey"
    BY <1>0, <2>1, NewDocumentTyped, SoughtTyped DEF NewDocument, Documents, Places
  <2>3. QED
    BY <2>1, <2>2, EmptyNumber, SamePlace DEF WellFormed
<1>7. CASE \E letter \in Letters \cup {"other"} : Character(letter)
  <2>1. PICK letter \in Letters \cup {"other"} : Character(letter)
    BY <1>7
  <2>2. doc' = [doc EXCEPT !.text = Append(@, letter)] /\ letter \in TextBytes
    BY <2>1, Emits DEF Character, TextBytes
  <2>3. Append(doc.text, letter) \in Seq(TextBytes)
    BY <1>0, <2>2 DEF Documents
  <2>4. QED
    BY <1>0, <2>1, <2>2, <2>3, SamePlace DEF WellFormed, Documents, Character
<1>8. CASE \E byte \in Letters \cup {"quote", "backslash"} : EscapedCharacter(byte)
  <2>1. PICK byte \in TextBytes : EscapedCharacter(byte)
    BY <1>8 DEF TextBytes
  <2>2. doc' = [doc EXCEPT !.at = IF @ = "escapeKey" THEN "inKey" ELSE "inString",
                           !.text = Append(@, byte), !.plain = FALSE]
    BY <2>1, Emits DEF EscapedCharacter
  <2>3. Append(doc.text, byte) \in Seq(TextBytes)
    BY <1>0, <2>1 DEF Documents
  <2>4. QED
    BY <1>0, <2>1, <2>2, <2>3, SamePlace DEF WellFormed, Documents, Places, EscapedCharacter
<1>9. CASE Colon
  <2>1. doc' = [doc EXCEPT !.at = "value"] /\ doc.at = "colon"
    BY <1>9, Emits DEF Colon
  <2>2. /\ doc' \in Documents /\ doc'.open = doc.open /\ doc'.key = doc.key
        /\ doc'.number = doc.number /\ doc'.integer = doc.integer /\ doc'.at = "value"
    BY <1>0, <2>1 DEF Documents, Places
  <2>3. QED
    BY <2>1, <2>2, SamePlace DEF WellFormed
<1>10. CASE Scalar
  <2>1. PICK at \in {"after", "minus"} : doc' = [doc EXCEPT !.at = at, !.integer = FALSE]
    BY <1>10, Emits DEF Scalar
  <2>2. QED
    BY <1>0, <2>1, SamePlace DEF WellFormed, Documents, Places
<1>11. CASE Fraction
  <2>1. doc' = [doc EXCEPT !.at = "minus", !.integer = FALSE, !.number = <<>>]
    BY <1>11, Emits DEF Fraction
  <2>2. /\ doc' \in Documents /\ doc'.open = doc.open /\ doc'.key = doc.key
        /\ doc'.number = <<>> /\ doc'.at = "minus" /\ ~doc'.integer
    <3>1. <<>> \in Seq(Digits)
      OBVIOUS
    <3>2. QED
      BY <1>0, <2>1, <3>1 DEF Documents, Places
  <2>3. QED
    BY <2>2, EmptyNumber, SamePlace DEF WellFormed
<1>12. CASE \E digit \in Digits : Digit(digit)
  <2>1. PICK digit \in Digits : Digit(digit)
    BY <1>12
  <2>2. doc' = [doc EXCEPT !.at = "number",
                           !.number = IF doc.integer THEN Append(@, digit) ELSE @]
    BY <2>1, Emits DEF Digit
  <2>3. Append(doc.number, digit) \in Seq(Digits) /\ Valued(Append(doc.number, digit))
    BY <1>0, OneMoreDigit DEF WellFormed, Documents
  <2>4. /\ doc' \in Documents /\ doc'.open = doc.open /\ doc'.at = "number"
        /\ doc'.key = doc.key /\ Valued(doc'.number)
    BY <1>0, <2>2, <2>3 DEF WellFormed, Documents, Places
  <2>5. QED
    BY <2>4, SamePlace DEF WellFormed
<1>13. CASE Comma
  <2>1. doc' = [NewDocument EXCEPT !.open = doc.open,
                                   !.at = IF Within = "object" THEN "key" ELSE "value"]
    BY <1>13, Emits DEF Comma
  <2>2. /\ doc' \in Documents /\ doc'.open = doc.open /\ doc'.key = Null /\ doc'.integer
        /\ doc'.number = <<>> /\ doc'.at = (IF Within = "object" THEN "key" ELSE "value")
        /\ doc'.text = <<>> /\ doc'.plain
    BY <1>0, <2>1, NewDocumentTyped DEF NewDocument, Documents, Places
  <2>3. QED
    BY <2>2, EmptyNumber, SamePlace
<1>14. ASSUME NEW kind \in {"object", "array"}, NEW byte, CloseContainer(kind, byte)
       PROVE  WellFormed'
  <2>1. doc' = [NewDocument EXCEPT !.open = Front(doc.open), !.at = "after"]
        /\ Within = kind
    BY <1>14, Emits DEF CloseContainer, AtEnd
  <2>2. doc.open \in Seq(Containers) /\ doc.open # <<>>
    BY <1>0, <2>1, WithinIs DEF Documents
  <2>3. Front(doc.open) \in Seq(Containers) /\ Len(Front(doc.open)) = Len(doc.open) - 1
        /\ \A i \in 1..(Len(doc.open) - 1) : Front(doc.open)[i] = doc.open[i]
    BY <2>2, CountsClosed
  <2>4. /\ doc' \in Documents /\ doc'.open = Front(doc.open) /\ doc'.key = Null
        /\ doc'.number = <<>> /\ doc'.at = "after"
    BY <2>1, <2>3, NewDocumentTyped DEF NewDocument, Documents, Places
  <2>5. Front(doc.open) # <<>> => Front(doc.open)[1] = doc.open[1]
    BY <2>2, <2>3
  <2>6. Len(Front(doc.open)) <= MaxDepth
    BY <2>2, <2>3, ScannerConstants DEF WellFormed
  <2>7. QED
    BY <2>2, <2>4, <2>5, <2>6, EmptyNumber DEF WellFormed
<1>15. QED
  BY <1>1, <1>2, <1>3, <1>4, <1>5, <1>6, <1>7, <1>8, <1>9, <1>10, <1>11, <1>12, <1>13, <1>14
     DEF ScannerNext

-----------------------------------------------------------------------------
(* One byte *)

(* What the container depths are made of changes in no other field. *)
LEMMA DepthsOnly ==
    ASSUME NEW t \in Scanners, NEW byte, NEW u, u = UpdateContainerDepth(t, byte)
    PROVE  /\ u \in Scanners
           /\ u.state = t.state /\ u.escaped = t.escaped /\ u.candidate = t.candidate
           /\ u.hasEscape = t.hasEscape /\ u.pendingKey = t.pendingKey
           /\ u.value = t.value /\ u.overflow = t.overflow /\ u.found = t.found
           /\ byte \notin {"object", "array", "endObject", "endArray"} => u = t
<1>1. CASE byte = "object"
  BY <1>1 DEF UpdateContainerDepth, Scanners
<1>2. CASE byte = "array"
  BY <1>2 DEF UpdateContainerDepth, Scanners
<1>3. CASE byte = "endObject"
  <2> DEFINE leaves == t.metadataObjectDepth = t.objectDepth
  <2>1. u = [t EXCEPT !.metadataObjectDepth = IF leaves THEN Null ELSE @,
                      !.metadataArrayDepth = IF leaves THEN Null ELSE @,
                      !.objectDepth = IF @ = 0 THEN 0 ELSE @ - 1]
    BY <1>3 DEF UpdateContainerDepth
  <2> DEFINE object == IF leaves THEN Null ELSE t.metadataObjectDepth
             array == IF leaves THEN Null ELSE t.metadataArrayDepth
             depth == IF t.objectDepth = 0 THEN 0 ELSE t.objectDepth - 1
  <2>2. u = [t EXCEPT !.metadataObjectDepth = object, !.metadataArrayDepth = array,
                      !.objectDepth = depth]
    BY <2>1
  <2>3. object \in Nat \cup {Null} /\ array \in Nat \cup {Null} /\ depth \in Nat
    BY DEF Scanners
  <2> HIDE DEF object, array, depth, leaves
  <2>4. QED
    BY <1>3, <2>2, <2>3 DEF Scanners
<1>4. CASE byte = "endArray"
  BY <1>4 DEF UpdateContainerDepth, Scanners
<1>5. CASE byte \notin {"object", "array", "endObject", "endArray"}
  BY <1>5 DEF UpdateContainerDepth, Scanners
<1>6. QED
  BY <1>1, <1>2, <1>3, <1>4, <1>5

(* Outside of strings a byte starts a string, or concerns the depths. *)
LEMMA OutsideStep ==
    ASSUME NEW t \in Scanners, t.found = Null, t.state = "outside", NEW byte
    PROVE  /\ ProcessByte(t, byte) = ScanOutside(t, byte)
           /\ byte \notin {"quote", "object", "array", "endObject", "endArray"} =>
                 ProcessByte(t, byte) = t
<1>1. ProcessByte(t, byte) = ScanOutside(t, byte)
  BY DEF ProcessByte
<1>2. byte \notin {"quote", "object", "array", "endObject", "endArray"} => ScanOutside(t, byte) = t
  BY DepthsOnly DEF ScanOutside
<1>3. QED
  BY <1>1, <1>2

(* The scanner that is outside again, with all else as it was. *)
Left(t) == [t EXCEPT !.state = "outside", !.pendingKey = Null, !.value = 0, !.overflow = FALSE]

LEMMA LeftTyped ==
    ASSUME NEW t \in Scanners
    PROVE  /\ Left(t) \in Scanners /\ Left(t).state = "outside"
           /\ Left(t).found = t.found /\ Left(t).escaped = t.escaped
           /\ Left(t).candidate = t.candidate
           /\ Left(t).objectDepth = t.objectDepth /\ Left(t).arrayDepth = t.arrayDepth
           /\ Left(t).metadataObjectDepth = t.metadataObjectDepth
           /\ Left(t).metadataArrayDepth = t.metadataArrayDepth
<1>1. 0 \in 0..MaxSafe /\ "outside" \in ScanStates
  BY ScannerConstants DEF ScanStates
<1>2. QED
  BY <1>1 DEF Left, Scanners

(* A string begins. *)
LEMMA StringBegins ==
    ASSUME NEW t \in Scanners, NEW u, u = ScanOutside(t, "quote")
    PROVE  /\ u \in Scanners /\ u.state = "string" /\ u.candidate = <<>> /\ ~u.hasEscape
           /\ u.escaped = t.escaped /\ u.found = t.found
           /\ u.objectDepth = t.objectDepth /\ u.arrayDepth = t.arrayDepth
           /\ u.metadataObjectDepth = t.metadataObjectDepth
           /\ u.metadataArrayDepth = t.metadataArrayDepth
  BY EmptySeq DEF ScanOutside, Scanners, ScanStates

(* Spaces are passed over between tokens. *)
LEMMA SpaceIgnored ==
    ASSUME NEW t \in Scanners, t.found = Null,
           t.state \in {"outside", "after-key", "after-colon", "after-digits"}
    PROVE  ProcessByte(t, "space") = t
<1>1. CASE t.state = "outside"
  BY <1>1, OutsideStep
<1>2. CASE t.state = "after-key"
  BY <1>2 DEF ProcessByte, ScanAfterKey
<1>3. CASE t.state = "after-colon"
  BY <1>3 DEF ProcessByte, ScanAfterColon, Digits
<1>4. CASE t.state = "after-digits"
  BY <1>4 DEF ProcessByte, ScanAfterDigits
<1>5. QED
  BY <1>1, <1>2, <1>3, <1>4

-----------------------------------------------------------------------------
(* What the scanner does with the bytes of each action *)

(* The scanner's record is one, with a buffer of bounded length. *)
Proper(t) == t \in Scanners /\ Len(t.candidate) <= MaxScannedKeyLength + 2

SameDepths(t) ==
    /\ t.objectDepth = s.objectDepth /\ t.arrayDepth = s.arrayDepth
    /\ t.metadataObjectDepth = s.metadataObjectDepth
    /\ t.metadataArrayDepth = s.metadataArrayDepth

LEMMA DepthsStay == ASSUME Depths, doc'.open = doc.open, SameDepths(s') PROVE Depths'
  BY DEF Depths, SameDepths

LEMMA Starts == ASSUME ScannerInv, s.found = Null
                PROVE  Proper(s) /\ WellFormed /\ doc \in Documents /\ Follows /\ Depths /\ States
  BY DEF ScannerInv, ScannerTypes, WellFormed, Follows, Proper

LEMMA SpaceFollowed ==
    ASSUME ScannerInv, s.found = Null, Space
    PROVE  Proper(s') /\ Follows' /\ s'.found = Null
<1>1. Proper(s) /\ Follows /\ States /\ s \in Scanners
  BY Starts DEF Proper
<1>2. doc' = doc /\ s' = ProcessByte(s, "space")
      /\ doc.at \in {"value", "first", "key", "colon", "after", "afterNumber"}
  BY Emits DEF Space
<1>3. s.state \in {"outside", "after-key", "after-colon", "after-digits"}
  BY <1>1, <1>2 DEF States
<1>4. s' = s
  BY <1>1, <1>2, <1>3, SpaceIgnored
<1>5. QED
  BY <1>1, <1>2, <1>4 DEF Follows, Depths, States, Within, Pending, Buffered, Tracked, Added

LEMMA SpaceAfterNumberFollowed ==
    ASSUME ScannerInv, s.found = Null, SpaceAfterNumber
    PROVE  Proper(s') /\ Follows' /\ s'.found = Null
<1>1. Proper(s) /\ Follows /\ States /\ Depths /\ s \in Scanners /\ doc \in Documents
  BY Starts DEF Proper
<1>2. doc' = [doc EXCEPT !.at = "afterNumber"] /\ s' = ProcessByte(s, "space") /\ doc.at = "number"
  BY Emits DEF SpaceAfterNumber
<1>3. /\ doc'.open = doc.open /\ doc'.key = doc.key /\ doc'.number = doc.number
      /\ doc'.integer = doc.integer /\ doc'.at = "afterNumber"
  BY <1>1, <1>2 DEF Documents
<1>4. Tracked' = Tracked
  BY <1>3 DEF Tracked
<1>5. CASE Tracked
  <2>1. s.state = "digits" /\ Added
    BY <1>1, <1>2, <1>5 DEF States
  <2>2. s' = [s EXCEPT !.state = "after-digits"]
    BY <1>2, <2>1 DEF ProcessByte, ScanDigits, Digits
  <2>3. /\ s' \in Scanners /\ s'.state = "after-digits" /\ s'.candidate = s.candidate
        /\ s'.overflow = s.overflow /\ s'.value = s.value /\ s'.found = Null
        /\ s'.escaped = s.escaped /\ SameDepths(s')
    BY <1>1, <2>2 DEF Scanners, ScanStates, SameDepths
  <2>4. Added'
    BY <1>3, <2>1, <2>3 DEF Added
  <2>5. States'
    BY <1>3, <1>4, <1>5, <2>3, <2>4 DEF States
  <2>6. QED
    BY <1>1, <1>3, <2>1, <2>3, <2>5, DepthsStay DEF Follows, Proper
<1>6. CASE ~Tracked
  <2>1. s.state = "outside"
    BY <1>1, <1>2, <1>6 DEF States
  <2>2. s' = s
    BY <1>1, <1>2, <2>1, SpaceIgnored
  <2>3. States'
    BY <1>3, <1>4, <1>6, <2>1, <2>2 DEF States
  <2>4. QED
    BY <1>1, <1>3, <2>2, <2>3, DepthsStay DEF Follows, SameDepths
<1>7. QED
  BY <1>5, <1>6

LEMMA OpenStringFollowed ==
    ASSUME ScannerInv, s.found = Null, OpenString
    PROVE  Proper(s') /\ Follows' /\ s'.found = Null
<1>1. Proper(s) /\ Follows /\ States /\ Depths /\ WellFormed /\ s \in Scanners /\ doc \in Documents
  BY Starts DEF Proper
<1>2. doc' = [doc EXCEPT !.at = IF AtKey THEN "inKey" ELSE "inString"]
      /\ s' = ProcessByte(s, "quote") /\ (AtValue \/ AtKey)
  BY Emits DEF OpenString
<1>3. /\ doc'.open = doc.open /\ doc'.text = doc.text /\ doc'.plain = doc.plain
      /\ doc'.at = IF AtKey THEN "inKey" ELSE "inString"
  BY <1>1, <1>2 DEF Documents
<1>4. s.state \in {"outside", "after-colon"} /\ ~s.escaped
  BY <1>1, <1>2 DEF States, AtValue, AtKey, Follows
<1>5. /\ s' \in Scanners /\ s'.state = "string" /\ s'.candidate = <<>> /\ ~s'.hasEscape
      /\ ~s'.escaped /\ s'.found = Null /\ SameDepths(s')
  <2>1. CASE s.state = "outside"
    BY <1>1, <1>2, <1>4, <2>1, OutsideStep, StringBegins DEF SameDepths
  <2>2. CASE s.state = "after-colon"
    <3>1. s' = ScanOutside(Left(s), "quote")
      BY <1>2, <2>2 DEF ProcessByte, ScanAfterColon, Again, Left, Digits
    <3>2. QED
      BY <1>1, <1>4, <3>1, LeftTyped, StringBegins DEF SameDepths
  <2>3. QED
    BY <1>4, <2>1, <2>2
<1>6. Len(s'.candidate) <= MaxScannedKeyLength + 2 /\ Len(<<>>) = 0
  BY <1>5, ScannerConstants
<1>7. AtKey => doc'.text = <<>> /\ doc'.plain
  BY <1>1, <1>3 DEF AtKey, WellFormed
<1>8. AtKey => Buffered'
  <2>1. SUFFICES ASSUME AtKey PROVE Buffered'
    OBVIOUS
  <2>2. doc'.text = <<>> /\ doc'.plain /\ Len(doc'.text) = 0
    BY <1>6, <1>7, <2>1, Zenon
  <2>3. MayBeKey(doc'.text)
    BY <2>2, EmptySeq, ScannerConstants DEF MayBeKey
  <2>4. s'.candidate = doc'.text /\ s'.hasEscape = ~doc'.plain
    BY <1>1, <1>3, <1>5, <2>2 DEF Scanners, Documents
  <2>5. QED
    BY <2>2, <2>3, <2>4, Zenon DEF Buffered
<1>9. States'
  BY <1>3, <1>5, <1>8 DEF States
<1>10. QED
  BY <1>1, <1>3, <1>5, <1>6, <1>9, DepthsStay DEF Follows, Proper

LEMMA CharacterFollowed ==
    ASSUME ScannerInv, s.found = Null, NEW letter \in Letters \cup {"other"}, Character(letter)
    PROVE  Proper(s') /\ Follows' /\ s'.found = Null
<1>1. Proper(s) /\ Follows /\ States /\ Depths /\ WellFormed /\ s \in Scanners /\ doc \in Documents
  BY Starts DEF Proper
<1>2. doc' = [doc EXCEPT !.text = Append(@, letter)] /\ s' = ProcessByte(s, letter)
      /\ doc.at \in {"inKey", "inString"}
  BY Emits DEF Character
<1>3. /\ doc'.open = doc.open /\ doc'.text = Append(doc.text, letter) /\ doc'.plain = doc.plain
      /\ doc'.at = doc.at /\ doc.text \in Seq(TextBytes)
  BY <1>1, <1>2 DEF Documents
<1>4. s.state = "string" /\ ~s.escaped
  BY <1>1, <1>2 DEF States
<1>5. letter \in TextBytes /\ letter \notin {"quote", "backslash"}
  BY ScannerConstants DEF TextBytes
<1> DEFINE longer == s.candidate \o (IF letter = "other" THEN Unprintable ELSE <<letter>>)
<1>6. s' = IF Len(s.candidate) <= MaxScannedKeyLength
           THEN [s EXCEPT !.candidate = longer] ELSE s
  BY <1>2, <1>4, <1>5 DEF ProcessByte, ScanString
<1>7. s.candidate \in Seq(TextBytes)
  BY <1>1 DEF Scanners
<1>8. /\ longer \in Seq(TextBytes)
      /\ Len(s.candidate) \in Nat /\ Len(longer) \in {Len(s.candidate) + 1, Len(s.candidate) + 2}
      /\ letter # "other" => longer = Append(s.candidate, letter)
      /\ Spoilt(s.candidate) \/ letter = "other" => Spoilt(longer)
  BY <1>7, BufferGrows
<1> HIDE DEF longer
<1>9. /\ s' \in Scanners /\ s'.state = "string" /\ s'.hasEscape = s.hasEscape
      /\ ~s'.escaped /\ s'.found = Null /\ SameDepths(s')
      /\ s'.candidate = IF Len(s.candidate) <= MaxScannedKeyLength THEN longer ELSE s.candidate
  BY <1>1, <1>4, <1>6, <1>8 DEF Scanners, SameDepths
<1>10. MaxScannedKeyLength \in Nat
  BY ScannerConstants
<1>11. Len(s'.candidate) <= MaxScannedKeyLength + 2
  BY <1>1, <1>8, <1>9, <1>10 DEF Proper
<1>12. ASSUME doc.at = "inKey", doc.plain
       PROVE  IF MayBeKey(doc'.text) THEN s'.candidate = doc'.text ELSE Spoilt(s'.candidate)
  <2>1. IF MayBeKey(doc.text) THEN s.candidate = doc.text ELSE Spoilt(s.candidate)
    BY <1>1, <1>12 DEF States, Buffered
  <2>2. CASE MayBeKey(doc.text) /\ letter # "other"
    <3>1. letter \in Letters /\ doc.text \in Seq(Letters) /\ Len(doc.text) <= MaxScannedKeyLength
      BY <2>2 DEF MayBeKey
    <3>2. s'.candidate = doc'.text
      BY <1>3, <1>8, <1>9, <2>1, <2>2, <3>1
    <3>3. doc'.text \in Seq(Letters) /\ Len(doc'.text) \in Nat
      BY <1>3, <3>1, AppendProperties, LenProperties
    <3>4. QED
      BY <1>10, <3>2, <3>3 DEF MayBeKey, Spoilt
  <2>3. CASE MayBeKey(doc.text) /\ letter = "other"
    <3>1. s'.candidate = longer
      BY <1>9, <2>1, <2>3 DEF MayBeKey
    <3>2. ~MayBeKey(doc'.text)
      BY <1>3, <1>5, <2>3, PrefixMayBeKey
    <3>3. QED
      BY <1>8, <2>3, <3>1, <3>2
  <2>4. CASE ~MayBeKey(doc.text)
    <3>1. Spoilt(s'.candidate)
      BY <1>8, <1>9, <2>1, <2>4
    <3>2. ~MayBeKey(doc'.text)
      BY <1>3, <1>5, <2>4, PrefixMayBeKey
    <3>3. QED
      BY <3>1, <3>2
  <2>5. QED
    BY <2>2, <2>3, <2>4
<1>13. doc.at = "inKey" => Buffered'
  BY <1>1, <1>3, <1>9, <1>12 DEF States, Buffered
<1>14. States'
  BY <1>2, <1>3, <1>9, <1>13 DEF States
<1>15. QED
  BY <1>1, <1>3, <1>9, <1>11, <1>14, DepthsStay DEF Follows, Proper

LEMMA EscapeFollowed ==
    ASSUME ScannerInv, s.found = Null, Escape
    PROVE  Proper(s') /\ Follows' /\ s'.found = Null
<1>1. Proper(s) /\ Follows /\ States /\ Depths /\ s \in Scanners /\ doc \in Documents
  BY Starts DEF Proper
<1>2. doc' = [doc EXCEPT !.at = IF @ = "inKey" THEN "escapeKey" ELSE "escapeString"]
      /\ s' = ProcessByte(s, "backslash") /\ doc.at \in {"inKey", "inString"}
  BY Emits DEF Escape
<1>3. /\ doc'.open = doc.open
      /\ doc'.at = IF doc.at = "inKey" THEN "escapeKey" ELSE "escapeString"
  BY <1>1, <1>2 DEF Documents
<1>4. s.state = "string" /\ ~s.escaped
  BY <1>1, <1>2 DEF States
<1>5. s' = [s EXCEPT !.escaped = TRUE, !.hasEscape = TRUE]
  BY <1>2, <1>4 DEF ProcessByte, ScanString
<1>6. /\ s' \in Scanners /\ s'.state = "string" /\ s'.hasEscape /\ s'.escaped
      /\ s'.candidate = s.candidate /\ s'.found = Null /\ SameDepths(s')
  BY <1>1, <1>4, <1>5 DEF Scanners, SameDepths
<1>7. States'
  BY <1>3, <1>6 DEF States
<1>8. QED
  BY <1>1, <1>3, <1>6, <1>7, DepthsStay DEF Follows, Proper

LEMMA EscapedCharacterFollowed ==
    ASSUME ScannerInv, s.found = Null, NEW byte, EscapedCharacter(byte)
    PROVE  Proper(s') /\ Follows' /\ s'.found = Null
<1>1. Proper(s) /\ Follows /\ States /\ Depths /\ s \in Scanners /\ doc \in Documents
  BY Starts DEF Proper
<1>2. doc' = [doc EXCEPT !.at = IF @ = "escapeKey" THEN "inKey" ELSE "inString",
                         !.text = Append(@, byte), !.plain = FALSE]
      /\ s' = ProcessByte(s, byte) /\ doc.at \in {"escapeKey", "escapeString"}
  BY Emits DEF EscapedCharacter
<1>3. /\ doc'.open = doc.open /\ ~doc'.plain
      /\ doc'.at = IF doc.at = "escapeKey" THEN "inKey" ELSE "inString"
  BY <1>1, <1>2 DEF Documents
<1>4. s.state = "string" /\ s.escaped
  BY <1>1, <1>2 DEF States
<1>5. s' = [s EXCEPT !.escaped = FALSE, !.hasEscape = TRUE]
  BY <1>2, <1>4 DEF ProcessByte, ScanString
<1>6. /\ s' \in Scanners /\ s'.state = "string" /\ s'.hasEscape = TRUE /\ ~s'.escaped
      /\ s'.candidate = s.candidate /\ s'.found = Null /\ SameDepths(s')
  BY <1>1, <1>4, <1>5 DEF Scanners, SameDepths
<1>7. Buffered'
  BY <1>3, <1>6 DEF Buffered
<1>8. States'
  BY <1>3, <1>6, <1>7 DEF States
<1>9. QED
  BY <1>1, <1>3, <1>6, <1>8, DepthsStay DEF Follows, Proper

LEMMA CloseStringFollowed ==
    ASSUME ScannerInv, s.found = Null, CloseString
    PROVE  Proper(s') /\ Follows' /\ s'.found = Null
<1>1. Proper(s) /\ Follows /\ States /\ Depths /\ s \in Scanners /\ doc \in Documents
  BY Starts DEF Proper
<1> DEFINE found == IF doc.plain /\ doc.text \in Sought THEN doc.text ELSE Null
<1>2. doc.at \in {"inKey", "inString"} /\ s' = ProcessByte(s, "quote") /\
      doc' = IF doc.at = "inKey"
             THEN [NewDocument EXCEPT !.open = doc.open, !.at = "colon", !.key = found]
             ELSE [NewDocument EXCEPT !.open = doc.open, !.at = "after"]
  BY Emits DEF CloseString
<1>3. /\ doc'.open = doc.open
      /\ doc'.at = IF doc.at = "inKey" THEN "colon" ELSE "after"
      /\ doc.at = "inKey" => doc'.key = found
  BY <1>1, <1>2 DEF NewDocument
<1>4. s.state = "string" /\ ~s.escaped
  BY <1>1, <1>2 DEF States
<1>5. s' = [s EXCEPT !.pendingKey = IF s.hasEscape THEN Null ELSE s.candidate,
                     !.candidate = <<>>, !.hasEscape = FALSE, !.state = "after-key"]
  BY <1>2, <1>4 DEF ProcessByte, ScanString
<1>6. /\ s' \in Scanners /\ s'.state = "after-key" /\ ~s'.escaped /\ s'.candidate = <<>>
      /\ s'.pendingKey = IF s.hasEscape THEN Null ELSE s.candidate
      /\ s'.found = Null /\ SameDepths(s')
  BY <1>1, <1>4, <1>5, EmptySeq DEF Scanners, ScanStates, SameDepths
<1>7. ASSUME doc.at = "inKey", NEW k \in Sought
      PROVE  s'.pendingKey = k <=> doc'.key = k
  <2>1. Buffered /\ k # Null /\ MayBeKey(k) /\ ~Spoilt(k)
    BY <1>1, <1>7, SoughtTyped, KeysMayBeKeys DEF States
  <2>2. CASE doc.plain
    <3>1. s'.pendingKey = s.candidate
      BY <1>1, <1>6, <2>1, <2>2 DEF Buffered
    <3>2. CASE MayBeKey(doc.text)
      BY <1>3, <1>7, <2>1, <2>2, <3>1, <3>2 DEF Buffered
    <3>3. CASE ~MayBeKey(doc.text)
      <4>1. s.candidate # k /\ doc.text # k
        BY <2>1, <2>2, <3>3 DEF Buffered
      <4>2. QED
        BY <1>3, <1>7, <2>1, <3>1, <4>1
    <3>4. QED
      BY <3>2, <3>3
  <2>3. CASE ~doc.plain
    BY <1>3, <1>6, <1>7, <2>1, <2>3 DEF Buffered
  <2>4. QED
    BY <2>2, <2>3
<1>8. doc.at = "inKey" => Pending'
  BY <1>7 DEF Pending
<1>9. States'
  BY <1>2, <1>3, <1>6, <1>8 DEF States
<1>10. Len(s'.candidate) <= MaxScannedKeyLength + 2
  BY <1>6, EmptySeq, ScannerConstants
<1>11. QED
  BY <1>1, <1>3, <1>6, <1>9, <1>10, DepthsStay DEF Follows, Proper

LEMMA ColonFollowed ==
    ASSUME ScannerInv, s.found = Null, Colon
    PROVE  Proper(s') /\ Follows' /\ s'.found = Null
<1>1. Proper(s) /\ Follows /\ States /\ Depths /\ WellFormed /\ s \in Scanners /\ doc \in Documents
  BY Starts DEF Proper
<1>2. doc' = [doc EXCEPT !.at = "value"] /\ s' = ProcessByte(s, "colon") /\ doc.at = "colon"
  BY Emits DEF Colon
<1>3. doc'.open = doc.open /\ doc'.at = "value" /\ doc'.key = doc.key
  BY <1>1, <1>2 DEF Documents
<1>4. s.state = "after-key" /\ Pending /\ ~s.escaped /\ Within = "object"
  BY <1>1, <1>2 DEF States, Follows, WellFormed
<1>5. s' = [s EXCEPT !.state = "after-colon"]
  BY <1>2, <1>4 DEF ProcessByte, ScanAfterKey
<1>6. /\ s' \in Scanners /\ s'.state = "after-colon" /\ ~s'.escaped
      /\ s'.candidate = s.candidate /\ s'.pendingKey = s.pendingKey
      /\ s'.found = Null /\ SameDepths(s')
  BY <1>1, <1>4, <1>5 DEF Scanners, ScanStates, SameDepths
<1>7. Pending' /\ Within' = "object"
  BY <1>3, <1>4, <1>6 DEF Pending, Within
<1>8. States'
  BY <1>3, <1>6, <1>7 DEF States
<1>9. QED
  BY <1>1, <1>3, <1>6, <1>8, DepthsStay DEF Follows, Proper

(* true, false, null and the minus end what the scanner waited for. *)
LEMMA ScalarFollowed ==
    ASSUME ScannerInv, s.found = Null, Scalar
    PROVE  Proper(s') /\ Follows' /\ s'.found = Null
<1>1. Proper(s) /\ Follows /\ States /\ Depths /\ s \in Scanners /\ doc \in Documents
  BY Starts DEF Proper
<1>2. PICK at \in {"after", "minus"} :
         doc' = [doc EXCEPT !.at = at, !.integer = FALSE] /\ s' = ProcessByte(s, "scalar")
  BY Emits DEF Scalar
<1>3. doc'.open = doc.open /\ doc'.at = at
  BY <1>1, <1>2 DEF Documents
<1>4. s.state \in {"outside", "after-colon"} /\ ~s.escaped
  BY <1>1 DEF States, Follows, Scalar, AtValue
<1>5. /\ s' \in Scanners /\ s'.state = "outside" /\ ~s'.escaped
      /\ s'.candidate = s.candidate /\ s'.found = Null /\ SameDepths(s')
  <2>1. CASE s.state = "outside"
    BY <1>1, <1>2, <1>4, <2>1, OutsideStep DEF SameDepths
  <2>2. CASE s.state = "after-colon"
    <3>1. s' = ScanOutside(Left(s), "scalar")
      BY <1>2, <2>2 DEF ProcessByte, ScanAfterColon, Again, Left, Digits
    <3>2. s' = Left(s)
      BY <1>1, <3>1, LeftTyped, OutsideStep
    <3>3. QED
      BY <1>1, <1>4, <3>2, LeftTyped DEF SameDepths
  <2>3. QED
    BY <1>4, <2>1, <2>2
<1>6. States'
  BY <1>2, <1>3, <1>5 DEF States
<1>7. QED
  BY <1>1, <1>3, <1>5, <1>6, DepthsStay DEF Follows, Proper
(* The depths tell whether the place is right within the metadata.         *)
LEMMA MetadataHere ==
    ASSUME WellFormed, Depths
    PROVE  s.metadataObjectDepth = s.objectDepth /\ s.metadataArrayDepth = s.arrayDepth
              <=> doc.open = MetadataPath
<1> DEFINE open == doc.open
<1>1. open \in Seq(Containers) /\ Len(open) \in Nat
  BY LenProperties DEF WellFormed, Documents
<1>2. s.objectDepth \in Nat /\ s.arrayDepth \in Nat
  BY <1>1, Counts DEF Depths
<1>3. CASE InMetadata(open)
  <2>1. s.metadataObjectDepth = 2 /\ s.metadataArrayDepth = 0
    BY <1>3 DEF Depths
  <2>2. s.objectDepth = 2 /\ s.arrayDepth = 0 <=> Len(open) = 2
    BY <1>1, <1>3, CountsPlace DEF Depths
  <2>3. ASSUME Len(open) = 2 PROVE open = MetadataPath
    <3>1. open[1] \in Containers /\ open[1].kind = "object" /\ open[1].key = Null
      <4>1. open # <<>> /\ 1 \in 1..Len(open)
        BY <2>3
      <4>2. QED
        BY <1>1, <1>3, <4>1, ElementOfSeq DEF InMetadata, WellFormed
    <3>2. open[1] = [kind |-> "object", key |-> Null]
      BY <3>1 DEF Containers
    <3>3. open[2] = [kind |-> "object", key |-> MetadataKey]
      BY <1>3 DEF InMetadata
    <3>4. MetadataPath \in Seq(Containers) /\ Len(MetadataPath) = 2
      BY SoughtTyped DEF MetadataPath, Containers, Sought
    <3>5. \A i \in 1..2 : open[i] = MetadataPath[i]
      BY <3>2, <3>3 DEF MetadataPath
    <3>6. QED
      BY <1>1, <2>3, <3>4, <3>5, SeqEqual
  <2>4. open = MetadataPath => Len(open) = 2
    BY DEF MetadataPath
  <2>5. QED
    BY <2>1, <2>2, <2>3, <2>4
<1>4. CASE ~InMetadata(open)
  <2>1. s.metadataObjectDepth = Null
    BY <1>4 DEF Depths
  <2>2. open # MetadataPath
    BY <1>4 DEF InMetadata, MetadataPath
  <2>3. QED
    BY <1>2, <2>1, <2>2, ScannerConstants
<1>5. QED
  BY <1>3, <1>4

LEMMA DigitFollowed ==
    ASSUME ScannerInv, s.found = Null, NEW digit \in Digits, Digit(digit)
    PROVE  Proper(s') /\ Follows' /\ s'.found = Null
<1>1. Proper(s) /\ Follows /\ States /\ Depths /\ WellFormed /\ s \in Scanners /\ doc \in Documents
  BY Starts DEF Proper
<1>2. doc' = [doc EXCEPT !.at = "number",
                         !.number = IF doc.integer THEN Append(@, digit) ELSE @]
      /\ s' = ProcessByte(s, digit) /\ doc.at \in {"value", "first", "minus", "number"}
  BY Emits DEF Digit, AtValue
<1>3. /\ doc'.open = doc.open /\ doc'.at = "number" /\ doc'.key = doc.key
      /\ doc'.integer = doc.integer
      /\ doc.integer => doc'.number = Append(doc.number, digit)
      /\ doc.number \in Seq(Digits)
  BY <1>1, <1>2 DEF Documents
<1>4. Tracked' = Tracked
  BY <1>3 DEF Tracked
<1>5. /\ doc.integer => ValueOf(doc'.number) = 2 * ValueOf(doc.number) + DigitValue(digit)
      /\ ValueOf(doc.number) \in Nat
  BY <1>1, <1>3, OneMoreDigit DEF WellFormed
<1>6. /\ digit \notin {"quote", "space", "colon", "object", "array", "endObject", "endArray"}
      /\ DigitValue(digit) \in 0..1 /\ DigitValue(digit) \in 0..MaxSafe
  BY ScannerConstants DEF Digits, DigitValue
<1>7. ASSUME s.state = "outside", ~Tracked
      PROVE  Proper(s') /\ Follows' /\ s'.found = Null
  <2>1. s' = s
    BY <1>1, <1>2, <1>6, <1>7, OutsideStep
  <2>2. States'
    BY <1>3, <1>4, <1>7, <2>1 DEF States
  <2>3. QED
    BY <1>1, <1>3, <2>1, <2>2, DepthsStay DEF Follows, SameDepths
<1>8. CASE doc.at = "value" /\ Within = "object"
  <2>1. s.state = "after-colon" /\ Pending /\ ~s.escaped /\ doc.integer /\ doc.number = <<>>
    BY <1>1, <1>8 DEF States, Follows, WellFormed
  <2>2. (s.pendingKey = CreditsUsedKey /\ s.metadataObjectDepth = s.objectDepth
            /\ s.metadataArrayDepth = s.arrayDepth) <=> Tracked
    BY <1>1, <2>1, MetadataHere DEF Tracked, Pending, Sought
  <2>3. CASE Tracked
    <3>1. s' = [s EXCEPT !.state = "digits", !.value = DigitValue(digit), !.overflow = FALSE,
                         !.pendingKey = Null]
      BY <1>2, <1>6, <2>1, <2>2, <2>3 DEF ProcessByte, ScanAfterColon
    <3>2. /\ s' \in Scanners /\ s'.state = "digits" /\ s'.value = DigitValue(digit)
          /\ ~s'.overflow /\ s'.overflow \in BOOLEAN /\ ~s'.escaped
          /\ s'.candidate = s.candidate /\ s'.found = Null /\ SameDepths(s')
      BY <1>1, <1>6, <2>1, <3>1 DEF Scanners, ScanStates, SameDepths
    <3>3. ValueOf(doc'.number) = DigitValue(digit)
      BY <1>5, <1>6, <2>1, EmptyNumber
    <3>4. Added'
      BY <1>6, <3>2, <3>3, ScannerConstants DEF Added
    <3>5. States'
      BY <1>3, <1>4, <2>3, <3>2, <3>4 DEF States
    <3>6. QED
      BY <1>1, <1>3, <3>2, <3>5, DepthsStay DEF Follows, Proper
  <2>4. CASE ~Tracked
    <3>1. s' = ScanOutside(Left(s), digit)
      BY <1>2, <1>6, <2>1, <2>2, <2>4 DEF ProcessByte, ScanAfterColon, Again, Left
    <3>2. s' = Left(s)
      BY <1>1, <1>6, <3>1, LeftTyped, OutsideStep
    <3>3. /\ s' \in Scanners /\ s'.state = "outside" /\ ~s'.escaped
          /\ s'.candidate = s.candidate /\ s'.found = Null /\ SameDepths(s')
      BY <1>1, <2>1, <3>2, LeftTyped DEF SameDepths
    <3>4. States'
      BY <1>3, <1>4, <2>4, <3>3 DEF States
    <3>5. QED
      BY <1>1, <1>3, <3>3, <3>4, DepthsStay DEF Follows, Proper
  <2>5. QED
    BY <2>3, <2>4
<1>9. CASE doc.at \in {"value", "first", "minus"} /\ ~(doc.at = "value" /\ Within = "object")
  <2>1. s.state = "outside"
    BY <1>1, <1>9 DEF States
  <2>2. ~Tracked
    <3>1. CASE doc.at = "minus"
      BY <1>1, <3>1 DEF Tracked, WellFormed
    <3>2. CASE doc.at # "minus"
      <4>1. doc.key = Null
        BY <1>1, <1>9, <3>2 DEF WellFormed
      <4>2. QED
        BY <4>1, SoughtTyped DEF Tracked, Sought
    <3>3. QED
      BY <3>1, <3>2
  <2>3. QED
    BY <1>7, <2>1, <2>2
<1>10. CASE doc.at = "number" /\ ~Tracked
  <2>1. s.state = "outside"
    BY <1>1, <1>10 DEF States
  <2>2. QED
    BY <1>7, <1>10, <2>1
<1>11. CASE doc.at = "number" /\ Tracked
  <2>1. s.state = "digits" /\ Added /\ doc.integer /\ ~s.escaped
    BY <1>1, <1>11 DEF States, Tracked, Follows
  <2>2. s' = AddDigit(s, digit)
    BY <1>2, <1>6, <2>1 DEF ProcessByte, ScanDigits
  <2> DEFINE over == s.value > (MaxSafe - DigitValue(digit)) \div 2
             sum == 2 * s.value + DigitValue(digit)
  <2>3. s.value \in 0..MaxSafe /\ s.overflow \in BOOLEAN
    BY <1>1 DEF Scanners
  <2>4. over <=> sum > MaxSafe
    BY <1>6, <2>3, OverflowIsSeen
  <2>5. s' = IF over THEN [s EXCEPT !.overflow = TRUE]
             ELSE IF s.overflow THEN s ELSE [s EXCEPT !.value = sum]
    <3>1. s.value * 2 + DigitValue(digit) = sum
      BY <1>6, <2>3
    <3>2. QED
      BY <2>2, <3>1 DEF AddDigit
  <2>6. sum \in Nat /\ MaxSafe \in Nat
    BY <1>6, <2>3, ScannerConstants
  <2>7. ~over => sum \in 0..MaxSafe
    BY <2>4, <2>6
  <2> HIDE DEF over, sum
  <2>8. /\ s' \in Scanners /\ s'.state = "digits" /\ ~s'.escaped
        /\ s'.candidate = s.candidate /\ s'.found = Null /\ SameDepths(s')
        /\ s'.overflow = (s.overflow \/ over)
        /\ ~s.overflow /\ ~over => s'.value = sum
    BY <1>1, <2>1, <2>3, <2>5, <2>7 DEF Scanners, SameDepths
  <2>9. Added'
    <3>1. CASE s.overflow
      <4>1. ValueOf(doc.number) > MaxSafe
        BY <2>1, <3>1 DEF Added
      <4>2. ValueOf(doc'.number) > MaxSafe
        BY <1>5, <1>6, <2>1, <2>6, <4>1
      <4>3. QED
        BY <2>8, <3>1, <4>2 DEF Added
    <3>2. CASE ~s.overflow
      <4>1. s.value = ValueOf(doc.number)
        BY <2>1, <3>2 DEF Added
      <4>2. ValueOf(doc'.number) = sum
        BY <1>5, <2>1, <4>1 DEF sum
      <4>3. CASE over
        <5>1. s'.overflow = TRUE /\ ValueOf(doc'.number) > MaxSafe
          BY <2>4, <2>8, <4>2, <4>3
        <5>2. QED
          BY <5>1 DEF Added
      <4>4. CASE ~over
        <5>1. s'.overflow = FALSE /\ ~(ValueOf(doc'.number) > MaxSafe)
          BY <2>3, <2>4, <2>8, <3>2, <4>2, <4>4
        <5>2. QED
          BY <2>8, <3>2, <4>2, <4>4, <5>1 DEF Added
      <4>5. QED
        BY <4>3, <4>4
    <3>3. QED
      BY <3>1, <3>2
  <2>10. States'
    BY <1>3, <1>4, <1>11, <2>8, <2>9 DEF States
  <2>11. QED
    BY <1>1, <1>3, <2>8, <2>10, DepthsStay DEF Follows, Proper
<1>12. QED
  BY <1>2, <1>8, <1>9, <1>10, <1>11

LEMMA FractionFollowed ==
    ASSUME ScannerInv, s.found = Null, Fraction
    PROVE  Proper(s') /\ Follows' /\ s'.found = Null
<1>1. Proper(s) /\ Follows /\ States /\ Depths /\ s \in Scanners /\ doc \in Documents
  BY Starts DEF Proper
<1>2. doc' = [doc EXCEPT !.at = "minus", !.integer = FALSE, !.number = <<>>]
      /\ s' = ProcessByte(s, "scalar") /\ doc.at = "number"
  BY Emits DEF Fraction
<1>3. doc'.open = doc.open /\ doc'.at = "minus"
  BY <1>1, <1>2 DEF Documents
<1>4. s.state \in {"outside", "digits"} /\ ~s.escaped
  BY <1>1, <1>2 DEF States, Follows
<1>5. /\ s' \in Scanners /\ s'.state = "outside" /\ ~s'.escaped
      /\ s'.candidate = s.candidate /\ s'.found = Null /\ SameDepths(s')
  <2>1. CASE s.state = "outside"
    BY <1>1, <1>2, <1>4, <2>1, OutsideStep DEF SameDepths
  <2>2. CASE s.state = "digits"
    <3>1. s' = ScanOutside(Left(s), "scalar")
      BY <1>2, <2>2 DEF ProcessByte, ScanDigits, EndNumber, Delimiters, Again, Left, Digits
    <3>2. s' = Left(s)
      BY <1>1, <3>1, LeftTyped, OutsideStep
    <3>3. QED
      BY <1>1, <1>4, <3>2, LeftTyped DEF SameDepths
  <2>3. QED
    BY <1>4, <2>1, <2>2
<1>6. States'
  BY <1>3, <1>5 DEF States
<1>7. QED
  BY <1>1, <1>3, <1>5, <1>6, DepthsStay DEF Follows, Proper
Metadata == [kind |-> "object", key |-> MetadataKey]

(* The metadata are entered with the second container only. *)
LEMMA MetadataOpened ==
    ASSUME NEW open \in Seq(Containers), NEW c \in Containers
    PROVE  InMetadata(Append(open, c)) <=>
              \/ InMetadata(open)
              \/ Len(open) = 1 /\ open[1].kind = "object" /\ c = Metadata
<1>1. /\ Len(open) \in Nat /\ Len(Append(open, c)) = Len(open) + 1
      /\ \A i \in 1..Len(open) : Append(open, c)[i] = open[i]
      /\ Append(open, c)[Len(open) + 1] = c
  BY AppendProperties, LenProperties
<1>2. CASE Len(open) = 0
  <2>1. ~(Len(Append(open, c)) >= 2) /\ ~(Len(open) >= 2) /\ Len(open) # 1
    BY <1>1, <1>2
  <2>2. QED
    BY <2>1, Zenon DEF InMetadata
<1>3. CASE Len(open) = 1
  <2>1. /\ Len(Append(open, c)) >= 2 /\ ~(Len(open) >= 2)
        /\ Append(open, c)[1] = open[1] /\ Append(open, c)[2] = c
    BY <1>1, <1>3
  <2>2. QED
    BY <1>3, <2>1, Zenon DEF InMetadata, Metadata
<1>4. CASE Len(open) >= 2
  <2>1. /\ Len(Append(open, c)) >= 2 /\ Len(open) # 1
        /\ Append(open, c)[1] = open[1] /\ Append(open, c)[2] = open[2]
    <3>1. \A n \in Nat : n >= 2 => n + 1 >= 2 /\ n # 1 /\ 1 \in 1..n /\ 2 \in 1..n
      OBVIOUS
    <3>2. QED
      BY <1>1, <1>4, <3>1, Zenon
  <2>2. QED
    BY <1>4, <2>1, Zenon DEF InMetadata, Metadata
<1>5. Len(open) = 0 \/ Len(open) = 1 \/ Len(open) >= 2
  <2>1. \A n \in Nat : n = 0 \/ n = 1 \/ n >= 2
    OBVIOUS
  <2>2. QED
    BY <1>1, <2>1, Zenon
<1>6. QED
  BY <1>2, <1>3, <1>4, <1>5

LEMMA OpenContainerFollowed ==
    ASSUME ScannerInv, s.found = Null, NEW kind \in {"object", "array"}, OpenContainer(kind)
    PROVE  Proper(s') /\ Follows' /\ s'.found = Null
<1> DEFINE c == [kind |-> kind, key |-> doc.key]
<1>1. Proper(s) /\ Follows /\ States /\ Depths /\ WellFormed /\ s \in Scanners /\ doc \in Documents
  BY Starts DEF Proper
<1>2. doc.open \in Seq(Containers) /\ c \in Containers
  BY <1>1 DEF Documents, Containers
<1>3. doc'.open = Append(doc.open, c) /\ doc'.at = "first"
  BY <1>1, OpenedDocument
<1>4. s' = ProcessByte(s, kind)
  BY Emits DEF OpenContainer
<1>5. s.state = "outside" \/ (doc.at = "value" /\ Within = "object" /\ s.state = "after-colon")
  BY <1>1 DEF OpenContainer, AtValue, States
<1>6. ~s.escaped
  BY <1>1, <1>5 DEF Follows
<1> DEFINE inner == UpdateContainerDepth(s, kind)
           opens == OpensMetadata(s, kind)
<1>7. inner = IF kind = "object" THEN [s EXCEPT !.objectDepth = @ + 1]
              ELSE [s EXCEPT !.arrayDepth = @ + 1]
  BY DEF UpdateContainerDepth
<1>8. s.objectDepth \in Nat /\ s.arrayDepth \in Nat
  BY <1>1 DEF Scanners
<1>9. /\ inner \in Scanners /\ inner.candidate = s.candidate
      /\ inner.state = s.state /\ inner.escaped = s.escaped /\ inner.found = s.found
      /\ inner.objectDepth = IF kind = "object" THEN s.objectDepth + 1 ELSE s.objectDepth
      /\ inner.arrayDepth = IF kind = "array" THEN s.arrayDepth + 1 ELSE s.arrayDepth
      /\ inner.metadataObjectDepth = s.metadataObjectDepth
      /\ inner.metadataArrayDepth = s.metadataArrayDepth
  <2>1. CASE kind = "object"
    BY <1>1, <1>7, <1>8, <2>1 DEF Scanners
  <2>2. CASE kind = "array"
    BY <1>1, <1>7, <1>8, <2>2 DEF Scanners
  <2>3. QED
    BY <2>1, <2>2
<1>10. /\ s'.objectDepth = inner.objectDepth /\ s'.arrayDepth = inner.arrayDepth =>
             /\ s'.objectDepth = Cardinality(Objects(doc.open))'
             /\ s'.arrayDepth = Cardinality(Arrays(doc.open))'
  BY <1>1, <1>2, <1>3, <1>9, CountsOpened DEF Depths
<1>11. CASE s.state = "outside"
  <2>1. s' = inner
    BY <1>1, <1>4, <1>11, OutsideStep DEF ScanOutside
  <2>2. doc.key = Null
    BY <1>1, <1>11 DEF WellFormed, OpenContainer, AtValue, States
  <2>3. InMetadata(doc.open)' <=> InMetadata(doc.open)
    BY <1>2, <1>3, <2>2, MetadataOpened, SoughtTyped DEF Metadata, Sought
  <2>4. Depths'
    BY <1>1, <1>9, <1>10, <2>1, <2>3 DEF Depths
  <2>5. States'
    BY <1>3, <1>9, <1>11, <2>1 DEF States
  <2>6. QED
    BY <1>1, <1>6, <1>9, <2>1, <2>4, <2>5 DEF Follows, Proper
<1>12. CASE doc.at = "value" /\ Within = "object" /\ s.state = "after-colon"
  <2>1. Pending
    BY <1>1, <1>12 DEF States
  <2>2. opens <=> Len(doc.open) = 1 /\ doc.open[1].kind = "object" /\ c = Metadata
    <3>1. s.pendingKey = MetadataKey <=> doc.key = MetadataKey
      BY <2>1 DEF Pending, Sought
    <3>2. s.objectDepth = 1 /\ s.arrayDepth = 0 <=> Len(doc.open) = 1 /\ doc.open[1].kind = "object"
      BY <1>1, <1>2, CountsPlace DEF Depths
    <3>3. c = Metadata <=> kind = "object" /\ doc.key = MetadataKey
      BY DEF Metadata
    <3>4. QED
      BY <3>1, <3>2, <3>3 DEF OpensMetadata
  <2>3. s' = [inner EXCEPT !.metadataObjectDepth = IF opens THEN inner.objectDepth ELSE @,
                           !.metadataArrayDepth = IF opens THEN inner.arrayDepth ELSE @,
                           !.pendingKey = Null, !.state = "outside"]
    BY <1>1, <1>4, <1>12 DEF ProcessByte, ScanAfterColon, Digits
  <2> HIDE DEF inner, opens
  <2>4. /\ s' \in Scanners /\ s'.state = "outside" /\ ~s'.escaped /\ s'.found = Null
        /\ s'.candidate = s.candidate
        /\ s'.objectDepth = inner.objectDepth /\ s'.arrayDepth = inner.arrayDepth
        /\ s'.metadataObjectDepth = IF opens THEN inner.objectDepth ELSE s.metadataObjectDepth
        /\ s'.metadataArrayDepth = IF opens THEN inner.arrayDepth ELSE s.metadataArrayDepth
    <3> DEFINE object == IF opens THEN inner.objectDepth ELSE inner.metadataObjectDepth
               array == IF opens THEN inner.arrayDepth ELSE inner.metadataArrayDepth
    <3>1. s' = [inner EXCEPT !.metadataObjectDepth = object, !.metadataArrayDepth = array,
                             !.pendingKey = Null, !.state = "outside"]
      BY <2>3
    <3>2. object \in Nat \cup {Null} /\ array \in Nat \cup {Null}
      BY <1>9 DEF Scanners
    <3> HIDE DEF object, array
    <3>3. /\ s' \in Scanners /\ s'.state = "outside" /\ ~s'.escaped /\ s'.found = Null
          /\ s'.candidate = s.candidate
          /\ s'.objectDepth = inner.objectDepth /\ s'.arrayDepth = inner.arrayDepth
          /\ s'.metadataObjectDepth = object /\ s'.metadataArrayDepth = array
      BY <1>1, <1>6, <1>9, <3>1, <3>2 DEF Scanners, ScanStates
    <3>4. QED
      BY <1>9, <3>3 DEF object, array
  <2>5. InMetadata(doc.open)' <=> InMetadata(doc.open) \/ opens
    BY <1>2, <1>3, <2>2, MetadataOpened
  <2>6. opens => ~InMetadata(doc.open) /\ inner.objectDepth = 2 /\ inner.arrayDepth = 0
    <3>1. opens => s.objectDepth = 1 /\ s.arrayDepth = 0 /\ kind = "object"
      BY DEF opens, OpensMetadata
    <3>2. opens => ~InMetadata(doc.open)
      BY <2>2 DEF InMetadata
    <3>3. QED
      BY <1>9, <3>1, <3>2
  <2>7. Depths'
    BY <1>1, <1>10, <2>4, <2>5, <2>6 DEF Depths
  <2>8. States'
    BY <1>3, <2>4 DEF States
  <2>9. QED
    BY <1>1, <2>4, <2>7, <2>8 DEF Follows, Proper
<1>13. QED
  BY <1>5, <1>11, <1>12

(* The end of a container. *)
LEMMA ClosedDepths ==
    ASSUME WellFormed, Depths, NEW kind, NEW byte,
           <<kind, byte>> \in {<<"object", "endObject">>, <<"array", "endArray">>},
           Within = kind, doc'.open = Front(doc.open),
           NEW t \in Scanners, SameDepths(t), s' = UpdateContainerDepth(t, byte)
    PROVE  Depths'
<1> DEFINE open == doc.open
           front == Front(doc.open)
<1>1. doc \in Documents /\ open \in Seq(Containers)
  BY DEF WellFormed, Documents
<1>2. open # <<>> /\ open[Len(open)].kind = kind /\ kind \in {"object", "array"}
  BY <1>1, WithinIs
<1>3. /\ front \in Seq(Containers) /\ Len(front) = Len(open) - 1 /\ Len(open) \in Nat
      /\ \A i \in 1..(Len(open) - 1) : front[i] = open[i]
      /\ Cardinality(Objects(front)) = IF kind = "object" THEN Cardinality(Objects(open)) - 1
                                       ELSE Cardinality(Objects(open))
      /\ Cardinality(Arrays(front)) = IF kind = "array" THEN Cardinality(Arrays(open)) - 1
                                      ELSE Cardinality(Arrays(open))
  BY <1>1, <1>2, CountsClosed, LenProperties
<1>4. /\ Cardinality(Objects(open)) \in Nat /\ Cardinality(Arrays(open)) \in Nat
      /\ Cardinality(Objects(front)) \in Nat /\ Cardinality(Arrays(front)) \in Nat
  BY <1>1, <1>3, Counts
<1>5. InMetadata(front) <=> InMetadata(open) /\ Len(open) # 2
  <2>1. Len(front) >= 2 <=> Len(open) >= 2 /\ Len(open) # 2
    <3>1. \A n, m \in Nat : m = n - 1 => (m >= 2 <=> n >= 2 /\ n # 2)
      OBVIOUS
    <3>2. Len(front) \in Nat
      BY <1>3, LenProperties
    <3>3. QED
      BY <1>3, <3>1, <3>2
  <2>2. Len(front) >= 2 => front[1] = open[1] /\ front[2] = open[2]
    BY <1>3
  <2>3. QED
    BY <2>1, <2>2 DEF InMetadata
<1>6. /\ t.objectDepth = Cardinality(Objects(open)) /\ t.arrayDepth = Cardinality(Arrays(open))
      /\ t.metadataObjectDepth = IF InMetadata(open) THEN 2 ELSE Null
      /\ t.metadataArrayDepth = IF InMetadata(open) THEN 0 ELSE Null
  BY DEF Depths, SameDepths
<1>7. CASE kind = "object" /\ byte = "endObject"
  <2> DEFINE leaves == t.metadataObjectDepth = t.objectDepth
  <2>1. s' = [t EXCEPT !.metadataObjectDepth = IF leaves THEN Null ELSE @,
                       !.metadataArrayDepth = IF leaves THEN Null ELSE @,
                       !.objectDepth = IF @ = 0 THEN 0 ELSE @ - 1]
    BY <1>7 DEF UpdateContainerDepth
  <2>2. leaves <=> InMetadata(open) /\ Len(open) = 2
    <3>1. CASE InMetadata(open)
      <4>1. Cardinality(Objects(open)) = 2 /\ open[Len(open)].kind = "object" <=> Len(open) = 2
        BY <1>1, <3>1, CountsPlace
      <4>2. QED
        BY <1>2, <1>6, <1>7, <3>1, <4>1
    <3>2. CASE ~InMetadata(open)
      BY <1>4, <1>6, <3>2, ScannerConstants
    <3>3. QED
      BY <3>1, <3>2
  <2> HIDE DEF leaves
  <2>3. t.objectDepth # 0
    BY <1>3, <1>4, <1>6, <1>7
  <2>4. /\ s'.objectDepth = t.objectDepth - 1 /\ s'.arrayDepth = t.arrayDepth
        /\ s'.metadataObjectDepth = IF leaves THEN Null ELSE t.metadataObjectDepth
        /\ s'.metadataArrayDepth = IF leaves THEN Null ELSE t.metadataArrayDepth
    BY <2>1, <2>3 DEF Scanners
  <2>5. /\ s'.objectDepth = Cardinality(Objects(front))
        /\ s'.arrayDepth = Cardinality(Arrays(front))
    BY <1>3, <1>6, <1>7, <2>4
  <2>6. /\ s'.metadataObjectDepth = IF InMetadata(front) THEN 2 ELSE Null
        /\ s'.metadataArrayDepth = IF InMetadata(front) THEN 0 ELSE Null
    BY <1>5, <1>6, <2>2, <2>4
  <2>7. QED
    BY <2>5, <2>6 DEF Depths
<1>8. CASE kind = "array" /\ byte = "endArray"
  <2>1. s' = [t EXCEPT !.arrayDepth = IF @ = 0 THEN 0 ELSE @ - 1]
    BY <1>8 DEF UpdateContainerDepth
  <2>2. t.arrayDepth # 0
    BY <1>3, <1>4, <1>6, <1>8
  <2>3. /\ s'.objectDepth = t.objectDepth /\ s'.arrayDepth = t.arrayDepth - 1
        /\ s'.metadataObjectDepth = t.metadataObjectDepth
        /\ s'.metadataArrayDepth = t.metadataArrayDepth
    BY <2>1, <2>2 DEF Scanners
  <2>4. InMetadata(open) => Len(open) # 2
    BY <1>2, <1>8 DEF InMetadata
  <2>5. /\ s'.objectDepth = Cardinality(Objects(front))
        /\ s'.arrayDepth = Cardinality(Arrays(front))
    BY <1>3, <1>6, <1>8, <2>3
  <2>6. /\ s'.metadataObjectDepth = IF InMetadata(front) THEN 2 ELSE Null
        /\ s'.metadataArrayDepth = IF InMetadata(front) THEN 0 ELSE Null
    BY <1>5, <1>6, <2>3, <2>4
  <2>7. QED
    BY <2>5, <2>6 DEF Depths
<1>9. QED
  BY <1>7, <1>8
(* The scanner outside, where a comma or the end of a container finds it,  *)
(* with the value that the byte completes.                                 *)
Ended(t) ==
    /\ t \in Scanners /\ t.state = "outside" /\ ~t.escaped /\ t.candidate = s.candidate
    /\ SameDepths(t)

LEMMA ExpectIs ==
    ASSUME expected = Null, Expect
    PROVE  expected' = IF Completes THEN ValueOf(doc.number) ELSE Null
  BY DEF Expect

LEMMA CompletesTracked ==
    Completes <=> doc.at \in {"number", "afterNumber"} /\ Tracked /\ ValueOf(doc.number) <= MaxSafe
  BY DEF Completes, Tracked, MetadataPath

LEMMA Delimited ==
    ASSUME ScannerInv, s.found = Null, NEW byte \in Delimiters,
           doc.at \in {"after", "first", "number", "afterNumber"}, Expect,
           s' = ProcessByte(s, byte)
    PROVE  \E t : Ended(t) /\ t.found = expected' /\ s' = UpdateContainerDepth(t, byte)
<1>1. Proper(s) /\ Follows /\ States /\ Depths /\ WellFormed /\ s \in Scanners
  BY Starts DEF Proper
<1>2. byte \notin {"quote", "space", "colon", "object", "array"} /\ byte \notin Digits
  BY DEF Delimiters, Digits
<1>3. expected' = IF Completes THEN ValueOf(doc.number) ELSE Null
  BY ExpectIs DEF ScannerInv
<1>4. CASE s.state = "outside"
  <2>1. s' = UpdateContainerDepth(s, byte)
    BY <1>1, <1>2, <1>4, OutsideStep DEF ScanOutside
  <2>2. ~Completes
    BY <1>1, <1>4, CompletesTracked DEF States
  <2>3. Ended(s)
    BY <1>1, <1>4 DEF Ended, SameDepths, Follows
  <2>4. QED
    BY <1>3, <2>1, <2>2, <2>3
<1>5. CASE doc.at = "after" /\ s.state = "after-key"
  <2>1. s' = ScanOutside(Left(s), byte)
    BY <1>2, <1>5 DEF ProcessByte, ScanAfterKey, Again, Left
  <2>2. s' = UpdateContainerDepth(Left(s), byte)
    BY <1>2, <2>1 DEF ScanOutside
  <2>3. Ended(Left(s)) /\ Left(s).found = Null
    BY <1>1, <1>5, LeftTyped DEF Ended, SameDepths, Follows
  <2>4. ~Completes
    BY <1>5, CompletesTracked
  <2>5. QED
    BY <1>3, <2>2, <2>3, <2>4
<1>6. CASE s.state \in {"digits", "after-digits"}
  <2>1. doc.at \in {"number", "afterNumber"} /\ Tracked /\ Added /\ ~s.escaped
    BY <1>1, <1>6 DEF States, Follows
  <2> DEFINE value == IF s.overflow THEN Null ELSE s.value
             t == [s EXCEPT !.found = value, !.state = "outside", !.value = 0, !.overflow = FALSE]
  <2>2. s' = EndNumber(s, byte)
    <3>1. CASE s.state = "digits"
      BY <1>2, <3>1 DEF ProcessByte, ScanDigits
    <3>2. CASE s.state = "after-digits"
      BY <1>2, <3>2 DEF ProcessByte, ScanAfterDigits
    <3>3. QED
      BY <1>6, <3>1, <3>2
  <2>3. s' = UpdateContainerDepth(t, byte)
    BY <2>2 DEF EndNumber
  <2>4. value \in Nat \cup {Null} /\ 0 \in 0..MaxSafe
    BY <1>1, ScannerConstants DEF Scanners
  <2>5. value = expected'
    <3>1. CASE s.overflow
      <4>1. ValueOf(doc.number) > MaxSafe /\ MaxSafe \in Nat
        BY <2>1, <3>1, ScannerConstants DEF Added
      <4>2. ValueOf(doc.number) \in Nat
        <5>1. doc.number \in Seq(Digits) /\ "0" \in Digits
          BY <1>1 DEF WellFormed, Documents, Digits
        <5>2. QED
          BY <1>1, <5>1, OneMoreDigit DEF WellFormed
      <4>3. ~(ValueOf(doc.number) <= MaxSafe)
        BY <4>1, <4>2
      <4>4. QED
        BY <1>3, <3>1, <4>3, CompletesTracked
    <3>2. CASE ~s.overflow
      <4>1. s.value = ValueOf(doc.number) /\ s.value \in Nat /\ s.value <= MaxSafe
        BY <1>1, <2>1, <3>2, ScannerConstants DEF Added, Scanners
      <4>2. QED
        BY <1>3, <2>1, <3>2, <4>1, CompletesTracked
    <3>3. QED
      BY <3>1, <3>2
  <2> HIDE DEF value
  <2>6. Ended(t) /\ t.found = value
    BY <1>1, <2>1, <2>4 DEF Ended, SameDepths, Scanners, ScanStates
  <2>7. QED
    BY <2>3, <2>5, <2>6
<1>7. QED
  BY <1>1, <1>4, <1>5, <1>6 DEF States

LEMMA CommaFollowed ==
    ASSUME ScannerInv, s.found = Null, Comma
    PROVE  Proper(s') /\ Follows' /\ s'.found = expected'
<1>1. Proper(s) /\ Follows /\ States /\ Depths /\ WellFormed /\ s \in Scanners
  BY Starts DEF Proper
<1>2. /\ s' = ProcessByte(s, "comma") /\ Expect
      /\ doc' = [NewDocument EXCEPT !.open = doc.open,
                                    !.at = IF Within = "object" THEN "key" ELSE "value"]
      /\ doc.at \in {"after", "number", "afterNumber"}
  BY Emits DEF Comma, AtEnd
<1>3. doc'.open = doc.open /\ doc'.at = IF Within = "object" THEN "key" ELSE "value"
  BY <1>2 DEF NewDocument
<1>4. PICK t : Ended(t) /\ t.found = expected' /\ s' = UpdateContainerDepth(t, "comma")
  BY <1>2, Delimited DEF Delimiters
<1>5. s' = t
  BY <1>4, DepthsOnly DEF Ended
<1>6. Depths'
  BY <1>1, <1>3, <1>4, <1>5, DepthsStay DEF Ended
<1>7. Within' = Within
  BY <1>3 DEF Within
<1>8. States'
  BY <1>3, <1>4, <1>5, <1>7 DEF States, Ended
<1>9. QED
  BY <1>1, <1>4, <1>5, <1>6, <1>8 DEF Follows, Proper, Ended

LEMMA CloseContainerFollowed ==
    ASSUME ScannerInv, s.found = Null, NEW kind, NEW byte, CloseContainer(kind, byte),
           <<kind, byte>> \in {<<"object", "endObject">>, <<"array", "endArray">>}
    PROVE  Proper(s') /\ Follows' /\ s'.found = expected'
<1>1. Proper(s) /\ Follows /\ States /\ Depths /\ WellFormed /\ s \in Scanners
  BY Starts DEF Proper
<1>2. /\ s' = ProcessByte(s, byte) /\ Expect /\ Within = kind
      /\ doc' = [NewDocument EXCEPT !.open = Front(doc.open), !.at = "after"]
      /\ doc.at \in {"after", "first", "number", "afterNumber"}
  BY Emits DEF CloseContainer, AtEnd
<1>3. doc'.open = Front(doc.open) /\ doc'.at = "after"
  BY <1>2 DEF NewDocument
<1>4. byte \in Delimiters
  BY DEF Delimiters
<1>5. PICK t : Ended(t) /\ t.found = expected' /\ s' = UpdateContainerDepth(t, byte)
  BY <1>2, <1>4, Delimited
<1>6. Depths'
  BY <1>1, <1>2, <1>3, <1>5, ClosedDepths DEF Ended
<1>7. /\ s' \in Scanners /\ s'.state = "outside" /\ ~s'.escaped /\ s'.candidate = s.candidate
      /\ s'.found = expected'
  BY <1>5, DepthsOnly DEF Ended
<1>8. States'
  BY <1>3, <1>7 DEF States
<1>9. QED
  BY <1>1, <1>6, <1>7, <1>8 DEF Follows, Proper

-----------------------------------------------------------------------------
(* The invariant *)

LEMMA ScannerInvStarts == ScannerInit => ScannerInv
<1>1. SUFFICES ASSUME ScannerInit PROVE ScannerInv
  OBVIOUS
<1>2. s = NewScanner /\ doc = NewDocument /\ expected = Null
  BY <1>1 DEF ScannerInit
<1>3. <<>> \in Seq(TextBytes) /\ Len(<<>>) = 0 /\ 0 \in 0..MaxSafe /\ MaxScannedKeyLength \in Nat
      /\ MaxDepth \in Nat
  BY ScannerConstants
<1>4. ScannerTypes
  BY <1>2, <1>3 DEF ScannerTypes, NewScanner, Scanners, ScanStates
<1>5. doc.open = <<>> /\ doc.at = "value" /\ doc.key = Null /\ doc.integer /\ doc.number = <<>>
  BY <1>2 DEF NewDocument
<1>6. WellFormed
  BY <1>2, <1>3, <1>5, NewDocumentTyped, EmptyNumber DEF WellFormed
<1>7. Objects(<<>>) = {} /\ Arrays(<<>>) = {} /\ ~InMetadata(<<>>)
  BY DEF Objects, Arrays, InMetadata
<1>8. Cardinality(Objects(doc.open)) = 0 /\ Cardinality(Arrays(doc.open)) = 0
      /\ ~InMetadata(doc.open)
  BY <1>5, <1>7, FS_EmptySet, Zenon
<1>9. Depths
  BY <1>2, <1>8 DEF Depths, NewScanner
<1>10. Within = "document"
  BY <1>5 DEF Within
<1>11. States /\ ~s.escaped /\ s.found = Null
  BY <1>2, <1>5, <1>10 DEF States, NewScanner
<1>12. QED
  BY <1>2, <1>4, <1>6, <1>9, <1>11 DEF ScannerInv, Follows

(* Only the end of a value changes what is expected, and only once.        *)
LEMMA ExpectedTyped ==
    ASSUME WellFormed, expected \in Nat \cup {Null}, ScannerNext
    PROVE  /\ expected' \in Nat \cup {Null}
           /\ expected # Null => expected' = expected
<1>1. doc.number \in Seq(Digits) /\ "0" \in Digits
  BY DEF WellFormed, Documents, Digits
<1>2. ValueOf(doc.number) \in Nat
  BY <1>1, OneMoreDigit DEF WellFormed
<1>3. expected' = expected \/ Expect
  BY DEF ScannerNext, Space, SpaceAfterNumber, OpenContainer, OpenString, Escape, CloseString,
         Character, EscapedCharacter, Colon, Scalar, Fraction, Digit, Comma, CloseContainer
<1>4. QED
  BY <1>2, <1>3 DEF Expect

(* No more containers are counted than are open. *)
LEMMA CountsBounded ==
    ASSUME NEW open \in Seq(Containers), Len(open) <= MaxDepth
    PROVE  Cardinality(Objects(open)) <= MaxDepth /\ Cardinality(Arrays(open)) <= MaxDepth
<1>1. /\ Cardinality(Objects(open)) \in Nat /\ Cardinality(Arrays(open)) \in Nat
      /\ Cardinality(Objects(open)) + Cardinality(Arrays(open)) = Len(open)
      /\ Len(open) \in Nat /\ MaxDepth \in Nat
  BY Counts, LenProperties, ScannerConstants
<1>2. QED
  BY <1>1

LEMMA FollowedKept ==
    ASSUME ScannerInv, ScannerNext, s.found = Null
    PROVE  Proper(s') /\ Follows' /\ s'.found = expected'
<1>0. expected = Null
  BY DEF ScannerInv
<1>1. CASE Space
  BY <1>0, <1>1, SpaceFollowed DEF Space
<1>2. CASE SpaceAfterNumber
  BY <1>0, <1>2, SpaceAfterNumberFollowed DEF SpaceAfterNumber
<1>3. CASE \E kind \in {"object", "array"} : OpenContainer(kind)
  BY <1>0, <1>3, OpenContainerFollowed DEF OpenContainer
<1>4. CASE OpenString
  BY <1>0, <1>4, OpenStringFollowed DEF OpenString
<1>5. CASE Escape
  BY <1>0, <1>5, EscapeFollowed DEF Escape
<1>6. CASE CloseString
  BY <1>0, <1>6, CloseStringFollowed DEF CloseString
<1>7. CASE \E letter \in Letters \cup {"other"} : Character(letter)
  BY <1>0, <1>7, CharacterFollowed DEF Character
<1>8. CASE \E byte \in Letters \cup {"quote", "backslash"} : EscapedCharacter(byte)
  BY <1>0, <1>8, EscapedCharacterFollowed DEF EscapedCharacter
<1>9. CASE Colon
  BY <1>0, <1>9, ColonFollowed DEF Colon
<1>10. CASE Scalar
  BY <1>0, <1>10, ScalarFollowed DEF Scalar
<1>11. CASE Fraction
  BY <1>0, <1>11, FractionFollowed DEF Fraction
<1>12. CASE \E digit \in Digits : Digit(digit)
  BY <1>0, <1>12, DigitFollowed DEF Digit
<1>13. CASE Comma
  BY <1>13, CommaFollowed
<1>14. CASE CloseContainer("object", "endObject")
  BY <1>14, CloseContainerFollowed
<1>15. CASE CloseContainer("array", "endArray")
  BY <1>15, CloseContainerFollowed
<1>16. QED
  BY <1>1, <1>2, <1>3, <1>4, <1>5, <1>6, <1>7, <1>8, <1>9, <1>10, <1>11, <1>12, <1>13, <1>14,
     <1>15 DEF ScannerNext

LEMMA ScannerInvKept == ScannerInv /\ [ScannerNext]_scannerVars => ScannerInv'
<1>1. SUFFICES ASSUME ScannerInv, [ScannerNext]_scannerVars PROVE ScannerInv'
  OBVIOUS
<1>2. ScannerTypes /\ WellFormed /\ s.found = expected
  BY <1>1 DEF ScannerInv
<1>3. CASE UNCHANGED scannerVars
  BY <1>1, <1>3 DEF scannerVars, ScannerInv, ScannerTypes, WellFormed, Follows, Depths, States,
                    Within, Pending, Buffered, Tracked, Added
<1>4. CASE ScannerNext
  <2>1. WellFormed'
    BY <1>2, <1>4, WellFormedKept
  <2>2. expected' \in Nat \cup {Null} /\ (expected # Null => expected' = expected)
    BY <1>2, <1>4, ExpectedTyped DEF ScannerTypes
  <2>3. CASE s.found = Null
    <3>1. Proper(s') /\ Follows' /\ s'.found = expected'
      BY <1>1, <1>4, <2>3, FollowedKept
    <3>2. s'.objectDepth <= MaxDepth /\ s'.arrayDepth <= MaxDepth
      <4>1. doc'.open \in Seq(Containers) /\ Len(doc'.open) <= MaxDepth
        BY <2>1 DEF WellFormed, Documents
      <4>2. s'.objectDepth = Cardinality(Objects(doc'.open))
            /\ s'.arrayDepth = Cardinality(Arrays(doc'.open))
        BY <3>1 DEF Follows, Depths
      <4>3. QED
        BY <4>1, <4>2, CountsBounded
    <3>3. QED
      BY <2>1, <2>2, <3>1, <3>2 DEF ScannerInv, ScannerTypes, Proper
  <2>4. CASE s.found # Null
    <3>1. s' = s
      <4>1. PICK byte : s' = ProcessByte(s, byte)
        BY <1>4 DEF ScannerNext, Space, SpaceAfterNumber, OpenContainer, OpenString, Escape,
                    CloseString, Character, EscapedCharacter, Colon, Scalar, Fraction, Digit,
                    Comma, CloseContainer, Emit
      <4>2. QED
        BY <2>4, <4>1 DEF ProcessByte
    <3>2. QED
      BY <1>2, <2>1, <2>2, <2>4, <3>1 DEF ScannerInv, ScannerTypes
  <2>5. QED
    BY <2>3, <2>4
<1>5. QED
  BY <1>1, <1>3, <1>4

LEMMA ScannerInvAlways == ScannerSpec => []ScannerInv
  BY ScannerInvStarts, ScannerInvKept, PTL DEF ScannerSpec

(* The fields of the scanner keep their types, its depths are at most the  *)
(* document's, and neither its key buffer nor its value exceeds its bound, *)
(* for keys, strings, numbers and documents of any size.                   *)
THEOREM ScannerTypeCorrect == ScannerSpec => []ScannerTypeOK
<1>1. ScannerInv => ScannerTypeOK
  BY ScannerConstants DEF ScannerInv, ScannerTypes, ScannerTypeOK, Scanners, ScanStates
<1>2. QED
  BY <1>1, ScannerInvAlways, PTL

(* After every byte of every document, however deeply nested, the scanner  *)
(* has reported the first completed metadata.creditsUsed of the whole      *)
(* document, and nothing else.                                             *)
THEOREM ScannerIsExact == ScannerSpec => []ScannerExact
<1>1. ScannerInv => ScannerExact
  BY DEF ScannerInv, ScannerExact
<1>2. QED
  BY <1>1, ScannerInvAlways, PTL
==============================================================================
