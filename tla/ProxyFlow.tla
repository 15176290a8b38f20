------------------------------- MODULE ProxyFlow -------------------------------
(***************************************************************************)
(* One proxied request, from ProxyService.handle() to its last byte        *)
(* (apps/api/src/proxy/proxy.service.ts, policy.ts): admission, the choice *)
(* of a backend, the attempts on Cloud keys, the two fallbacks, the reply, *)
(* and what runs beside them: the upstream timers, the audit insert and    *)
(* the observer of a streamed answer.  What other requests and refreshes   *)
(* do to the pools is the choice reserve() makes here: any key this        *)
(* request has not tried, or none.                                         *)
(***************************************************************************)
EXTENDS Integers, FiniteSets

CONSTANTS
    Keys,    \* the Cloud keys an administrator may have configured
    NoKey    \* no reservation in hand

ASSUME FlowKeys == IsFiniteSet(Keys) /\ NoKey \notin Keys

VARIABLES
    req,            \* what the request is: see Requests
    pc,             \* where handle() stands
    asking,         \* why proxyCloud() was called
    selfHosted,     \* a self-hosted URL is configured
    keys,           \* cloudApiKeys
    tried,          \* attemptedCloudKeyIds
    key,            \* the key of the latest reservation
    result,         \* the latest answer; it will be sent to the client
    attempts,       \* of the retry loop
    quotaAttempts,  \* of the retry loop
    fallbackUsed,
    armed,          \* the upstream calls whose abort timer is set
    streams,        \* the upstream calls whose body is open and unread
    calls,          \* how many upstream calls were made
    audit,          \* the audit insert: none, writing, settled
    recorded,       \* per key: how often recordResponse() settled its attempt
    answers,        \* history: what each key tried has answered
    contacted       \* history: the backends that were called

flowVars == <<pc, asking, selfHosted, keys, tried, key, result, attempts, quotaAttempts,
              fallbackUsed>>
sideVars == <<armed, streams, calls, audit, recorded, answers, contacted>>
vars == <<req, flowVars, sideVars>>

-----------------------------------------------------------------------------
(* Policy (policy.ts). *)
Modes == {"self-hosted-first", "self-hosted-only", "cloud-first", "cloud-only"}

(* A mode that does not exist counts as none. *)
RouteMode(header, query, default) ==
    CASE header \in Modes -> header
      [] header \notin Modes /\ query \in Modes -> query
      [] header \notin Modes /\ query \notin Modes /\ default \in Modes -> default
      [] OTHER -> "cloud-first"

(* The modes a request can end up with, whatever was asked for where. *)
RouteModes ==
    {RouteMode(h, q, d) : h \in Modes \cup {""}, q \in Modes \cup {""}, d \in Modes \cup {""}}

Requests ==
    [mode : RouteModes,
     needsCloud : BOOLEAN,
     private : BOOLEAN,     \* hasSensitiveHeaders or hasPrivateTargetUrl
     admission : {"ok", "badUrl", "unauthorized", "too large", "malformed"}]

ChooseInitialBackend ==
    CASE req.mode \in {"cloud-first", "cloud-only"} -> "cloud"
      [] req.mode = "self-hosted-only" -> IF req.needsCloud THEN "reject" ELSE "self-hosted"
      [] req.mode = "self-hosted-first" -> IF req.needsCloud THEN "cloud" ELSE "self-hosted"

(* Mutant: private targets and sensitive headers are not looked at. *)
IsFallbackAllowedToAll == req.mode = "self-hosted-first"

IsFallbackAllowed == req.mode = "self-hosted-first" /\ ~req.private

IsCloudQuotaFallbackAllowed == req.mode = "cloud-first" /\ ~req.needsCloud

(***************************************************************************)
(* Answers of a backend, by what the code tells apart.  401 stands for 401 *)
(* and 403, unsupported for another 4xx whose text names a missing feature.*)
(* Only answers below 400 with a body are streamed.                        *)
(***************************************************************************)
Outcomes == {"ok", "401", "402", "429", "4xx", "unsupported", "5xx", "network"}
Retryable == {"401", "402", "429"}
Capacity == {"402", "429"}

IsFallbackEligible(outcome) == outcome \in {"network", "5xx", "unsupported"}

NoResult == [backend |-> "none", outcome |-> "none", call |-> 0, stream |-> FALSE,
             observed |-> FALSE]

Init ==
    /\ req \in Requests
    /\ pc = "settings"
    /\ asking = "none"
    /\ selfHosted = FALSE
    /\ keys = {}
    /\ tried = {}
    /\ key = NoKey
    /\ result = NoResult
    /\ attempts = 0
    /\ quotaAttempts = 0
    /\ fallbackUsed = FALSE
    /\ armed = {}
    /\ streams = {}
    /\ calls = 0
    /\ audit = "none"
    /\ recorded = [k \in Keys |-> 0]
    /\ answers = [k \in Keys |-> "none"]
    /\ contacted = {}

-----------------------------------------------------------------------------
(* Admission.  A rejection is audited before it is sent.                   *)
Reject(backend, status) ==
    /\ pc' = "rejecting"
    /\ audit' = "writing"
    /\ result' = [NoResult EXCEPT !.backend = backend, !.outcome = status]

(* An answer without audit entry. *)
EndAtOnce(status) ==
    /\ pc' = "done"
    /\ result' = [NoResult EXCEPT !.outcome = status]
    /\ UNCHANGED <<req, asking, selfHosted, keys, tried, key, attempts, quotaAttempts,
                   fallbackUsed, sideVars>>

(* The URL is parsed before anything else. *)
RejectUrl ==
    /\ pc = "settings"
    /\ req.admission = "badUrl"
    /\ EndAtOnce("400")

LoadSettings ==
    /\ pc = "settings"
    /\ req.admission # "badUrl"
    /\ selfHosted' \in BOOLEAN
    /\ pc' = "auth"
    /\ UNCHANGED <<req, asking, keys, tried, key, result, attempts, quotaAttempts, fallbackUsed,
                   sideVars>>

(* The settings or the key lookup throws: the framework answers 500. *)
DatabaseFails ==
    /\ pc \in {"settings", "auth"}
    /\ req.admission # "badUrl"
    /\ EndAtOnce("500")

Authenticate ==
    /\ pc = "auth"
    /\ IF req.admission = "unauthorized"
       THEN Reject("none", "401")
       ELSE pc' = "body" /\ UNCHANGED <<audit, result>>
    /\ UNCHANGED <<req, asking, selfHosted, keys, tried, key, attempts, quotaAttempts, fallbackUsed,
                   armed, streams, calls, recorded, answers, contacted>>

InspectBody ==
    /\ pc = "body"
    /\ CASE req.admission = "too large" -> Reject("none", "413")
         [] req.admission = "malformed" -> Reject("none", "400")
         [] OTHER -> pc' = "backend" /\ UNCHANGED <<audit, result>>
    /\ UNCHANGED <<req, asking, selfHosted, keys, tried, key, attempts, quotaAttempts, fallbackUsed,
                   armed, streams, calls, recorded, answers, contacted>>

-----------------------------------------------------------------------------
(* proxyToBackend(): every call sets its own abort timer. *)
Call(backend) ==
    /\ calls' = calls + 1
    /\ armed' = armed \cup {calls + 1}
    /\ contacted' = contacted \cup {backend}

CallSelfHosted(why) ==
    /\ Call("self-hosted")
    /\ pc' = "self-hosted"
    /\ asking' = why

(* The keys are read only when this request may come to use them; no key   *)
(* configured, or none readable, gives the empty set.                      *)
ChooseBackend ==
    LET initial == ChooseInitialBackend
        wanted == initial = "cloud" \/ (initial = "self-hosted" /\ IsFallbackAllowed)
    IN  /\ pc = "backend"
        /\ keys' \in IF wanted THEN SUBSET Keys ELSE {{}}
        /\ CASE initial = "cloud" /\ keys' = {} ->
                  /\ Reject("none", "502")
                  /\ UNCHANGED <<asking, armed, calls, contacted>>
             [] initial = "cloud" /\ keys' # {} ->
                  /\ pc' = "reserve"
                  /\ asking' = "first"
                  /\ UNCHANGED <<result, audit, armed, calls, contacted>>
             [] initial = "reject" ->
                  /\ Reject("none", "409")
                  /\ UNCHANGED <<asking, armed, calls, contacted>>
             [] initial = "self-hosted" ->
                  /\ CallSelfHosted("initial")
                  /\ UNCHANGED <<result, audit>>
        /\ UNCHANGED <<req, selfHosted, tried, key, attempts, quotaAttempts, fallbackUsed, streams,
                       recorded, answers>>

(* Mutant: a key that was tried may be drawn again. *)
ReserveKeyAgain(k) ==
    /\ pc = "reserve"
    /\ k \in keys
    /\ key' = k
    /\ tried' = tried \cup {k}
    /\ Call("cloud")
    /\ pc' = "cloud"
    /\ UNCHANGED <<req, asking, selfHosted, keys, result, attempts, quotaAttempts, fallbackUsed,
                   streams, audit, recorded, answers>>

ReserveKey(k) ==
    /\ pc = "reserve"
    /\ k \in keys \ tried
    /\ key' = k
    /\ tried' = tried \cup {k}
    /\ Call("cloud")
    /\ pc' = "cloud"
    /\ UNCHANGED <<req, asking, selfHosted, keys, result, attempts, quotaAttempts, fallbackUsed,
                   streams, audit, recorded, answers>>

(* reserve() finds nothing: every key was tried, is disabled, cools down,  *)
(* or is short of credits.                                                 *)
NothingReserved ==
    /\ pc = "reserve"
    /\ CASE asking = "first" /\ IsCloudQuotaFallbackAllowed /\ selfHosted ->
              /\ CallSelfHosted("no-pool")
              /\ fallbackUsed' = TRUE
              /\ UNCHANGED <<result, audit>>
         [] asking = "first" /\ ~(IsCloudQuotaFallbackAllowed /\ selfHosted) ->
              /\ Reject("cloud", "429")
              /\ UNCHANGED <<asking, fallbackUsed, armed, calls, contacted>>
         [] asking = "fallback" ->
              /\ pc' = "send"
              /\ UNCHANGED <<asking, fallbackUsed, result, audit, armed, calls, contacted>>
         [] asking = "retry" ->
              /\ pc' = "quota"
              /\ UNCHANGED <<asking, fallbackUsed, result, audit, armed, calls, contacted>>
    /\ UNCHANGED <<req, selfHosted, keys, tried, key, attempts, quotaAttempts, streams, recorded,
                   answers>>

-----------------------------------------------------------------------------
(* Mutant: the timer is cleared as soon as the headers have arrived. *)
ReceiveDisarms(backend, outcome, stream, observed) ==
    /\ outcome # "ok" => ~stream
    /\ observed => stream /\ backend = "cloud"
    /\ result' = [backend |-> backend, outcome |-> outcome, call |-> calls, stream |-> stream,
                  observed |-> observed]
    /\ armed' = armed \ {calls}
    /\ streams' = IF stream THEN streams \cup {calls} ELSE streams

(* The answer of the call in flight; a timer that fires makes it "network". *)
(* The timer of a streamed answer stays set until the stream is over.      *)
Receive(backend, outcome, stream, observed) ==
    /\ outcome # "ok" => ~stream
    /\ observed => stream /\ backend = "cloud"
    /\ result' = [backend |-> backend, outcome |-> outcome, call |-> calls, stream |-> stream,
                  observed |-> observed]
    /\ armed' = IF stream THEN armed ELSE armed \ {calls}
    /\ streams' = IF stream THEN streams \cup {calls} ELSE streams

CloudAnswers(outcome, stream, observed) ==
    /\ pc = "cloud"
    /\ Receive("cloud", outcome, stream, observed)
    /\ answers' = [answers EXCEPT ![key] = outcome]
    /\ pc' = "record"
    /\ UNCHANGED <<req, asking, selfHosted, keys, tried, key, attempts, quotaAttempts, fallbackUsed,
                   calls, audit, recorded, contacted>>

(* Mutant: only a lack of capacity is recorded. *)
RecordCapacity ==
    /\ pc = "record"
    /\ recorded' = IF result.outcome \in Capacity
                   THEN [recorded EXCEPT ![key] = @ + 1] ELSE recorded
    /\ pc' = "attempted"
    /\ UNCHANGED <<req, asking, selfHosted, keys, tried, key, result, attempts, quotaAttempts,
                   fallbackUsed, armed, streams, calls, audit, answers, contacted>>

(* recordResponse() settles a rejected attempt; other answers that are not *)
(* observed while they stream leave the reservation as it is.              *)
RecordAttempt ==
    /\ pc = "record"
    /\ recorded' = IF result.outcome \in Retryable
                   THEN [recorded EXCEPT ![key] = @ + 1] ELSE recorded
    /\ pc' = "attempted"
    /\ UNCHANGED <<req, asking, selfHosted, keys, tried, key, result, attempts, quotaAttempts,
                   fallbackUsed, armed, streams, calls, audit, answers, contacted>>

One(condition) == IF condition THEN 1 ELSE 0

(* The first attempt, or the fallback's: a rejected one opens the loop. *)
FirstAttempted ==
    /\ pc = "attempted"
    /\ asking \in {"first", "fallback"}
    /\ fallbackUsed' = (asking = "fallback")
    /\ IF result.outcome \in Retryable
       THEN /\ attempts' = 1
            /\ quotaAttempts' = One(result.outcome \in Capacity)
            /\ pc' = "reserve"
            /\ asking' = "retry"
       ELSE /\ pc' = "send"
            /\ UNCHANGED <<attempts, quotaAttempts, asking>>
    /\ UNCHANGED <<req, selfHosted, keys, tried, key, result, sideVars>>

(* Mutant: attempts that end in a network error are not counted. *)
RetryAttemptedUncounted ==
    LET settled == result.outcome \notin Retryable \cup {"network"}
    IN  /\ pc = "attempted"
        /\ asking = "retry"
        /\ attempts' = attempts + One(result.outcome # "network")
        /\ quotaAttempts' = quotaAttempts + One(result.outcome \in Capacity)
        /\ fallbackUsed' = (fallbackUsed \/ settled)
        /\ pc' = IF settled THEN "quota" ELSE "reserve"
        /\ UNCHANGED <<req, asking, selfHosted, keys, tried, key, result, sideVars>>

(* The loop goes on after a rejection and after a network error. *)
RetryAttempted ==
    LET settled == result.outcome \notin Retryable \cup {"network"}
    IN  /\ pc = "attempted"
        /\ asking = "retry"
        /\ attempts' = attempts + 1
        /\ quotaAttempts' = quotaAttempts + One(result.outcome \in Capacity)
        /\ fallbackUsed' = (fallbackUsed \/ settled)
        /\ pc' = IF settled THEN "quota" ELSE "reserve"
        /\ UNCHANGED <<req, asking, selfHosted, keys, tried, key, result, sideVars>>

(* After the loop.  Whether a self-hosted URL is set is not asked here;    *)
(* without one the call fails like an unreachable host.                    *)
QuotaFallback ==
    /\ pc = "quota"
    /\ IF quotaAttempts = attempts /\ result.outcome \in Capacity /\ IsCloudQuotaFallbackAllowed
       THEN /\ CallSelfHosted("quota")
            /\ fallbackUsed' = TRUE
       ELSE /\ pc' = "send"
            /\ UNCHANGED <<asking, fallbackUsed, armed, calls, contacted>>
    /\ UNCHANGED <<req, selfHosted, keys, tried, key, result, attempts, quotaAttempts, streams,
                   audit, recorded, answers>>

SelfHostedAnswers(outcome, stream) ==
    LET goesOn == asking = "initial" /\ keys # {} /\ IsFallbackEligible(outcome)
                    /\ IsFallbackAllowed
    IN  /\ pc = "self-hosted"
        /\ ~selfHosted => outcome = "network"
        /\ Receive("self-hosted", outcome, stream, FALSE)
        /\ pc' = IF goesOn THEN "reserve" ELSE "send"
        /\ asking' = IF goesOn THEN "fallback" ELSE asking
        /\ UNCHANGED <<req, selfHosted, keys, tried, key, attempts, quotaAttempts, fallbackUsed,
                       calls, audit, recorded, answers, contacted>>

-----------------------------------------------------------------------------
(* The reply.  The audit insert runs beside it and is waited for at the end. *)
SendReply ==
    /\ pc = "send"
    /\ audit' = "writing"
    /\ pc' = IF result.stream THEN "streaming" ELSE "sent"
    /\ UNCHANGED <<req, asking, selfHosted, keys, tried, key, result, attempts, quotaAttempts,
                   fallbackUsed, armed, streams, calls, recorded, answers, contacted>>

(* Mutant: the timer of a finished stream is left set. *)
StreamEndsArmed(how) ==
    /\ pc = "streaming"
    /\ pc' = "sent"
    /\ streams' = IF how = "client gone" THEN streams ELSE streams \ {result.call}
    /\ UNCHANGED <<req, asking, selfHosted, keys, tried, key, result, attempts, quotaAttempts,
                   fallbackUsed, armed, calls, audit, recorded, answers, contacted>>

(* The stream is read to its end, breaks (its timer may do that), or the   *)
(* client goes away; then nobody reads or cancels the upstream body.       *)
StreamEnds(how) ==
    /\ pc = "streaming"
    /\ pc' = "sent"
    /\ armed' = armed \ {result.call}
    /\ streams' = IF how = "client gone" THEN streams ELSE streams \ {result.call}
    /\ UNCHANGED <<req, asking, selfHosted, keys, tried, key, result, attempts, quotaAttempts,
                   fallbackUsed, calls, audit, recorded, answers, contacted>>

(* observeCreditsUsedStream(): the scanner passes creditsUsed on at most   *)
(* once, in a task of its own that may outlive the request.                *)
CreditsObserved ==
    /\ pc \in {"streaming", "sent", "done"}
    /\ result.observed
    /\ recorded' = [recorded EXCEPT ![key] = @ + 1]
    /\ result' = [result EXCEPT !.observed = FALSE]
    /\ UNCHANGED <<req, pc, asking, selfHosted, keys, tried, key, attempts, quotaAttempts,
                   fallbackUsed, armed, streams, calls, audit, answers, contacted>>

(* A failed insert is logged and counts as settled. *)
AuditSettles ==
    /\ audit = "writing"
    /\ audit' = "settled"
    /\ UNCHANGED <<req, flowVars, armed, streams, calls, recorded, answers, contacted>>

Return ==
    /\ pc \in {"rejecting", "sent"}
    /\ audit = "settled"
    /\ pc' = "done"
    /\ UNCHANGED <<req, asking, selfHosted, keys, tried, key, result, attempts, quotaAttempts,
                   fallbackUsed, sideVars>>

Steps ==
    \/ RejectUrl
    \/ LoadSettings
    \/ DatabaseFails
    \/ Authenticate
    \/ InspectBody
    \/ ChooseBackend
    \/ \E k \in Keys : ReserveKey(k)
    \/ NothingReserved
    \/ RecordAttempt
    \/ FirstAttempted
    \/ RetryAttempted
    \/ QuotaFallback
    \/ SendReply
    \/ AuditSettles
    \/ Return

Upstream ==
    \/ \E outcome \in Outcomes, stream, observed \in BOOLEAN : CloudAnswers(outcome, stream, observed)
    \/ \E outcome \in Outcomes, stream \in BOOLEAN : SelfHostedAnswers(outcome, stream)
    \/ \E how \in {"end", "error", "client gone"} : StreamEnds(how)

Next == Steps \/ Upstream \/ CreditsObserved

Spec == Init /\ [][Next]_vars

(* REQUEST_TIMEOUT_MS after a call was made its timer aborts it. *)
TimerFires ==
    /\ calls \in armed
    /\ \/ CloudAnswers("network", FALSE, FALSE)
       \/ SelfHostedAnswers("network", FALSE)
       \/ StreamEnds("error")

(***************************************************************************)
(* handle() itself goes on: the ledger's commands have a timer and the     *)
(* database client gives up on its own.  Of an upstream or a client only   *)
(* the abort timer of the call is certain.                                 *)
(***************************************************************************)
FairSpec == Spec /\ WF_vars(Steps) /\ WF_vars(TimerFires)

-----------------------------------------------------------------------------
TypeOK ==
    /\ req \in Requests
    /\ pc \in {"settings", "auth", "body", "backend", "reserve", "cloud", "record", "attempted",
               "quota", "self-hosted", "send", "streaming", "sent", "rejecting", "done"}
    /\ asking \in {"none", "first", "fallback", "retry", "initial", "no-pool", "quota"}
    /\ selfHosted \in BOOLEAN /\ fallbackUsed \in BOOLEAN
    /\ keys \subseteq Keys /\ tried \subseteq keys
    /\ key \in Keys \cup {NoKey}
    /\ result.backend \in {"none", "cloud", "self-hosted"}
    /\ result.call \in 0..calls
    /\ attempts \in 0..Cardinality(Keys) /\ quotaAttempts \in 0..attempts
    /\ calls \in 0..(Cardinality(Keys) + 1)
    /\ armed \subseteq 1..calls /\ streams \subseteq 1..calls
    /\ audit \in {"none", "writing", "settled"}
    /\ recorded \in [Keys -> Nat]
    /\ answers \in [Keys -> Outcomes \cup {"none"}]
    /\ contacted \subseteq {"cloud", "self-hosted"}

(***************************************************************************)
(* Whatever fails and is retried, no request reaches a backend its route   *)
(* mode excludes, a request that needs Cloud never reaches the self-hosted *)
(* instance, and a private one never leaves it for Cloud.                  *)
(***************************************************************************)
RouteModeKept ==
    /\ req.mode = "self-hosted-only" => "cloud" \notin contacted
    /\ req.mode = "cloud-only" => "self-hosted" \notin contacted
    /\ req.needsCloud => "self-hosted" \notin contacted
    /\ req.mode = "self-hosted-first" /\ req.private /\ ~req.needsCloud => "cloud" \notin contacted

(***************************************************************************)
(* The loop's two counters stand for every key's answer: cloud-first goes  *)
(* on to the self-hosted instance when, and only when, every key that was  *)
(* tried lacked capacity, in whatever order other rejections and broken    *)
(* connections came between.                                               *)
(***************************************************************************)
QuotaFallbackExact ==
    LET exhausted == \A k \in tried : answers[k] \in Capacity
    IN  req.mode = "cloud-first" =>
           /\ {"cloud", "self-hosted"} \subseteq contacted => exhausted
           /\ pc = "done" /\ tried # {} /\ exhausted /\ ~req.needsCloud =>
                 result.backend = "self-hosted"

(***************************************************************************)
(* One request uses a key at most once, and the self-hosted instance at    *)
(* most once, through first attempt, retries and both fallbacks.           *)
(***************************************************************************)
EachBackendOnce ==
    calls = Cardinality(tried) + One("self-hosted" \in contacted)

(***************************************************************************)
(* Every rejected attempt has been settled before the next key is drawn or *)
(* the client is answered, no attempt is settled twice, and one that may   *)
(* have been charged is never settled without its usage.                   *)
(***************************************************************************)
AttemptsSettledOnce ==
    \A k \in Keys :
        /\ recorded[k] <= 1
        /\ recorded[k] = 1 => answers[k] \in Retryable \cup {"ok"}
        /\ answers[k] \in Retryable /\ (k = key => pc # "record") => recorded[k] = 1

(***************************************************************************)
(* A streamed answer is the one the client gets, it is under its timer for *)
(* as long as handle() waits for it, and no timer outlives the request.    *)
(***************************************************************************)
StreamsUnderTimer ==
    /\ streams \subseteq {result.call}
    /\ pc \in {"send", "streaming"} => streams = armed
    /\ pc = "done" => armed = {}

(***************************************************************************)
(* Every request comes to an end, also when an upstream stalls after its   *)
(* headers: the abort timer is what bounds it.                             *)
(***************************************************************************)
RequestEnds == <>(pc = "done")

(***************************************************************************)
(* SELF_HOST.md: "Sensitive headers/cookies and private target URLs        *)
(* continue to disable fallback."                                          *)
(***************************************************************************)
PrivacyDisablesFallback == req.private => contacted # {"cloud", "self-hosted"}
=============================================================================
