----------------------------- MODULE ApiKeyAccess -----------------------------
(***************************************************************************)
(* Gateway API keys: their rows in PostgreSQL, and per instance of the     *)
(* gateway the validation cache, the reads that callers join and the       *)
(* debounced touches of ApiKeysService                                     *)
(* (apps/api/src/api-keys/api-keys.service.ts), with the admission of a    *)
(* request in proxy.service.ts, and the maintenance job that revokes keys  *)
(* by the age of their last touch (cron.service.ts).                       *)
(*                                                                         *)
(* Both maps drop their oldest entry when other keys fill them, which may  *)
(* happen at any time here.  Names, hashes and the encrypted copy of a key *)
(* are left out.                                                           *)
(***************************************************************************)
EXTENDS Integers

CONSTANTS
    Instances,
    Keys,
    Requests,     \* the requests under way at one time
    None,         \* no entry, no read, no touch, no maintenance run
    Ttl,          \* API_KEY_VALIDATION_CACHE_TTL_MS
    Debounce,     \* touchDebounceMs
    Days,         \* api_key_inactivity_revoke_days
    QueryDelay,   \* how long a database call may take
    MaxTime       \* bound on the clock

ASSUME AccessConstants ==
    /\ {Ttl, Debounce, MaxTime} \subseteq Nat \ {0}
    /\ {Days, QueryDelay} \subseteq Nat
ASSUME AccessNone == None \notin Instances \cup Keys \cup Requests \cup Nat

VARIABLES
    now,
    keys,        \* the rows: see NewKey
    cache,       \* validationCache, per instance and key
    inflight,    \* validationInFlight: the request whose read others join
    touched,     \* lastTouchById
    request,     \* see NewRequest
    revoking,    \* per instance, the committed revocations without an answer
    cron,        \* when the running maintenance job took the time
    revokedHere, \* history: the keys an instance has finished revoking
    used         \* history: the last admission whose touch went well

vars == <<now, keys, cache, inflight, touched, request, revoking, cron, revokedHere, used>>

NewKey == [state |-> "absent", created |-> 0, lastUsed |-> 0, revokedAt |-> 0]

(* A request waits for the read of waitsFor; began and fenced are history: *)
(* when it came, and whether its instance had revoked the key by then.     *)
NewRequest == [at |-> "idle", on |-> None, key |-> None, waitsFor |-> None, row |-> "unread",
               began |-> 0, fenced |-> FALSE, stamp |-> 0]

Init ==
    /\ now = 1
    /\ keys = [k \in Keys |-> NewKey]
    /\ cache = [i \in Instances |-> [k \in Keys |-> None]]
    /\ inflight = [i \in Instances |-> [k \in Keys |-> None]]
    /\ touched = [i \in Instances |-> [k \in Keys |-> None]]
    /\ request = [r \in Requests |-> NewRequest]
    /\ revoking = [i \in Instances |-> {}]
    /\ cron = None
    /\ revokedHere = [i \in Instances |-> {}]
    /\ used = [k \in Keys |-> 0]

-----------------------------------------------------------------------------
CreateKey(k) ==
    /\ keys[k].state = "absent"
    /\ keys' = [keys EXCEPT ![k].state = "active", ![k].created = now]
    /\ UNCHANGED <<now, cache, inflight, touched, request, revoking, cron, revokedHere, used>>

(* Mutant: an entry is still used in the moment it expires. *)
LiveToTheEnd(i, k, at) == cache[i][k] # None /\ cache[i][k].expires >= at

LiveAt(i, k, at) == cache[i][k] # None /\ cache[i][k].expires > at
Live(i, k) == LiveAt(i, k, now)

Begun(r, i, k) == [NewRequest EXCEPT !.on = i, !.key = k, !.began = now,
                                     !.fenced = k \in revokedHere[i]]

(* validateApiKey() with a live entry ... *)
ValidateFromCache(r, i, k) ==
    /\ request[r].at = "idle" /\ keys[k].state # "absent"
    /\ Live(i, k)
    /\ request' = [request EXCEPT ![r] = [Begun(r, i, k) EXCEPT !.at = "verdict",
                                                                !.row = cache[i][k].row]]
    /\ UNCHANGED <<now, keys, cache, inflight, touched, revoking, cron, revokedHere, used>>

(* ... and without: the dead entry goes, the running read is joined. *)
ValidateFromDatabase(r, i, k) ==
    LET joined == IF inflight[i][k] # None THEN inflight[i][k] ELSE r
    IN  /\ request[r].at = "idle" /\ keys[k].state # "absent"
        /\ ~Live(i, k)
        /\ cache' = [cache EXCEPT ![i][k] = None]
        /\ inflight' = [inflight EXCEPT ![i][k] = joined]
        /\ request' = [request EXCEPT ![r] = [Begun(r, i, k) EXCEPT !.at = "reading",
                                                                    !.waitsFor = joined]]
        /\ UNCHANGED <<now, keys, touched, revoking, cron, revokedHere, used>>

Reads(r) == request[r].at = "reading" /\ request[r].waitsFor = r

(* PostgreSQL evaluates the read of request r. *)
DatabaseReads(r) ==
    /\ Reads(r) /\ request[r].row = "unread"
    /\ request' = [request EXCEPT ![r].row = IF keys[request[r].key].state = "active"
                                             THEN "valid" ELSE "invalid"]
    /\ UNCHANGED <<now, keys, cache, inflight, touched, revoking, cron, revokedHere, used>>

Answered(r, at, row) ==
    [q \in Requests |-> IF request[q].at = "reading" /\ request[q].waitsFor = r
                        THEN [request[q] EXCEPT !.at = at, !.row = row, !.waitsFor = None]
                        ELSE request[q]]

(* Mutant: the verdict is stored although a revocation dropped the read. *)
ReadReturnsAlways(r) ==
    LET i == request[r].on
        k == request[r].key
        entry == [row |-> request[r].row, expires |-> now + Ttl]
    IN  /\ Reads(r) /\ request[r].row # "unread"
        /\ cache' = [cache EXCEPT ![i][k] = entry]
        /\ inflight' = [inflight EXCEPT ![i][k] = IF @ = r THEN None ELSE @]
        /\ request' = Answered(r, "verdict", request[r].row)
        /\ UNCHANGED <<now, keys, touched, revoking, cron, revokedHere, used>>

(* The answer arrives: it is stored only if the read is still the one that *)
(* others would join; all who wait for it go by it.                        *)
ReadReturns(r) ==
    LET i == request[r].on
        k == request[r].key
        entry == [row |-> request[r].row, expires |-> now + Ttl]
    IN  /\ Reads(r) /\ request[r].row # "unread"
        /\ \/ /\ inflight[i][k] = r
              /\ cache' = [cache EXCEPT ![i][k] = entry]
              /\ inflight' = [inflight EXCEPT ![i][k] = None]
           \/ /\ inflight[i][k] # r
              /\ UNCHANGED <<cache, inflight>>
        /\ request' = Answered(r, "verdict", request[r].row)
        /\ UNCHANGED <<now, keys, touched, revoking, cron, revokedHere, used>>

(* Mutant: a failed read stays the one that others join. *)
ReadFailsInPlace(r) ==
    /\ Reads(r)
    /\ request' = [q \in Requests |-> IF request[q].waitsFor = r THEN NewRequest ELSE request[q]]
    /\ UNCHANGED <<now, keys, cache, inflight, touched, revoking, cron, revokedHere, used>>

ReadFails(r) ==
    LET i == request[r].on
        k == request[r].key
    IN  /\ Reads(r)
        /\ inflight' = [inflight EXCEPT ![i][k] = IF @ = r THEN None ELSE @]
        /\ request' = [q \in Requests |-> IF request[q].waitsFor = r THEN NewRequest ELSE request[q]]
        /\ UNCHANGED <<now, keys, cache, touched, revoking, cron, revokedHere, used>>

(* 401 for an unknown or revoked key. *)
Refuse(r) ==
    /\ request[r].at = "verdict" /\ request[r].row = "invalid"
    /\ request' = [request EXCEPT ![r] = NewRequest]
    /\ UNCHANGED <<now, keys, cache, inflight, touched, revoking, cron, revokedHere, used>>

-----------------------------------------------------------------------------
DebouncedAt(i, k, at) == touched[i][k] # None /\ at - touched[i][k] < Debounce
Debounced(i, k) == DebouncedAt(i, k, now)

(* Mutant: a debounced touch moves the debounce on. *)
AdmitDebouncedSliding(r) ==
    LET i == request[r].on
        k == request[r].key
    IN  /\ request[r].at = "verdict" /\ request[r].row = "valid"
        /\ Debounced(i, k)
        /\ touched' = [touched EXCEPT ![i][k] = now]
        /\ request' = [request EXCEPT ![r] = NewRequest]
        /\ used' = [used EXCEPT ![k] = now]
        /\ UNCHANGED <<now, keys, cache, inflight, revoking, cron, revokedHere>>

(* The request goes on and its key is touched, without waiting for it: a   *)
(* recent touch is only recorded anew, at its old time, ...                *)
AdmitDebounced(r) ==
    LET k == request[r].key
    IN  /\ request[r].at = "verdict" /\ request[r].row = "valid"
        /\ Debounced(request[r].on, k)
        /\ request' = [request EXCEPT ![r] = NewRequest]
        /\ used' = [used EXCEPT ![k] = now]
        /\ UNCHANGED <<now, keys, cache, inflight, touched, revoking, cron, revokedHere>>

(* ... otherwise the time of this moment is written. *)
AdmitAndTouch(r) ==
    /\ request[r].at = "verdict" /\ request[r].row = "valid"
    /\ ~Debounced(request[r].on, request[r].key)
    /\ request' = [request EXCEPT ![r].at = "touching", ![r].stamp = now]
    /\ UNCHANGED <<now, keys, cache, inflight, touched, revoking, cron, revokedHere, used>>

TouchCommits(r) ==
    /\ request[r].at = "touching"
    /\ keys' = [keys EXCEPT ![request[r].key].lastUsed = request[r].stamp]
    /\ request' = [request EXCEPT ![r].at = "touched"]
    /\ UNCHANGED <<now, cache, inflight, touched, revoking, cron, revokedHere, used>>

TouchReturns(r) ==
    LET i == request[r].on
        k == request[r].key
    IN  /\ request[r].at = "touched"
        /\ touched' = [touched EXCEPT ![i][k] = request[r].stamp]
        /\ request' = [request EXCEPT ![r] = NewRequest]
        /\ used' = [used EXCEPT ![k] = IF @ < request[r].stamp THEN request[r].stamp ELSE @]
        /\ UNCHANGED <<now, keys, cache, inflight, revoking, cron, revokedHere>>

(* The error is swallowed, and the next request touches again. *)
TouchFails(r) ==
    /\ request[r].at \in {"touching", "touched"}
    /\ request' = [request EXCEPT ![r] = NewRequest]
    /\ UNCHANGED <<now, keys, cache, inflight, touched, revoking, cron, revokedHere, used>>

-----------------------------------------------------------------------------
Revoked(k) == [keys[k] EXCEPT !.state = "revoked",
                              !.revokedAt = IF @ = 0 THEN now ELSE @]

(* revokeApiKey() commits first; the answer comes later.  An instance that *)
(* has revoked a key is not asked again.                                   *)
RevokeCommits(i, k) ==
    /\ keys[k].state # "absent" /\ k \notin revoking[i] \cup revokedHere[i]
    /\ keys' = [keys EXCEPT ![k] = Revoked(k)]
    /\ revoking' = [revoking EXCEPT ![i] = @ \cup {k}]
    /\ UNCHANGED <<now, cache, inflight, touched, request, cron, revokedHere, used>>

RevokeReturns(i, k) ==
    /\ k \in revoking[i]
    /\ cache' = [cache EXCEPT ![i][k] = None]
    /\ inflight' = [inflight EXCEPT ![i][k] = None]
    /\ revoking' = [revoking EXCEPT ![i] = @ \ {k}]
    /\ revokedHere' = [revokedHere EXCEPT ![i] = @ \cup {k}]
    /\ UNCHANGED <<now, keys, touched, request, cron, used>>

(* The answer is lost: neither map is touched. *)
RevokeFails(i, k) ==
    /\ k \in revoking[i]
    /\ revoking' = [revoking EXCEPT ![i] = @ \ {k}]
    /\ UNCHANGED <<now, keys, cache, inflight, touched, request, cron, revokedHere, used>>

(* revokeInactiveKeys() takes the time, then revokes in one statement; no  *)
(* instance's cache hears of it.  A run without a key to look at is left   *)
(* out.                                                                    *)
CronStarts ==
    /\ cron = None /\ \E k \in Keys : keys[k].state = "active"
    /\ cron' = now
    /\ UNCHANGED <<now, keys, cache, inflight, touched, request, revoking, revokedHere, used>>

Inactive(k) ==
    /\ keys[k].state = "active"
    /\ keys[k].created < cron - Days
    /\ keys[k].lastUsed = 0 \/ keys[k].lastUsed < cron - Days

CronRevokes ==
    /\ cron # None
    /\ keys' = [k \in Keys |-> IF Inactive(k) THEN Revoked(k) ELSE keys[k]]
    /\ cron' = None
    /\ UNCHANGED <<now, cache, inflight, touched, request, revoking, revokedHere, used>>

-----------------------------------------------------------------------------
(* Other keys fill a map, and the entry of this one is the oldest. *)
EvictVerdict(i, k) ==
    /\ cache[i][k] # None
    /\ cache' = [cache EXCEPT ![i][k] = None]
    /\ UNCHANGED <<now, keys, inflight, touched, request, revoking, cron, revokedHere, used>>

EvictTouch(i, k) ==
    /\ touched[i][k] # None
    /\ touched' = [touched EXCEPT ![i][k] = None]
    /\ UNCHANGED <<now, keys, cache, inflight, request, revoking, cron, revokedHere, used>>

(* Time passes; a database call takes QueryDelay at most.  Entries that no *)
(* longer count are taken out at once, not when they are next looked up.   *)
Tick ==
    /\ now < MaxTime
    /\ \A r \in Requests :
          /\ Reads(r) => now < request[r].began + QueryDelay
          /\ request[r].at \in {"touching", "touched"} => now < request[r].stamp + QueryDelay
    /\ cron # None => now < cron + QueryDelay
    /\ now' = now + 1
    /\ cache' = [i \in Instances |-> [k \in Keys |->
                   IF LiveAt(i, k, now + 1) THEN cache[i][k] ELSE None]]
    /\ touched' = [i \in Instances |-> [k \in Keys |->
                     IF DebouncedAt(i, k, now + 1) THEN touched[i][k] ELSE None]]
    /\ UNCHANGED <<keys, inflight, request, revoking, cron, revokedHere, used>>

(* A verdict is acted upon in the turn that brought it: nothing else runs  *)
(* between.                                                                *)
ActOnVerdict(r) == Refuse(r) \/ AdmitDebounced(r) \/ AdmitAndTouch(r)

Other ==
    \/ \E k \in Keys : CreateKey(k)
    \/ \E r \in Requests, i \in Instances, k \in Keys :
          ValidateFromCache(r, i, k) \/ ValidateFromDatabase(r, i, k)
    \/ \E r \in Requests :
          \/ DatabaseReads(r) \/ ReadReturns(r) \/ ReadFails(r)
          \/ TouchCommits(r) \/ TouchReturns(r) \/ TouchFails(r)
    \/ \E i \in Instances, k \in Keys :
          \/ RevokeCommits(i, k) \/ RevokeReturns(i, k) \/ RevokeFails(i, k)
          \/ EvictVerdict(i, k) \/ EvictTouch(i, k)
    \/ CronStarts \/ CronRevokes
    \/ Tick

Next ==
    \/ \E r \in Requests : ActOnVerdict(r)
    \/ /\ \A r \in Requests : request[r].at # "verdict"
       /\ Other

Spec == Init /\ [][Next]_vars

-----------------------------------------------------------------------------
Times == 0..MaxTime
KeyRecord == [state : {"absent", "active", "revoked"}, created : Times, lastUsed : Times,
              revokedAt : Times]
Entry == [row : {"valid", "invalid"}, expires : Nat]
RequestRecord ==
    [at : {"idle", "reading", "verdict", "touching", "touched"}, on : Instances \cup {None},
     key : Keys \cup {None}, waitsFor : Requests \cup {None},
     row : {"unread", "valid", "invalid"}, began : Times, fenced : BOOLEAN, stamp : Times]

(* The variables keep their types, and a read that others may join is one  *)
(* under way: after a failed read nobody waits for an answer that never    *)
(* comes.                                                                  *)
TypeOK ==
    /\ now \in Times
    /\ keys \in [Keys -> KeyRecord]
    /\ cache \in [Instances -> [Keys -> Entry \cup {None}]]
    /\ inflight \in [Instances -> [Keys -> Requests \cup {None}]]
    /\ touched \in [Instances -> [Keys -> Times \cup {None}]]
    /\ request \in [Requests -> RequestRecord]
    /\ revoking \in [Instances -> SUBSET Keys]
    /\ cron \in Times \cup {None}
    /\ revokedHere \in [Instances -> SUBSET Keys]
    /\ used \in [Keys -> Times]
    /\ \A i \in Instances, k \in Keys :
          inflight[i][k] # None =>
              /\ Reads(inflight[i][k])
              /\ request[inflight[i][k]].on = i /\ request[inflight[i][k]].key = k

(* Once an instance has answered a revocation, no request that comes to it *)
(* later is let through with that key, whatever reads were under way when  *)
(* the revocation dropped them.                                            *)
RevokedHereAtOnce ==
    \A r \in Requests :
        request[r].at = "verdict" /\ request[r].fenced => request[r].row = "invalid"

(* A revocation by another instance, or by the maintenance job, of which   *)
(* the cache hears nothing, is in force everywhere once a verdict read     *)
(* just before it has run out: after the cache's lifetime plus one read.   *)
RevokedSoonEverywhere ==
    \A r \in Requests :
        LET k == request[r].key
        IN  request[r].at = "verdict" /\ request[r].row = "valid" /\ keys[k].revokedAt # 0
            => request[r].began < keys[k].revokedAt + Ttl + QueryDelay

(* The inactivity job never revokes a key in use: the last admission lies  *)
(* at most the debounce and one slow write after the recorded time, also   *)
(* when touches of several instances overtake one another.                 *)
UsedKeysStay ==
    [][\A k \in Keys :
          keys[k].state = "active" /\ keys'[k].state = "revoked" /\ cron # None /\ cron' = None
          => used[k] = 0 \/ used[k] < cron - Days + Debounce - 1 + QueryDelay]_vars
=============================================================================
