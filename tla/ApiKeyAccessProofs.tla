--------------------------- MODULE ApiKeyAccessProofs ---------------------------
(***************************************************************************)
(* Machine-checked proofs about the gateway's API keys, for any number of  *)
(* instances, keys and requests and for any lifetimes.                     *)
(***************************************************************************)
EXTENDS ApiKeyAccess, TLAPS

Typed ==
    /\ now \in Times
    /\ keys \in [Keys -> KeyRecord]
    /\ cache \in [Instances -> [Keys -> Entry \cup {None}]]
    /\ inflight \in [Instances -> [Keys -> Requests \cup {None}]]
    /\ touched \in [Instances -> [Keys -> Times \cup {None}]]
    /\ request \in [Requests -> RequestRecord]
    /\ revoking \in [Instances -> SUBSET Keys]
    /\ cron \in Times \cup {None}
    /\ revokedHere \in [Instances -> SUBSET Keys]
    /\ used \in [Keys -> Times]

(* Who waits for a read, or may come to, waits for one that is under way,  *)
(* on the same instance and about the same key.                            *)
Reading ==
    /\ \A i \in Instances, k \in Keys :
          inflight[i][k] # None =>
              /\ Reads(inflight[i][k])
              /\ request[inflight[i][k]].on = i /\ request[inflight[i][k]].key = k
    /\ \A r \in Requests :
          /\ request[r].at # "idle" => request[r].on \in Instances /\ request[r].key \in Keys
          /\ request[r].at = "reading" =>
                /\ request[r].waitsFor \in Requests
                /\ Reads(request[r].waitsFor)
                /\ request[request[r].waitsFor].on = request[r].on
                /\ request[request[r].waitsFor].key = request[r].key

(* A revocation is final, and an instance has only revoked what is revoked.*)
Rows ==
    /\ \A k \in Keys : keys[k].revokedAt # 0 => keys[k].state = "revoked"
    /\ \A i \in Instances, k \in Keys :
          k \in revoking[i] \cup revokedHere[i] => keys[k].state = "revoked"

(* Where the instance has revoked the key nothing good about it is left:   *)
(* not in the cache, not in a read that may be joined, and not in the read *)
(* that a later request waits for.                                         *)
Fencing ==
    /\ \A i \in Instances : \A k \in revokedHere[i] :
          /\ cache[i][k] # None => cache[i][k].row = "invalid"
          /\ inflight[i][k] # None => request[inflight[i][k]].row # "valid"
    /\ \A r \in Requests :
          request[r].at # "idle" /\ request[r].fenced =>
              /\ request[r].key \in revokedHere[request[r].on]
              /\ request[r].at = "reading" => request[request[r].waitsFor].row # "valid"
              /\ request[r].at = "verdict" => request[r].row = "invalid"

(* A good verdict about a revoked key was read before the revocation.      *)
Timely ==
    /\ \A r \in Requests :
          /\ request[r].began <= now
          /\ Reads(r) => now <= request[r].began + QueryDelay
          /\ Reads(r) /\ request[r].row = "valid" /\ keys[request[r].key].revokedAt # 0 =>
                request[r].began <= keys[request[r].key].revokedAt
          /\ request[r].at = "verdict" /\ request[r].row = "valid"
                /\ keys[request[r].key].revokedAt # 0 =>
                request[r].began < keys[request[r].key].revokedAt + Ttl + QueryDelay
    /\ \A i \in Instances, k \in Keys :
          cache[i][k] # None =>
              /\ cache[i][k].expires <= now + Ttl
              /\ cache[i][k].row = "valid" /\ keys[k].revokedAt # 0 =>
                    cache[i][k].expires <= keys[k].revokedAt + Ttl + QueryDelay

(* The recorded time of a key's use is behind a touch by one write at most,*)
(* and behind an admission by the debounce more.                           *)
Touches ==
    /\ now >= 1
    /\ \A r \in Requests :
          /\ request[r].at \in {"touching", "touched"} =>
                /\ request[r].stamp >= 1 /\ request[r].stamp <= now
                /\ now <= request[r].stamp + QueryDelay
          /\ request[r].at = "touched" =>
                /\ keys[request[r].key].lastUsed # 0
                /\ request[r].stamp <= keys[request[r].key].lastUsed + QueryDelay
    /\ \A i \in Instances, k \in Keys :
          touched[i][k] # None =>
              /\ touched[i][k] <= now
              /\ keys[k].lastUsed # 0 /\ touched[i][k] <= keys[k].lastUsed + QueryDelay
    /\ \A k \in Keys :
          /\ used[k] <= now
          /\ used[k] # 0 =>
                /\ keys[k].lastUsed # 0
                /\ used[k] <= keys[k].lastUsed + (Debounce - 1) + QueryDelay

AccessInv ==
    /\ Typed
    /\ Reading
    /\ Rows
    /\ Fencing
    /\ Timely
    /\ Touches

-----------------------------------------------------------------------------
LEMMA NewRequestFacts ==
    /\ NewRequest \in RequestRecord
    /\ NewRequest.at = "idle" /\ NewRequest.waitsFor = None /\ NewRequest.row = "unread"
    /\ NewRequest.began = 0 /\ NewRequest.stamp = 0
<1>1. 0 \in Times
  BY AccessConstants DEF Times
<1>2. NewRequest \in RequestRecord
  BY <1>1 DEF NewRequest, RequestRecord
<1>3. QED
  BY <1>2 DEF NewRequest

LEMMA BegunFacts ==
    ASSUME Typed, NEW r \in Requests, NEW i \in Instances, NEW k \in Keys
    PROVE  /\ Begun(r, i, k) \in RequestRecord
           /\ Begun(r, i, k).on = i /\ Begun(r, i, k).key = k /\ Begun(r, i, k).began = now
           /\ Begun(r, i, k).fenced <=> k \in revokedHere[i]
           /\ Begun(r, i, k).row = "unread"
<1>1. now \in Times
  BY DEF Typed
<1>2. CASE k \in revokedHere[i]
  <2>0. (k \in revokedHere[i]) = TRUE
    BY <1>2
  <2>1. Begun(r, i, k) = [NewRequest EXCEPT !.on = i, !.key = k, !.began = now, !.fenced = TRUE]
    BY <2>0, Zenon DEF Begun
  <2>2. QED
    BY <1>1, <1>2, <2>1, NewRequestFacts DEF RequestRecord
<1>3. CASE k \notin revokedHere[i]
  <2>0. (k \in revokedHere[i]) = FALSE
    BY <1>3
  <2>1. Begun(r, i, k) = [NewRequest EXCEPT !.on = i, !.key = k, !.began = now, !.fenced = FALSE]
    BY <2>0, Zenon DEF Begun
  <2>2. QED
    BY <1>1, <1>3, <2>1, NewRequestFacts DEF RequestRecord
<1>4. QED
  BY <1>2, <1>3

LEMMA CreateKeyKeeps ==
    ASSUME AccessInv, NEW k \in Keys, CreateKey(k)
    PROVE  AccessInv'
<1> USE DEF AccessInv
<1> DEFINE new == [keys[k] EXCEPT !.state = "active", !.created = now]
<1>a. /\ keys[k].state = "absent" /\ keys' = [keys EXCEPT ![k] = new]
      /\ UNCHANGED <<now, cache, inflight, touched, request, revoking, cron, revokedHere, used>>
  BY DEF CreateKey, Typed
<1>b. /\ new \in KeyRecord /\ new.lastUsed = keys[k].lastUsed
      /\ new.revokedAt = keys[k].revokedAt
  BY DEF Typed, KeyRecord
<1> HIDE DEF new
<1>1. Typed'
  BY <1>b, <1>a DEF Typed
<1>2. Reading'
  BY <1>b, <1>a DEF Reading, Reads, Typed
<1>3. Rows'
  BY <1>b, <1>a DEF Rows, Typed
<1>4. Fencing'
  BY <1>b, <1>a DEF Fencing, Typed, Reading, Reads
<1>5. Timely'
  BY <1>b, <1>a DEF Timely, Typed, Times, Reading, Reads
<1>6. Touches'
  BY <1>b, <1>a DEF Touches, Typed, Times, Reading
<1>7. QED
  BY <1>1, <1>2, <1>3, <1>4, <1>5, <1>6

LEMMA ValidateFromCacheKeeps ==
    ASSUME AccessInv, NEW r \in Requests, NEW i \in Instances, NEW k \in Keys, 
           ValidateFromCache(r, i, k)
    PROVE  AccessInv'
<1> USE DEF AccessInv
<1> DEFINE begun == Begun(r, i, k)
           new == [begun EXCEPT !.at = "verdict", !.row = cache[i][k].row]
<1>a. /\ request[r].at = "idle" /\ cache[i][k] # None /\ cache[i][k].expires > now
      /\ cache[i][k] \in Entry
      /\ UNCHANGED <<now, keys, cache, inflight, touched, revoking, cron, revokedHere, used>>
  BY DEF ValidateFromCache, Live, LiveAt, Typed
<1>b. request' = [request EXCEPT ![r] = new]
  BY DEF ValidateFromCache
<1>x. /\ begun \in RequestRecord /\ begun.on = i /\ begun.key = k /\ begun.began = now
      /\ (begun.fenced <=> k \in revokedHere[i])
      /\ begun.row = "unread"
  BY BegunFacts DEF AccessInv
<1> HIDE DEF begun
<1>c. /\ new \in RequestRecord /\ new.at = "verdict" /\ new.row = cache[i][k].row
      /\ new.on = i /\ new.key = k /\ new.began = now
      /\ (new.fenced <=> k \in revokedHere[i])
  BY <1>a, <1>x DEF Entry, RequestRecord
<1> HIDE DEF new
<1>1. Typed'
  BY <1>b, <1>a, <1>c DEF Typed
<1>2. Reading'
  BY <1>b, <1>a, <1>c DEF Reading, Reads, Typed
<1>3. Rows'
  BY <1>b, <1>a, <1>c DEF Rows, Typed
<1>4. Fencing'
  BY <1>b, <1>a, <1>c DEF Fencing, Typed, Reading, Reads
<1>5. Timely'
  BY <1>b, AccessConstants, <1>a, <1>c DEF Entry, KeyRecord, Timely, Typed, Times, Reading, Reads
<1>6. Touches'
  BY <1>b, <1>a, <1>c DEF Touches, Typed, Times, Reading
<1>7. QED
  BY <1>1, <1>2, <1>3, <1>4, <1>5, <1>6

LEMMA ValidateFromDatabaseKeeps ==
    ASSUME AccessInv, NEW r \in Requests, NEW i \in Instances, NEW k \in Keys, 
           ValidateFromDatabase(r, i, k)
    PROVE  AccessInv'
<1> USE DEF AccessInv
<1> DEFINE joined == IF inflight[i][k] # None THEN inflight[i][k] ELSE r
           begun == Begun(r, i, k)
           new == [begun EXCEPT !.at = "reading", !.waitsFor = joined]
<1>a. /\ request[r].at = "idle" /\ joined \in Requests
      /\ UNCHANGED <<now, keys, touched, revoking, cron, revokedHere, used>>
  BY DEF ValidateFromDatabase, Typed
<1>b. /\ request' = [request EXCEPT ![r] = new]
      /\ inflight' = [inflight EXCEPT ![i][k] = joined]
      /\ cache' = [cache EXCEPT ![i][k] = None]
  BY DEF ValidateFromDatabase
<1>x. /\ begun \in RequestRecord /\ begun.on = i /\ begun.key = k /\ begun.began = now
      /\ (begun.fenced <=> k \in revokedHere[i])
      /\ begun.row = "unread"
  BY BegunFacts DEF AccessInv
<1>d. joined = r \/ (Reads(joined) /\ joined # r /\ joined = inflight[i][k])
  BY DEF Reading, Reads, Typed
<1> HIDE DEF begun, joined
<1>c. /\ new \in RequestRecord /\ new.at = "reading" /\ new.row = "unread" /\ new.waitsFor = joined
      /\ new.on = i /\ new.key = k /\ new.began = now
      /\ (new.fenced <=> k \in revokedHere[i])
  BY <1>a, <1>x DEF RequestRecord
<1> HIDE DEF new
<1>1. Typed'
  BY <1>b, <1>a, <1>c, <1>d DEF Typed
<1>2. Reading'
  BY <1>b, AccessNone, <1>a, <1>c, <1>d DEF Reading, Reads, Typed
<1>3. Rows'
  BY <1>b, <1>a, <1>c, <1>d DEF Rows, Typed
<1>4. Fencing'
  BY <1>b, AccessNone, <1>a, <1>c, <1>d DEF Fencing, Typed, Reading, Reads
<1>5. Timely'
  BY <1>b, AccessConstants, <1>a, <1>c, <1>d DEF Timely, Typed, Times, Reading, Reads
<1>6. Touches'
  BY <1>b, <1>a, <1>c, <1>d DEF Touches, Typed, Times, Reading
<1>7. QED
  BY <1>1, <1>2, <1>3, <1>4, <1>5, <1>6

LEMMA DatabaseReadsKeeps ==
    ASSUME AccessInv, NEW r \in Requests, DatabaseReads(r)
    PROVE  AccessInv'
<1> USE DEF AccessInv
<1> DEFINE new == [request[r] EXCEPT !.row = IF keys[request[r].key].state = "active"
                                                THEN "valid" ELSE "invalid"]
<1>a. /\ Reads(r) /\ request[r].row = "unread" /\ request[r].key \in Keys
      /\ UNCHANGED <<now, keys, cache, inflight, touched, revoking, cron, revokedHere, used>>
  BY DEF DatabaseReads, Reading, Reads
<1>b. request' = [request EXCEPT ![r] = new]
  BY DEF DatabaseReads, Typed
<1>c. /\ new \in RequestRecord /\ new.row \in {"valid", "invalid"}
      /\ new.row = "valid" => keys[request[r].key].state = "active"
      /\ new.at = request[r].at /\ new.waitsFor = request[r].waitsFor
      /\ new.on = request[r].on /\ new.key = request[r].key
      /\ new.began = request[r].began /\ new.stamp = request[r].stamp
      /\ (new.fenced <=> request[r].fenced)
  BY DEF Typed, RequestRecord
<1> HIDE DEF new
<1>1. Typed'
  BY <1>b, <1>a, <1>c DEF Typed
<1>2. Reading'
  BY <1>b, <1>a, <1>c DEF Reading, Reads, Typed
<1>3. Rows'
  BY <1>b, <1>a, <1>c DEF Rows, Typed
<1>4. Fencing'
  BY <1>b, <1>a, <1>c DEF Rows, Fencing, Typed, Reading, Reads
<1>5. Timely'
  BY <1>b, <1>a, <1>c DEF Rows, KeyRecord, Timely, Typed, Times, Reading, Reads
<1>6. Touches'
  BY <1>b, <1>a, <1>c DEF Touches, Typed, Times, Reading
<1>7. QED
  BY <1>1, <1>2, <1>3, <1>4, <1>5, <1>6

LEMMA ReadReturnsKeeps ==
    ASSUME AccessInv, NEW r \in Requests, ReadReturns(r)
    PROVE  AccessInv'
<1> USE DEF AccessInv
<1>a. /\ Reads(r) /\ request[r].row \in {"valid", "invalid"}
      /\ request[r].on \in Instances /\ request[r].key \in Keys
      /\ UNCHANGED <<now, keys, touched, revoking, cron, revokedHere, used>>
  BY DEF ReadReturns, Reading, Reads, Typed, RequestRecord
<1>b. ASSUME NEW q \in Requests
      PROVE  LET new == [request[q] EXCEPT !.at = "verdict", !.row = request[r].row,
                                           !.waitsFor = None]
             IN  /\ new \in RequestRecord
                 /\ new.at = "verdict" /\ new.row = request[r].row
                 /\ new.on = request[q].on /\ new.key = request[q].key
                 /\ new.began = request[q].began
                 /\ (new.fenced <=> request[q].fenced)
  <2> DEFINE old == request[q]
             row == request[r].row
             new == [old EXCEPT !.at = "verdict", !.row = row, !.waitsFor = None]
  <2>1. old \in RequestRecord /\ row \in {"valid", "invalid"}
    BY <1>a DEF Typed
  <2> HIDE DEF old, row
  <2>2. /\ new \in RequestRecord /\ new.at = "verdict" /\ new.row = row
        /\ new.on = old.on /\ new.key = old.key /\ new.began = old.began
        /\ (new.fenced <=> old.fenced)
    BY <2>1 DEF RequestRecord
  <2>3. QED
    BY <2>2 DEF old, row
<1>c. ASSUME NEW q \in Requests
      PROVE  /\ request[q].at = "reading" /\ request[q].waitsFor = r =>
                    /\ request'[q] \in RequestRecord
                    /\ request'[q].at = "verdict" /\ request'[q].row = request[r].row
                    /\ request'[q].on = request[q].on /\ request'[q].key = request[q].key
                    /\ request'[q].began = request[q].began
                    /\ (request'[q].fenced <=> request[q].fenced)
             /\ ~(request[q].at = "reading" /\ request[q].waitsFor = r) =>
                    request'[q] = request[q]
  <2>1. CASE request[q].at = "reading" /\ request[q].waitsFor = r
    <3>1. request'[q] = [request[q] EXCEPT !.at = "verdict", !.row = request[r].row,
                                           !.waitsFor = None]
      BY <2>1 DEF ReadReturns, Answered
    <3>2. QED
      BY <1>b, <2>1, <3>1, Zenon
  <2>2. CASE ~(request[q].at = "reading" /\ request[q].waitsFor = r)
    BY <2>2 DEF ReadReturns, Answered
  <2>3. QED
    BY <2>1, <2>2
<1>d. request' \in [Requests -> RequestRecord]
  <2>1. \A q \in Requests : request'[q] \in RequestRecord
    BY <1>c DEF Typed
  <2>2. request' = [q \in Requests |-> request'[q]]
    BY DEF ReadReturns, Answered
  <2>3. QED
    BY <2>1, <2>2
<1>e. /\ inflight' \in [Instances -> [Keys -> Requests \cup {None}]]
      /\ cache' \in [Instances -> [Keys -> Entry \cup {None}]]
      /\ \A j \in Instances, l \in Keys : inflight'[j][l] # None =>
            inflight'[j][l] = inflight[j][l] /\ inflight[j][l] # r
      /\ \A j \in Instances, l \in Keys :
            \/ cache'[j][l] = cache[j][l]
            \/ /\ inflight[j][l] = r /\ request[r].on = j /\ request[r].key = l
               /\ cache'[j][l].row = request[r].row /\ cache'[j][l].expires = now + Ttl
  <2> DEFINE entry == [row |-> request[r].row, expires |-> now + Ttl]
             i == request[r].on
             k == request[r].key
  <2>1. entry \in Entry /\ entry.row = request[r].row /\ entry.expires = now + Ttl
    BY <1>a, AccessConstants DEF Typed, Times, Entry
  <2>2. \A j \in Instances, l \in Keys :
           inflight[j][l] = r => request[r].on = j /\ request[r].key = l
    BY AccessNone DEF Reading
  <2>3. \/ /\ inflight[i][k] = r
           /\ cache' = [cache EXCEPT ![i][k] = entry]
           /\ inflight' = [inflight EXCEPT ![i][k] = None]
        \/ inflight[i][k] # r /\ UNCHANGED <<cache, inflight>>
    BY DEF ReadReturns
  <2>4. i \in Instances /\ k \in Keys
    BY <1>a
  <2> HIDE DEF entry
  <2>5. CASE inflight[i][k] # r /\ UNCHANGED <<cache, inflight>>
    BY <2>2, <2>5 DEF Typed
  <2>6. CASE /\ inflight[i][k] = r
             /\ cache' = [cache EXCEPT ![i][k] = entry]
             /\ inflight' = [inflight EXCEPT ![i][k] = None]
    BY <2>1, <2>2, <2>4, <2>6 DEF Typed
  <2>7. QED
    BY <2>3, <2>5, <2>6
<1>1. Typed'
  BY <1>a, <1>d, <1>e DEF Typed
<1>2. Reading'
  <2>1. ASSUME NEW q \in Requests
        PROVE  /\ request'[q].at # "idle" =>
                  request'[q].on \in Instances /\ request'[q].key \in Keys
               /\ request'[q].at = "reading" =>
                     /\ request'[q].waitsFor \in Requests
                     /\ Reads(request[q].waitsFor)'
                     /\ request'[request'[q].waitsFor].on = request'[q].on
                     /\ request'[request'[q].waitsFor].key = request'[q].key
    <3>1. CASE request[q].at = "reading" /\ request[q].waitsFor = r
      BY <1>c, <3>1 DEF Reading
    <3>2. CASE ~(request[q].at = "reading" /\ request[q].waitsFor = r)
      <4>1. request'[q] = request[q]
        BY <1>c, <3>2
      <4>2. ASSUME request[q].at = "reading"
            PROVE  request'[request[q].waitsFor] = request[request[q].waitsFor]
        BY <1>c, <3>2, <4>2 DEF Reading, Reads
      <4>3. QED
        BY <4>1, <4>2 DEF Reading, Reads
    <3>3. QED
      BY <3>1, <3>2
  <2>2. ASSUME NEW j \in Instances, NEW l \in Keys, inflight'[j][l] # None
        PROVE  /\ Reads(inflight[j][l])'
               /\ request'[inflight'[j][l]].on = j /\ request'[inflight'[j][l]].key = l
    <3>1. inflight'[j][l] = inflight[j][l] /\ inflight[j][l] \in Requests /\ inflight[j][l] # r
      BY <1>e, <2>2 DEF Typed
    <3>2. request'[inflight[j][l]] = request[inflight[j][l]]
      BY <1>c, <3>1, <2>2 DEF Reading, Reads
    <3>3. QED
      BY <2>2, <3>1, <3>2 DEF Reading, Reads
  <2>3. QED
    BY <2>1, <2>2 DEF Reading
<1>3. Rows'
  BY <1>a DEF Rows
<1>4. Fencing'
  <2>1. ASSUME NEW j \in Instances, NEW l \in revokedHere[j]
        PROVE  /\ cache'[j][l] # None => cache'[j][l].row = "invalid"
               /\ inflight'[j][l] # None => request'[inflight'[j][l]].row # "valid"
    <3>0. l \in Keys
      BY DEF Typed
    <3>1. ASSUME inflight'[j][l] # None
          PROVE  request'[inflight'[j][l]].row # "valid"
      <4>1. inflight'[j][l] = inflight[j][l] /\ inflight[j][l] \in Requests /\ inflight[j][l] # r
        BY <1>e, <3>0, <3>1 DEF Typed
      <4>2. request'[inflight[j][l]] = request[inflight[j][l]]
        BY <1>c, <3>0, <3>1, <4>1 DEF Reading, Reads
      <4>3. QED
        BY <3>1, <4>1, <4>2 DEF Fencing
    <3>2. cache'[j][l] # None => cache'[j][l].row = "invalid"
      BY <1>a, <1>e, <3>0, AccessNone DEF Fencing
    <3>3. QED
      BY <3>1, <3>2
  <2>2. ASSUME NEW q \in Requests, request'[q].at # "idle", request'[q].fenced
        PROVE  /\ request'[q].key \in revokedHere[request'[q].on]
               /\ request'[q].at = "reading" => request'[request'[q].waitsFor].row # "valid"
               /\ request'[q].at = "verdict" => request'[q].row = "invalid"
    <3>1. CASE request[q].at = "reading" /\ request[q].waitsFor = r
      BY <1>a, <1>c, <2>2, <3>1 DEF Fencing
    <3>2. CASE ~(request[q].at = "reading" /\ request[q].waitsFor = r)
      <4>1. request'[q] = request[q]
        BY <1>c, <3>2
      <4>2. ASSUME request[q].at = "reading"
            PROVE  request'[request[q].waitsFor] = request[request[q].waitsFor]
        BY <1>c, <3>2, <4>2 DEF Reading, Reads
      <4>3. QED
        BY <2>2, <4>1, <4>2 DEF Fencing
    <3>3. QED
      BY <3>1, <3>2
  <2>3. QED
    BY <1>a, <2>1, <2>2 DEF Fencing
<1>5. Timely'
  <2>1. ASSUME NEW q \in Requests
        PROVE  /\ request'[q].began <= now
               /\ Reads(q)' => now <= request'[q].began + QueryDelay
               /\ Reads(q)' /\ request'[q].row = "valid" /\ keys[request'[q].key].revokedAt # 0 =>
                     request'[q].began <= keys[request'[q].key].revokedAt
               /\ request'[q].at = "verdict" /\ request'[q].row = "valid"
                     /\ keys[request'[q].key].revokedAt # 0 =>
                     request'[q].began < keys[request'[q].key].revokedAt + Ttl + QueryDelay
    <3>1. now \in Times /\ request[q] \in RequestRecord /\ request[r] \in RequestRecord
      BY DEF Typed
    <3>2. /\ request[q].began \in Times /\ request[r].began \in Times
          /\ request[q].began <= now /\ now <= request[r].began + QueryDelay
      BY <1>a, <3>1 DEF RequestRecord, Timely
    <3>3. CASE request[q].at = "reading" /\ request[q].waitsFor = r
      <4>1. request[q].key = request[r].key /\ keys[request[r].key] \in KeyRecord
        BY <3>3 DEF Reading, Typed
      <4>2. keys[request[r].key].revokedAt \in Times
        BY <4>1 DEF KeyRecord
      <4>3. request[r].row = "valid" /\ keys[request[r].key].revokedAt # 0 =>
               request[r].began <= keys[request[r].key].revokedAt
        BY <1>a DEF Timely
      <4>4. ~Reads(q)'
        BY <1>c, <3>3 DEF Reads
      <4>5. QED
        BY <1>c, <3>1, <3>2, <3>3, <4>1, <4>2, <4>3, <4>4, AccessConstants DEF Times
    <3>4. CASE ~(request[q].at = "reading" /\ request[q].waitsFor = r)
      BY <1>c, <3>4 DEF Timely, Reads
    <3>5. QED
      BY <3>3, <3>4
  <2>2. ASSUME NEW j \in Instances, NEW l \in Keys, cache'[j][l] # None
        PROVE  /\ cache'[j][l].expires <= now + Ttl
               /\ cache'[j][l].row = "valid" /\ keys[l].revokedAt # 0 =>
                     cache'[j][l].expires <= keys[l].revokedAt + Ttl + QueryDelay
    <3>1. CASE cache'[j][l] = cache[j][l]
      BY <2>2, <3>1 DEF Timely
    <3>2. CASE /\ inflight[j][l] = r /\ request[r].on = j /\ request[r].key = l
               /\ cache'[j][l].row = request[r].row /\ cache'[j][l].expires = now + Ttl
      <4>1. now \in Times /\ request[r] \in RequestRecord /\ keys[l] \in KeyRecord
        BY DEF Typed
      <4>2. request[r].began \in Times /\ keys[l].revokedAt \in Times
        BY <4>1 DEF RequestRecord, KeyRecord
      <4>3. /\ now <= request[r].began + QueryDelay
            /\ request[r].row = "valid" /\ keys[l].revokedAt # 0 =>
                  request[r].began <= keys[l].revokedAt
        BY <1>a, <3>2 DEF Timely
      <4>4. QED
        BY <3>2, <4>1, <4>2, <4>3, AccessConstants DEF Times
    <3>3. QED
      BY <1>e, <3>1, <3>2
  <2>3. QED
    BY <1>a, <2>1, <2>2 DEF Timely
<1>6. Touches'
  BY <1>a, <1>c DEF Touches, Reads
<1>7. QED
  BY <1>1, <1>2, <1>3, <1>4, <1>5, <1>6

LEMMA ReadFailsKeeps ==
    ASSUME AccessInv, NEW r \in Requests, ReadFails(r)
    PROVE  AccessInv'
<1> USE DEF AccessInv
<1>a. /\ Reads(r) /\ request[r].on \in Instances /\ request[r].key \in Keys
      /\ UNCHANGED <<now, keys, cache, touched, revoking, cron, revokedHere, used>>
  BY DEF ReadFails, Reading, Reads
<1>c. ASSUME NEW q \in Requests
      PROVE  /\ request[q].waitsFor = r => request'[q] = NewRequest
             /\ request[q].waitsFor # r => request'[q] = request[q]
  BY DEF ReadFails
<1>d. request' \in [Requests -> RequestRecord]
  BY NewRequestFacts DEF ReadFails, Typed
<1>e. /\ inflight' \in [Instances -> [Keys -> Requests \cup {None}]]
      /\ \A j \in Instances, l \in Keys : inflight'[j][l] # None =>
            inflight'[j][l] = inflight[j][l] /\ inflight[j][l] # r
  BY <1>a DEF ReadFails, Typed, Reading
<1>1. Typed'
  BY <1>a, <1>c, <1>d, <1>e DEF Typed
<1>2. Reading'
  <2>1. ASSUME NEW q \in Requests
        PROVE  /\ request'[q].at # "idle" =>
                  request'[q].on \in Instances /\ request'[q].key \in Keys
               /\ request'[q].at = "reading" =>
                     /\ request'[q].waitsFor \in Requests
                     /\ Reads(request[q].waitsFor)'
                     /\ request'[request'[q].waitsFor].on = request'[q].on
                     /\ request'[request'[q].waitsFor].key = request'[q].key
    <3>1. CASE request[q].waitsFor = r
      BY <1>c, <3>1, NewRequestFacts DEF Reading
    <3>2. CASE ~(request[q].waitsFor = r)
      <4>1. request'[q] = request[q]
        BY <1>c, <3>2
      <4>2. ASSUME request[q].at = "reading"
            PROVE  request'[request[q].waitsFor] = request[request[q].waitsFor]
        BY <1>c, <3>2, <4>2 DEF Reading, Reads
      <4>3. QED
        BY <4>1, <4>2 DEF Reading, Reads
    <3>3. QED
      BY <3>1, <3>2
  <2>2. ASSUME NEW j \in Instances, NEW l \in Keys, inflight'[j][l] # None
        PROVE  /\ Reads(inflight[j][l])'
               /\ request'[inflight'[j][l]].on = j /\ request'[inflight'[j][l]].key = l
    <3>1. inflight'[j][l] = inflight[j][l] /\ inflight[j][l] \in Requests /\ inflight[j][l] # r
      BY <1>e, <2>2 DEF Typed
    <3>2. request'[inflight[j][l]] = request[inflight[j][l]]
      BY <1>c, <3>1, <2>2 DEF Reading, Reads
    <3>3. QED
      BY <2>2, <3>1, <3>2 DEF Reading, Reads
  <2>3. QED
    BY <2>1, <2>2 DEF Reading
<1>3. Rows'
  BY <1>a, <1>c, <1>d, <1>e DEF Rows, Typed
<1>4. Fencing'
  <2>1. ASSUME NEW j \in Instances, NEW l \in revokedHere[j]
        PROVE  /\ cache'[j][l] # None => cache'[j][l].row = "invalid"
               /\ inflight'[j][l] # None => request'[inflight'[j][l]].row # "valid"
    <3>0. l \in Keys
      BY DEF Typed
    <3>1. ASSUME inflight'[j][l] # None
          PROVE  request'[inflight'[j][l]].row # "valid"
      <4>1. inflight'[j][l] = inflight[j][l] /\ inflight[j][l] \in Requests /\ inflight[j][l] # r
        BY <1>e, <3>0, <3>1 DEF Typed
      <4>2. request'[inflight[j][l]] = request[inflight[j][l]]
        BY <1>c, <3>0, <3>1, <4>1 DEF Reading, Reads
      <4>3. QED
        BY <3>1, <4>1, <4>2 DEF Fencing
    <3>2. cache'[j][l] # None => cache'[j][l].row = "invalid"
      BY <1>a DEF Fencing
    <3>3. QED
      BY <3>1, <3>2
  <2>2. ASSUME NEW q \in Requests, request'[q].at # "idle", request'[q].fenced
        PROVE  /\ request'[q].key \in revokedHere[request'[q].on]
               /\ request'[q].at = "reading" => request'[request'[q].waitsFor].row # "valid"
               /\ request'[q].at = "verdict" => request'[q].row = "invalid"
    <3>1. CASE request[q].waitsFor = r
      BY <1>c, <2>2, <3>1, NewRequestFacts DEF Fencing
    <3>2. CASE ~(request[q].waitsFor = r)
      <4>1. request'[q] = request[q]
        BY <1>c, <3>2
      <4>2. ASSUME request[q].at = "reading"
            PROVE  request'[request[q].waitsFor] = request[request[q].waitsFor]
        BY <1>c, <3>2, <4>2 DEF Reading, Reads
      <4>3. QED
        BY <2>2, <4>1, <4>2 DEF Fencing
    <3>3. QED
      BY <3>1, <3>2
  <2>3. QED
    BY <1>a, <2>1, <2>2 DEF Fencing
<1>5. Timely'
  <2>1. ASSUME NEW q \in Requests
        PROVE  /\ request'[q].began <= now
               /\ Reads(q)' => now <= request'[q].began + QueryDelay
               /\ Reads(q)' /\ request'[q].row = "valid" /\ keys[request'[q].key].revokedAt # 0 =>
                     request'[q].began <= keys[request'[q].key].revokedAt
               /\ request'[q].at = "verdict" /\ request'[q].row = "valid"
                     /\ keys[request'[q].key].revokedAt # 0 =>
                     request'[q].began < keys[request'[q].key].revokedAt + Ttl + QueryDelay
    <3>1. CASE request[q].waitsFor = r
      BY <1>c, <3>1, NewRequestFacts DEF Typed, Times, Reads
    <3>2. CASE request[q].waitsFor # r
      BY <1>c, <3>2 DEF Timely, Reads
    <3>3. QED
      BY <3>1, <3>2
  <2>2. QED
    BY <1>a, <2>1 DEF Timely
<1>6. Touches'
  <2>1. ASSUME NEW q \in Requests
        PROVE  /\ request'[q].at \in {"touching", "touched"} =>
                     /\ request'[q].stamp >= 1 /\ request'[q].stamp <= now
                     /\ now <= request'[q].stamp + QueryDelay
               /\ request'[q].at = "touched" =>
                     /\ keys[request'[q].key].lastUsed # 0
                     /\ request'[q].stamp <= keys[request'[q].key].lastUsed + QueryDelay
    <3>1. CASE request[q].waitsFor = r
      BY <1>c, <3>1, NewRequestFacts
    <3>2. CASE request[q].waitsFor # r
      BY <1>c, <3>2 DEF Touches
    <3>3. QED
      BY <3>1, <3>2
  <2>2. QED
    BY <1>a, <2>1 DEF Touches
<1>7. QED
  BY <1>1, <1>2, <1>3, <1>4, <1>5, <1>6

LEMMA RefuseKeeps ==
    ASSUME AccessInv, NEW r \in Requests, Refuse(r)
    PROVE  AccessInv'
<1> USE DEF AccessInv
<1>a. /\ request[r].at = "verdict"
      /\ request[r].on \in Instances /\ request[r].key \in Keys
      /\ UNCHANGED <<now, keys, cache, inflight, touched, revoking, cron, revokedHere, used>>
  BY DEF Refuse, Reading
<1>b. request' = [request EXCEPT ![r] = NewRequest]
  BY DEF Refuse
<1>1. Typed'
  BY <1>b, <1>a, NewRequestFacts DEF Typed
<1>2. Reading'
  BY <1>b, <1>a, NewRequestFacts DEF Reading, Reads, Typed
<1>3. Rows'
  BY <1>b, <1>a DEF Rows, Typed
<1>4. Fencing'
  BY <1>b, <1>a, NewRequestFacts DEF Fencing, Typed, Reading, Reads
<1>5. Timely'
  BY <1>b, <1>a, NewRequestFacts DEF Timely, Typed, Times, Reading, Reads
<1>6. Touches'
  BY <1>b, <1>a, NewRequestFacts DEF Touches, Typed, Times, Reading
<1>7. QED
  BY <1>1, <1>2, <1>3, <1>4, <1>5, <1>6

LEMMA AdmitDebouncedKeeps ==
    ASSUME AccessInv, NEW r \in Requests, AdmitDebounced(r)
    PROVE  AccessInv'
<1> USE DEF AccessInv
<1>a. /\ request[r].at = "verdict"
      /\ request[r].on \in Instances /\ request[r].key \in Keys
      /\ UNCHANGED <<now, keys, cache, inflight, touched, revoking, cron, revokedHere>>
  BY DEF AdmitDebounced, Reading
<1>b. request' = [request EXCEPT ![r] = NewRequest]
  BY DEF AdmitDebounced
<1>c. /\ used' = [used EXCEPT ![request[r].key] = now]
      /\ touched[request[r].on][request[r].key] # None
      /\ touched[request[r].on][request[r].key] \in Times
      /\ now - touched[request[r].on][request[r].key] < Debounce
  BY <1>a DEF AdmitDebounced, Debounced, DebouncedAt, Typed
<1>1. Typed'
  BY <1>b, <1>a, <1>c, NewRequestFacts DEF Typed
<1>2. Reading'
  BY <1>b, <1>a, <1>c, NewRequestFacts DEF Reading, Reads, Typed
<1>3. Rows'
  BY <1>b, <1>a, <1>c DEF Rows, Typed
<1>4. Fencing'
  BY <1>b, <1>a, <1>c, NewRequestFacts DEF Fencing, Typed, Reading, Reads
<1>5. Timely'
  BY <1>b, <1>a, <1>c, NewRequestFacts DEF Timely, Typed, Times, Reading, Reads
<1>6. Touches'
  BY <1>b, AccessConstants, <1>a, <1>c, NewRequestFacts
     DEF KeyRecord, Touches, Typed, Times, Reading
<1>7. QED
  BY <1>1, <1>2, <1>3, <1>4, <1>5, <1>6

LEMMA AdmitAndTouchKeeps ==
    ASSUME AccessInv, NEW r \in Requests, AdmitAndTouch(r)
    PROVE  AccessInv'
<1> USE DEF AccessInv
<1> DEFINE new == [request[r] EXCEPT !.at = "touching", !.stamp = now]
<1>a. /\ request[r].at = "verdict"
      /\ UNCHANGED <<now, keys, cache, inflight, touched, revoking, cron, revokedHere, used>>
  BY DEF AdmitAndTouch
<1>b. request' = [request EXCEPT ![r] = new]
  BY DEF AdmitAndTouch, Typed
<1>c. /\ new \in RequestRecord /\ new.at = "touching" /\ new.stamp = now
      /\ new.on = request[r].on /\ new.key = request[r].key
      /\ new.began = request[r].began
      /\ (new.fenced <=> request[r].fenced)
  BY DEF Typed, RequestRecord
<1> HIDE DEF new
<1>1. Typed'
  BY <1>b, <1>a, <1>c DEF Typed
<1>2. Reading'
  BY <1>b, <1>a, <1>c DEF Reading, Reads, Typed
<1>3. Rows'
  BY <1>b, <1>a, <1>c DEF Rows, Typed
<1>4. Fencing'
  BY <1>b, <1>a, <1>c DEF Fencing, Typed, Reading, Reads
<1>5. Timely'
  BY <1>b, <1>a, <1>c DEF Timely, Typed, Times, Reading, Reads
<1>6. Touches'
  BY <1>b, AccessConstants, <1>a, <1>c DEF Touches, Typed, Times, Reading
<1>7. QED
  BY <1>1, <1>2, <1>3, <1>4, <1>5, <1>6

LEMMA TouchCommitsKeeps ==
    ASSUME AccessInv, NEW r \in Requests, TouchCommits(r)
    PROVE  AccessInv'
<1> USE DEF AccessInv
<1> DEFINE new == [request[r] EXCEPT !.at = "touched"]
           old == keys[request[r].key]
           time == request[r].stamp
           key == [old EXCEPT !.lastUsed = time]
<1>a. /\ request[r].at = "touching" /\ request[r].key \in Keys
      /\ UNCHANGED <<now, cache, inflight, touched, revoking, cron, revokedHere, used>>
  BY DEF TouchCommits, Reading
<1>b. /\ request' = [request EXCEPT ![r] = new]
      /\ keys' = [keys EXCEPT ![request[r].key] = key]
  BY DEF TouchCommits, Typed
<1>c. /\ new \in RequestRecord /\ new.at = "touched" /\ new.stamp = request[r].stamp
      /\ new.on = request[r].on /\ new.key = request[r].key
      /\ new.began = request[r].began
      /\ (new.fenced <=> request[r].fenced)
      /\ request[r].stamp \in Times
  BY DEF Typed, RequestRecord
<1>x. old \in KeyRecord /\ time \in Times
  BY <1>a, <1>c DEF Typed
<1> HIDE DEF old, time
<1>y. /\ key \in KeyRecord /\ key.state = old.state
      /\ key.revokedAt = old.revokedAt /\ key.lastUsed = time
  BY <1>x DEF KeyRecord
<1> USE DEF old, time
<1>d. /\ key \in KeyRecord /\ key.state = keys[request[r].key].state
      /\ key.revokedAt = keys[request[r].key].revokedAt /\ key.lastUsed = request[r].stamp
  BY <1>y
<1> HIDE DEF new, key
<1> USE DEF AccessInv
<1>e. /\ request[r].stamp >= 1 /\ request[r].stamp <= now /\ now <= request[r].stamp + QueryDelay
      /\ now \in Times
  BY <1>a DEF Touches, Typed
<1>1. Typed'
  BY <1>b, <1>a, <1>c, <1>d DEF Typed
<1>2. Reading'
  BY <1>b, <1>a, <1>c, <1>d DEF Reading, Reads, Typed
<1>3. Rows'
  BY <1>b, <1>a, <1>c, <1>d DEF Rows, Typed
<1>4. Fencing'
  BY <1>b, <1>a, <1>c, <1>d DEF Fencing, Typed, Reading, Reads
<1>5. Timely'
  BY <1>b, <1>a, <1>c, <1>d DEF Timely, Typed, Times, Reading, Reads
<1>6. Touches'
  <2>1. now' >= 1
    BY <1>a DEF Touches
  <2>2. ASSUME NEW q \in Requests
        PROVE  /\ request'[q].at \in {"touching", "touched"} =>
                     /\ request'[q].stamp >= 1 /\ request'[q].stamp <= now'
                     /\ now' <= request'[q].stamp + QueryDelay
               /\ request'[q].at = "touched" =>
                     /\ keys'[request'[q].key].lastUsed # 0
                     /\ request'[q].stamp <= keys'[request'[q].key].lastUsed + QueryDelay
    <3>1. CASE q = r
      BY <1>b, <1>a, <1>c, <1>d, <1>e, <3>1, AccessConstants DEF Typed, Times
    <3>2. CASE q # r
      <4>1. request'[q] = request[q] /\ request[q].stamp \in Times
        BY <1>b, <3>2 DEF Typed, RequestRecord
      <4>2. request[q].at = "touched" => request[q].key \in Keys
        BY DEF Reading
      <4>3. QED
        BY <1>b, <1>a, <1>c, <1>d, <1>e, <4>1, <4>2, AccessConstants DEF Typed, Times, Touches
    <3>3. QED
      BY <3>1, <3>2
  <2>3. ASSUME NEW i \in Instances, NEW k \in Keys, touched'[i][k] # None
        PROVE  /\ touched'[i][k] <= now'
               /\ keys'[k].lastUsed # 0 /\ touched'[i][k] <= keys'[k].lastUsed + QueryDelay
    <3>1. touched[i][k] \in Times
      BY <1>a, <2>3 DEF Typed
    <3>2. QED
      BY <1>b, <1>a, <1>c, <1>d, <1>e, <2>3, <3>1, AccessConstants DEF Typed, Times, Touches
  <2>4. ASSUME NEW k \in Keys
        PROVE  /\ used'[k] <= now'
               /\ used'[k] # 0 =>
                     /\ keys'[k].lastUsed # 0
                     /\ used'[k] <= keys'[k].lastUsed + (Debounce - 1) + QueryDelay
    <3>1. used[k] \in Times /\ keys[k] \in KeyRecord /\ used' = used /\ now' = now
      BY <1>a DEF Typed
    <3>2. keys[k].lastUsed \in Times
      BY <3>1 DEF KeyRecord
    <3>3. keys'[k].lastUsed = keys[k].lastUsed \/ keys'[k].lastUsed = request[r].stamp
      BY <1>b, <1>d DEF Typed
    <3>4. QED
      BY <1>c, <1>e, <3>1, <3>2, <3>3, AccessConstants DEF Times, Touches
  <2>5. QED
    BY <2>1, <2>2, <2>3, <2>4 DEF Touches
<1>7. QED
  BY <1>1, <1>2, <1>3, <1>4, <1>5, <1>6

LEMMA TouchReturnsKeeps ==
    ASSUME AccessInv, NEW r \in Requests, TouchReturns(r)
    PROVE  AccessInv'
<1> USE DEF AccessInv
<1>a. /\ request[r].at = "touched"
      /\ request[r].on \in Instances /\ request[r].key \in Keys
      /\ UNCHANGED <<now, keys, cache, inflight, revoking, cron, revokedHere>>
  BY DEF TouchReturns, Reading
<1>b. request' = [request EXCEPT ![r] = NewRequest]
  BY DEF TouchReturns
<1>c. /\ request[r].stamp \in Times
      /\ used' = [used EXCEPT ![request[r].key] = IF @ < request[r].stamp THEN request[r].stamp
                                                  ELSE @]
      /\ touched' = [touched EXCEPT ![request[r].on][request[r].key] = request[r].stamp]
  BY DEF TouchReturns, Typed, RequestRecord
<1>d. /\ request[r].stamp >= 1 /\ request[r].stamp <= now
      /\ keys[request[r].key].lastUsed # 0
      /\ request[r].stamp <= keys[request[r].key].lastUsed + QueryDelay
  BY <1>a DEF Touches, AccessInv
<1>1. Typed'
  BY <1>b, <1>a, <1>c, NewRequestFacts DEF Typed
<1>2. Reading'
  BY <1>b, <1>a, <1>c, NewRequestFacts DEF Reading, Reads, Typed
<1>3. Rows'
  BY <1>b, <1>a, <1>c DEF Rows, Typed
<1>4. Fencing'
  BY <1>b, <1>a, <1>c, NewRequestFacts DEF Fencing, Typed, Reading, Reads
<1>5. Timely'
  BY <1>b, <1>a, <1>c, NewRequestFacts DEF Timely, Typed, Times, Reading, Reads
<1>6. Touches'
  <2>1. now' >= 1
    BY <1>a DEF Touches
  <2>2. ASSUME NEW q \in Requests
        PROVE  /\ request'[q].at \in {"touching", "touched"} =>
                     /\ request'[q].stamp >= 1 /\ request'[q].stamp <= now'
                     /\ now' <= request'[q].stamp + QueryDelay
               /\ request'[q].at = "touched" =>
                     /\ keys'[request'[q].key].lastUsed # 0
                     /\ request'[q].stamp <= keys'[request'[q].key].lastUsed + QueryDelay
    BY <1>b, <1>a, <1>c, <1>d, NewRequestFacts DEF Typed, Touches
  <2>3. ASSUME NEW i \in Instances, NEW k \in Keys, touched'[i][k] # None
        PROVE  /\ touched'[i][k] <= now'
               /\ keys'[k].lastUsed # 0 /\ touched'[i][k] <= keys'[k].lastUsed + QueryDelay
    BY <1>b, <1>a, <1>c, <1>d, <2>3 DEF Typed, Touches
  <2>4. ASSUME NEW k \in Keys
        PROVE  /\ used'[k] <= now'
               /\ used'[k] # 0 =>
                     /\ keys'[k].lastUsed # 0
                     /\ used'[k] <= keys'[k].lastUsed + (Debounce - 1) + QueryDelay
    <3>1. used[k] \in Times /\ keys[k] \in KeyRecord /\ now \in Times
      BY DEF Typed
    <3>2. keys[k].lastUsed \in Times
      BY <3>1 DEF KeyRecord
    <3>3. \/ used'[k] = used[k]
          \/ k = request[r].key /\ used'[k] = request[r].stamp
      BY <1>c DEF Typed
    <3>4. QED
      BY <1>a, <1>c, <1>d, <3>1, <3>2, <3>3, AccessConstants DEF Times, Touches
  <2>5. QED
    BY <2>1, <2>2, <2>3, <2>4 DEF Touches
<1>7. QED
  BY <1>1, <1>2, <1>3, <1>4, <1>5, <1>6

LEMMA TouchFailsKeeps ==
    ASSUME AccessInv, NEW r \in Requests, TouchFails(r)
    PROVE  AccessInv'
<1> USE DEF AccessInv
<1>a. /\ request[r].at \in {"touching", "touched"}
      /\ request[r].on \in Instances /\ request[r].key \in Keys
      /\ UNCHANGED <<now, keys, cache, inflight, touched, revoking, cron, revokedHere, used>>
  BY DEF TouchFails, Reading
<1>b. request' = [request EXCEPT ![r] = NewRequest]
  BY DEF TouchFails
<1>1. Typed'
  BY <1>b, <1>a, NewRequestFacts DEF Typed
<1>2. Reading'
  BY <1>b, <1>a, NewRequestFacts DEF Reading, Reads, Typed
<1>3. Rows'
  BY <1>b, <1>a DEF Rows, Typed
<1>4. Fencing'
  BY <1>b, <1>a, NewRequestFacts DEF Fencing, Typed, Reading, Reads
<1>5. Timely'
  BY <1>b, <1>a, NewRequestFacts DEF Timely, Typed, Times, Reading, Reads
<1>6. Touches'
  BY <1>b, <1>a, NewRequestFacts DEF Touches, Typed, Times, Reading
<1>7. QED
  BY <1>1, <1>2, <1>3, <1>4, <1>5, <1>6

LEMMA RevokedFacts ==
    ASSUME AccessInv, NEW k \in Keys
    PROVE  /\ Revoked(k) \in KeyRecord
           /\ Revoked(k).state = "revoked" /\ Revoked(k).lastUsed = keys[k].lastUsed
           /\ keys[k].revokedAt = 0 => Revoked(k).revokedAt = now
           /\ keys[k].revokedAt # 0 => Revoked(k).revokedAt = keys[k].revokedAt
           /\ Revoked(k).revokedAt # 0
<1>1. keys[k] \in KeyRecord /\ now \in Times /\ now # 0
  BY DEF AccessInv, Typed, Touches, Times
<1>2. QED
  BY <1>1 DEF Revoked, KeyRecord, Times

LEMMA RevokeCommitsKeeps ==
    ASSUME AccessInv, NEW i \in Instances, NEW k \in Keys, RevokeCommits(i, k)
    PROVE  AccessInv'
<1> USE DEF AccessInv
<1>a. UNCHANGED <<now, cache, inflight, touched, request, cron, revokedHere, used>>
  BY DEF RevokeCommits
<1>b. /\ keys' = [keys EXCEPT ![k] = Revoked(k)]
      /\ revoking' = [revoking EXCEPT ![i] = @ \cup {k}]
  BY DEF RevokeCommits
<1>1. Typed'
  BY <1>b, <1>a, RevokedFacts DEF Typed
<1>2. Reading'
  BY <1>b, <1>a DEF Reading, Reads, Typed
<1>3. Rows'
  BY <1>b, <1>a, RevokedFacts DEF Rows, Typed
<1>4. Fencing'
  BY <1>b, <1>a DEF Fencing, Typed, Reading, Reads
<1>5. Timely'
  <2>1. ASSUME NEW l \in Keys
        PROVE  /\ keys'[l].revokedAt = keys[l].revokedAt \/
                     (keys[l].revokedAt = 0 /\ keys'[l].revokedAt = now)
               /\ keys[l].revokedAt \in Times /\ keys'[l].revokedAt \in Times
    <3>1. keys[l] \in KeyRecord /\ keys'[l] \in KeyRecord
      BY <1>1 DEF Typed, AccessInv
    <3>2. keys'[l] = keys[l] \/ keys'[l] = Revoked(l)
      BY <1>b DEF Typed, AccessInv
    <3>3. QED
      BY <3>1, <3>2, RevokedFacts DEF KeyRecord
  <2>2. ASSUME NEW q \in Requests
        PROVE  /\ request[q].began <= now
               /\ Reads(q) => now <= request[q].began + QueryDelay
               /\ Reads(q) /\ request[q].row = "valid" /\ keys'[request[q].key].revokedAt # 0 =>
                     request[q].began <= keys'[request[q].key].revokedAt
               /\ request[q].at = "verdict" /\ request[q].row = "valid"
                     /\ keys'[request[q].key].revokedAt # 0 =>
                     request[q].began < keys'[request[q].key].revokedAt + Ttl + QueryDelay
    <3>1. request[q].began \in Times /\ now \in Times
      BY DEF Typed, AccessInv, RequestRecord
    <3>2. request[q].at # "idle" => request[q].key \in Keys
      BY DEF Reading, AccessInv
    <3>3. QED
      BY <2>1, <3>1, <3>2, AccessConstants DEF Timely, AccessInv, Times, Reads
  <2>3. ASSUME NEW j \in Instances, NEW l \in Keys, cache[j][l] # None
        PROVE  /\ cache[j][l].expires <= now + Ttl
               /\ cache[j][l].row = "valid" /\ keys'[l].revokedAt # 0 =>
                     cache[j][l].expires <= keys'[l].revokedAt + Ttl + QueryDelay
    <3>1. cache[j][l].expires \in Nat /\ now \in Nat
      BY <2>3 DEF Typed, AccessInv, Entry, Times
    <3>2. QED
      BY <2>1, <2>3, <3>1, AccessConstants DEF Timely, AccessInv, Times
  <2>4. QED
    BY <1>a, <2>2, <2>3 DEF Timely, Reads
<1>6. Touches'
  BY <1>b, <1>a, RevokedFacts DEF Touches, Typed, Times, Reading
<1>7. QED
  BY <1>1, <1>2, <1>3, <1>4, <1>5, <1>6

LEMMA RevokeReturnsKeeps ==
    ASSUME AccessInv, NEW i \in Instances, NEW k \in Keys, RevokeReturns(i, k)
    PROVE  AccessInv'
<1> USE DEF AccessInv
<1>1. Typed'
  BY DEF RevokeReturns, Typed
<1>2. Reading'
  BY DEF RevokeReturns, Reading, Reads, Typed
<1>3. Rows'
  BY DEF RevokeReturns, Rows, Typed
<1>4. Fencing'
  BY DEF RevokeReturns, Fencing, Typed, Reading, Reads
<1>5. Timely'
  BY DEF RevokeReturns, Timely, Typed, Times, Reading, Reads
<1>6. Touches'
  BY DEF RevokeReturns, Touches, Typed, Times, Reading
<1>7. QED
  BY <1>1, <1>2, <1>3, <1>4, <1>5, <1>6

LEMMA RevokeFailsKeeps ==
    ASSUME AccessInv, NEW i \in Instances, NEW k \in Keys, RevokeFails(i, k)
    PROVE  AccessInv'
<1> USE DEF AccessInv
<1>1. Typed'
  BY DEF RevokeFails, Typed
<1>2. Reading'
  BY DEF RevokeFails, Reading, Reads, Typed
<1>3. Rows'
  BY DEF RevokeFails, Rows, Typed
<1>4. Fencing'
  BY DEF RevokeFails, Fencing, Typed, Reading, Reads
<1>5. Timely'
  BY DEF RevokeFails, Timely, Typed, Times, Reading, Reads
<1>6. Touches'
  BY DEF RevokeFails, Touches, Typed, Times, Reading
<1>7. QED
  BY <1>1, <1>2, <1>3, <1>4, <1>5, <1>6

LEMMA CronStartsKeeps ==
    ASSUME AccessInv, CronStarts
    PROVE  AccessInv'
<1> USE DEF AccessInv
<1>1. Typed'
  BY DEF CronStarts, Typed
<1>2. Reading'
  BY DEF CronStarts, Reading, Reads, Typed
<1>3. Rows'
  BY DEF CronStarts, Rows, Typed
<1>4. Fencing'
  BY DEF CronStarts, Fencing, Typed, Reading, Reads
<1>5. Timely'
  BY DEF CronStarts, Timely, Typed, Times, Reading, Reads
<1>6. Touches'
  BY DEF CronStarts, Touches, Typed, Times, Reading
<1>7. QED
  BY <1>1, <1>2, <1>3, <1>4, <1>5, <1>6

LEMMA CronRevokesKeeps ==
    ASSUME AccessInv, CronRevokes
    PROVE  AccessInv'
<1> USE DEF AccessInv
<1>a. /\ UNCHANGED <<now, cache, inflight, touched, request, revoking, revokedHere, used>>
      /\ cron' = None
  BY DEF CronRevokes
<1>b. keys' = [k \in Keys |-> IF Inactive(k) THEN Revoked(k) ELSE keys[k]]
  BY DEF CronRevokes
<1>1. Typed'
  BY <1>b, <1>a, RevokedFacts DEF Typed
<1>2. Reading'
  BY <1>b, <1>a DEF Reading, Reads, Typed
<1>3. Rows'
  BY <1>b, <1>a, RevokedFacts DEF Rows, Typed
<1>4. Fencing'
  BY <1>b, <1>a DEF Fencing, Typed, Reading, Reads
<1>5. Timely'
  <2>1. ASSUME NEW l \in Keys
        PROVE  /\ keys'[l].revokedAt = keys[l].revokedAt \/
                     (keys[l].revokedAt = 0 /\ keys'[l].revokedAt = now)
               /\ keys[l].revokedAt \in Times /\ keys'[l].revokedAt \in Times
    <3>1. keys[l] \in KeyRecord /\ keys'[l] \in KeyRecord
      BY <1>1 DEF Typed, AccessInv
    <3>2. keys'[l] = keys[l] \/ keys'[l] = Revoked(l)
      BY <1>b DEF Typed, AccessInv
    <3>3. QED
      BY <3>1, <3>2, RevokedFacts DEF KeyRecord
  <2>2. ASSUME NEW q \in Requests
        PROVE  /\ request[q].began <= now
               /\ Reads(q) => now <= request[q].began + QueryDelay
               /\ Reads(q) /\ request[q].row = "valid" /\ keys'[request[q].key].revokedAt # 0 =>
                     request[q].began <= keys'[request[q].key].revokedAt
               /\ request[q].at = "verdict" /\ request[q].row = "valid"
                     /\ keys'[request[q].key].revokedAt # 0 =>
                     request[q].began < keys'[request[q].key].revokedAt + Ttl + QueryDelay
    <3>1. request[q].began \in Times /\ now \in Times
      BY DEF Typed, AccessInv, RequestRecord
    <3>2. request[q].at # "idle" => request[q].key \in Keys
      BY DEF Reading, AccessInv
    <3>3. QED
      BY <2>1, <3>1, <3>2, AccessConstants DEF Timely, AccessInv, Times, Reads
  <2>3. ASSUME NEW j \in Instances, NEW l \in Keys, cache[j][l] # None
        PROVE  /\ cache[j][l].expires <= now + Ttl
               /\ cache[j][l].row = "valid" /\ keys'[l].revokedAt # 0 =>
                     cache[j][l].expires <= keys'[l].revokedAt + Ttl + QueryDelay
    <3>1. cache[j][l].expires \in Nat /\ now \in Nat
      BY <2>3 DEF Typed, AccessInv, Entry, Times
    <3>2. QED
      BY <2>1, <2>3, <3>1, AccessConstants DEF Timely, AccessInv, Times
  <2>4. QED
    BY <1>a, <2>2, <2>3 DEF Timely, Reads
<1>6. Touches'
  BY <1>b, <1>a, RevokedFacts DEF Touches, Typed, Times, Reading
<1>7. QED
  BY <1>1, <1>2, <1>3, <1>4, <1>5, <1>6

LEMMA EvictVerdictKeeps ==
    ASSUME AccessInv, NEW i \in Instances, NEW k \in Keys, EvictVerdict(i, k)
    PROVE  AccessInv'
<1> USE DEF AccessInv
<1>1. Typed'
  BY DEF EvictVerdict, Typed
<1>2. Reading'
  BY DEF EvictVerdict, Reading, Reads, Typed
<1>3. Rows'
  BY DEF EvictVerdict, Rows, Typed
<1>4. Fencing'
  BY DEF EvictVerdict, Fencing, Typed, Reading, Reads
<1>5. Timely'
  BY DEF EvictVerdict, Timely, Typed, Times, Reading, Reads
<1>6. Touches'
  BY DEF EvictVerdict, Touches, Typed, Times, Reading
<1>7. QED
  BY <1>1, <1>2, <1>3, <1>4, <1>5, <1>6

LEMMA EvictTouchKeeps ==
    ASSUME AccessInv, NEW i \in Instances, NEW k \in Keys, EvictTouch(i, k)
    PROVE  AccessInv'
<1> USE DEF AccessInv
<1>1. Typed'
  BY DEF EvictTouch, Typed
<1>2. Reading'
  BY DEF EvictTouch, Reading, Reads, Typed
<1>3. Rows'
  BY DEF EvictTouch, Rows, Typed
<1>4. Fencing'
  BY DEF EvictTouch, Fencing, Typed, Reading, Reads
<1>5. Timely'
  BY DEF EvictTouch, Timely, Typed, Times, Reading, Reads
<1>6. Touches'
  BY DEF EvictTouch, Touches, Typed, Times, Reading
<1>7. QED
  BY <1>1, <1>2, <1>3, <1>4, <1>5, <1>6

LEMMA TickKeeps ==
    ASSUME AccessInv, Tick
    PROVE  AccessInv'
<1> USE DEF AccessInv
<1>a. /\ now < MaxTime /\ now' = now + 1
      /\ \A r \in Requests :
            /\ Reads(r) => now < request[r].began + QueryDelay
            /\ request[r].at \in {"touching", "touched"} => now < request[r].stamp + QueryDelay
      /\ UNCHANGED <<keys, inflight, request, revoking, cron, revokedHere, used>>
  BY DEF Tick
<1>b. /\ cache' = [i \in Instances |-> [k \in Keys |->
                     IF LiveAt(i, k, now + 1) THEN cache[i][k] ELSE None]]
      /\ touched' = [i \in Instances |-> [k \in Keys |->
                       IF DebouncedAt(i, k, now + 1) THEN touched[i][k] ELSE None]]
  BY DEF Tick
<1>1. Typed'
  BY <1>b, AccessConstants, <1>a DEF Times, Typed
<1>2. Reading'
  BY <1>b, <1>a DEF Reading, Reads, Typed
<1>3. Rows'
  BY <1>b, <1>a DEF Rows, Typed
<1>4. Fencing'
  BY <1>b, <1>a DEF Fencing, Typed, Reading, Reads
<1>5. Timely'
  BY <1>b, AccessConstants, <1>a
     DEF RequestRecord, KeyRecord, Entry, Timely, Typed, Times, Reading, Reads
<1>6. Touches'
  BY <1>b, AccessConstants, <1>a DEF RequestRecord, KeyRecord, Touches, Typed, Times, Reading
<1>7. QED
  BY <1>1, <1>2, <1>3, <1>4, <1>5, <1>6

LEMMA StutterKeeps ==
    ASSUME AccessInv, UNCHANGED vars
    PROVE  AccessInv'
<1> USE DEF AccessInv
<1>1. Typed'
  BY DEF vars, Typed
<1>2. Reading'
  BY DEF vars, Reading, Reads, Typed
<1>3. Rows'
  BY DEF vars, Rows, Typed
<1>4. Fencing'
  BY DEF vars, Fencing, Typed, Reading, Reads
<1>5. Timely'
  BY DEF vars, Timely, Typed, Times, Reading, Reads
<1>6. Touches'
  BY DEF vars, Touches, Typed, Times, Reading
<1>7. QED
  BY <1>1, <1>2, <1>3, <1>4, <1>5, <1>6


LEMMA InitAccessInv ==
    Init => AccessInv
<1> SUFFICES ASSUME Init PROVE AccessInv
  OBVIOUS
<1>1. 0 \in Times /\ 1 \in Times
  BY AccessConstants DEF Times
<1>2. /\ NewKey \in KeyRecord /\ NewKey.revokedAt = 0
  BY <1>1 DEF NewKey, KeyRecord
<1>3. Typed
  BY <1>1, <1>2, NewRequestFacts DEF Init, Typed
<1>4. \A r \in Requests : request[r] = NewRequest
  BY DEF Init
<1>5. Reading
  BY <1>4, NewRequestFacts DEF Reading, Init
<1>6. Rows /\ Fencing
  BY <1>2, <1>4, NewRequestFacts DEF Rows, Fencing, Init
<1>7. Timely
  BY <1>4, NewRequestFacts DEF Timely, Init, Reads
<1>8. Touches
  BY <1>4, NewRequestFacts DEF Touches, Init
<1>9. QED
  BY <1>3, <1>5, <1>6, <1>7, <1>8 DEF AccessInv

LEMMA StepAccessInv ==
    AccessInv /\ [Next]_vars => AccessInv'
<1> SUFFICES ASSUME AccessInv, [Next]_vars PROVE AccessInv'
  OBVIOUS
<1>1. ASSUME NEW r \in Requests, ActOnVerdict(r) PROVE AccessInv'
  BY <1>1, RefuseKeeps, AdmitDebouncedKeeps, AdmitAndTouchKeeps DEF ActOnVerdict
<1>2. ASSUME NEW k \in Keys, CreateKey(k) PROVE AccessInv'
  BY <1>2, CreateKeyKeeps
<1>3. ASSUME NEW r \in Requests, NEW i \in Instances, NEW k \in Keys,
             ValidateFromCache(r, i, k) \/ ValidateFromDatabase(r, i, k)
      PROVE  AccessInv'
  BY <1>3, ValidateFromCacheKeeps, ValidateFromDatabaseKeeps
<1>4. ASSUME NEW r \in Requests,
             \/ DatabaseReads(r) \/ ReadReturns(r) \/ ReadFails(r)
             \/ TouchCommits(r) \/ TouchReturns(r) \/ TouchFails(r)
      PROVE  AccessInv'
  BY <1>4, DatabaseReadsKeeps, ReadReturnsKeeps, ReadFailsKeeps, TouchCommitsKeeps,
     TouchReturnsKeeps, TouchFailsKeeps
<1>5. ASSUME NEW i \in Instances, NEW k \in Keys,
             \/ RevokeCommits(i, k) \/ RevokeReturns(i, k) \/ RevokeFails(i, k)
             \/ EvictVerdict(i, k) \/ EvictTouch(i, k)
      PROVE  AccessInv'
  BY <1>5, RevokeCommitsKeeps, RevokeReturnsKeeps, RevokeFailsKeeps, EvictVerdictKeeps,
     EvictTouchKeeps
<1>6. CASE CronStarts \/ CronRevokes
  BY <1>6, CronStartsKeeps, CronRevokesKeeps
<1>7. CASE Tick
  BY <1>7, TickKeeps
<1>8. CASE UNCHANGED vars
  BY <1>8, StutterKeeps
<1>9. QED
  BY <1>1, <1>2, <1>3, <1>4, <1>5, <1>6, <1>7, <1>8 DEF Next, Other

LEMMA AccessInvariant ==
    Spec => []AccessInv
<1>1. QED
  BY InitAccessInv, StepAccessInv, PTL DEF Spec

-----------------------------------------------------------------------------
(* The variables keep their types, and every read that a request could     *)
(* join is under way, on the instance and about the key it is filed under. *)
THEOREM AccessTypeCorrect == Spec => []TypeOK
<1>1. AccessInv => TypeOK
  BY DEF AccessInv, Typed, Reading, TypeOK
<1>2. QED
  BY <1>1, AccessInvariant, PTL

(* An instance that has answered a revocation lets no later request in     *)
(* with that key: the inductive part says that neither the cache nor a     *)
(* read that may be joined holds a good verdict any more.                  *)
THEOREM RevocationIsInForceHere == Spec => []RevokedHereAtOnce
<1>1. AccessInv => RevokedHereAtOnce
  BY DEF AccessInv, Fencing, RevokedHereAtOnce
<1>2. QED
  BY <1>1, AccessInvariant, PTL

(* On every other instance a revocation is in force after the lifetime of  *)
(* a cached verdict and one read: the verdict in use was read before it.   *)
THEOREM RevocationIsInForceSoon == Spec => []RevokedSoonEverywhere
<1>1. AccessInv => RevokedSoonEverywhere
  BY DEF AccessInv, Timely, RevokedSoonEverywhere
<1>2. QED
  BY <1>1, AccessInvariant, PTL

(* The inactivity job revokes no key in use: the last admission is behind  *)
(* the recorded time by the debounce and one write at most, however the    *)
(* touches of several instances overtake one another.                      *)
THEOREM KeysInUseStay == Spec => UsedKeysStay
<1> DEFINE Kept == \A k \in Keys :
                      keys[k].state = "active" /\ keys'[k].state = "revoked"
                         /\ cron # None /\ cron' = None
                      => used[k] = 0 \/ used[k] < cron - Days + Debounce - 1 + QueryDelay
<1>1. ASSUME AccessInv, [Next]_vars PROVE Kept
  <2> SUFFICES ASSUME NEW k \in Keys, cron # None, cron' = None,
                      keys[k].state = "active", keys'[k].state = "revoked"
               PROVE  used[k] = 0 \/ used[k] < cron - Days + Debounce - 1 + QueryDelay
    OBVIOUS
  <2>1. CronRevokes
    BY <1>1
       DEF Next, Other, vars, ActOnVerdict, Refuse, AdmitDebounced, AdmitAndTouch, CreateKey,
           ValidateFromCache, ValidateFromDatabase, DatabaseReads, ReadReturns, ReadFails,
           TouchCommits, TouchReturns, TouchFails, RevokeCommits, RevokeReturns, RevokeFails,
           EvictVerdict, EvictTouch, CronStarts, Tick
  <2>2. keys[k].lastUsed = 0 \/ keys[k].lastUsed < cron - Days
    BY <2>1 DEF CronRevokes, Inactive
  <2>3. keys[k] \in KeyRecord /\ used[k] \in Times /\ cron \in Times
    BY <1>1 DEF AccessInv, Typed
  <2>4. keys[k].lastUsed \in Times
    BY <2>3 DEF KeyRecord
  <2>5. used[k] # 0 => /\ keys[k].lastUsed # 0
                       /\ used[k] <= keys[k].lastUsed + (Debounce - 1) + QueryDelay
    BY <1>1 DEF AccessInv, Touches
  <2>6. QED
    BY <2>2, <2>3, <2>4, <2>5, AccessConstants DEF Times
<1>2. QED
  BY <1>1, AccessInvariant, PTL DEF Spec, UsedKeysStay
=============================================================================
