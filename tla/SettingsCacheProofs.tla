-------------------------- MODULE SettingsCacheProofs --------------------------
(***************************************************************************)
(* The settings an instance serves never go back: a machine-checked proof, *)
(* for any number of instances, reads and writes.                          *)
(***************************************************************************)
EXTENDS SettingsCache, FiniteSetTheorems, TLAPS

GetRecord == [at : {"idle", "waiting", "done", "failed"}, on : Instances \cup {None},
              waitsFor : Gets \cup {None}, row : Nat \cup {None}, floor : Nat]
WriteRecord == [at : {"idle", "committed", "done", "failed"}, on : Instances \cup {None},
                version : Nat, deletes : BOOLEAN]

CacheTypes ==
    /\ stored \in Nat
    /\ cache \in [Instances -> Nat \cup {None}]
    /\ inflight \in [Instances -> Gets \cup {None}]
    /\ get \in [Gets -> GetRecord]
    /\ write \in [Writes -> WriteRecord]
    /\ seen \in [Instances -> Nat]
    /\ \A g \in Gets : get[g].at = "idle" => get[g].row = None

(* Nobody knows of a version that is not in the table yet. *)
Past ==
    /\ \A i \in Instances : seen[i] <= stored
    /\ \A g \in Gets : get[g].floor <= stored /\ (get[g].row # None => get[g].row <= stored)
    /\ \A w \in Writes : write[w].version <= stored

(* A live entry is the latest its instance has seen, and so will be what a *)
(* read still in flight brings, if it is evaluated already.                *)
Fresh ==
    \A i \in Instances :
        /\ cache[i] # None => cache[i] = seen[i]
        /\ inflight[i] # None =>
              LET h == inflight[i]
              IN  /\ get[h].at = "waiting" /\ get[h].waitsFor = h /\ get[h].on = i
                  /\ get[h].row # None => get[h].row >= seen[i]

(* Whoever waits, waits on the reader's instance, for a row it may see.    *)
Joined ==
    \A g \in Gets : get[g].at = "waiting" =>
        LET h == get[g].waitsFor
        IN  /\ h \in Gets /\ get[h].at = "waiting" /\ get[h].waitsFor = h
            /\ get[g].on \in Instances /\ get[h].on = get[g].on
            /\ get[h].row # None => get[h].row >= get[g].floor

CacheInv == CacheTypes /\ Past /\ Fresh /\ Joined /\ NeverGoesBack

-----------------------------------------------------------------------------
LEMMA CacheStart ==
    ASSUME Init
    PROVE  CacheInv
<1>1. NewGet \in GetRecord /\ NewGet.at = "idle" /\ NewGet.floor = 0 /\ NewGet.row = None
  BY DEF NewGet, GetRecord
<1>2. NewWrite \in WriteRecord /\ NewWrite.version = 0
  BY DEF NewWrite, WriteRecord
<1>3. QED
  <2> HIDE DEF NewGet, NewWrite
  <2>1. QED
    BY <1>1, <1>2 DEF Init, CacheInv, CacheTypes, Past, Fresh, Joined, NeverGoesBack

LEMMA GetFromCachePreserves ==
    ASSUME CacheInv, NEW g \in Gets, NEW i \in Instances, GetFromCache(g, i)
    PROVE  CacheInv'
<1>1. cache[i] \in Nat /\ cache[i] = seen[i]
  BY DEF CacheInv, CacheTypes, Fresh, GetFromCache
<1>2. seen' = seen
  BY <1>1 DEF CacheInv, CacheTypes, GetFromCache, Later
<1> DEFINE new == [get[g] EXCEPT !.at = "done", !.on = i, !.row = cache[i], !.floor = seen[i]]
<1>3. get[g] \in GetRecord
  BY DEF CacheInv, CacheTypes
<1>4. /\ new \in GetRecord /\ new.at = "done" /\ new.row = seen[i] /\ new.floor = seen[i]
  BY <1>1, <1>3 DEF GetRecord
<1>5. get' = [get EXCEPT ![g] = new]
  BY DEF GetFromCache
<1> HIDE DEF new
<1>6. \A h \in Gets : get'[h] = IF h = g THEN new ELSE get[h]
  BY <1>5 DEF CacheInv, CacheTypes
<1>7. get' \in [Gets -> GetRecord]
  BY <1>4, <1>5 DEF CacheInv, CacheTypes
<1>8. get[g].at = "idle" /\ UNCHANGED <<stored, cache, inflight, write>>
  BY DEF GetFromCache
<1>9. CacheTypes' /\ Past'
  BY <1>2, <1>4, <1>6, <1>7, <1>8 DEF CacheInv, CacheTypes, Past
<1>10. Fresh'
  BY <1>2, <1>6, <1>8 DEF CacheInv, CacheTypes, Fresh
<1>11. Joined'
  BY <1>4, <1>6, <1>8 DEF CacheInv, CacheTypes, Joined
<1>12. NeverGoesBack'
  BY <1>1, <1>4, <1>6 DEF CacheInv, NeverGoesBack
<1>13. QED
  BY <1>9, <1>10, <1>11, <1>12 DEF CacheInv

LEMMA GetFromDatabasePreserves ==
    ASSUME CacheInv, NEW g \in Gets, NEW i \in Instances, GetFromDatabase(g, i)
    PROVE  CacheInv'
<1> DEFINE joined == IF inflight[i] # None THEN inflight[i] ELSE g
           new == [get[g] EXCEPT !.at = "waiting", !.on = i, !.waitsFor = joined,
                                 !.floor = seen[i]]
<1>1. joined \in Gets /\ get[g].at = "idle" /\ get[g].row = None /\ UNCHANGED <<stored, cache, write, seen>>
  BY DEF CacheInv, CacheTypes, GetFromDatabase
<1>2. get[g] \in GetRecord /\ seen[i] \in Nat
  BY DEF CacheInv, CacheTypes
<1>3. get' = [get EXCEPT ![g] = new] /\ inflight' = [inflight EXCEPT ![i] = joined]
  BY DEF GetFromDatabase
<1>4. joined # g => inflight[i] = joined
  OBVIOUS
<1>5. joined = g => inflight[i] = None
  BY <1>1 DEF CacheInv, Fresh
<1> HIDE DEF joined
<1>6. /\ new \in GetRecord /\ new.at = "waiting" /\ new.on = i /\ new.waitsFor = joined
      /\ new.floor = seen[i] /\ new.row = get[g].row
  BY <1>1, <1>2 DEF GetRecord
<1> HIDE DEF new
<1>7. /\ \A h \in Gets : get'[h] = IF h = g THEN new ELSE get[h]
      /\ \A j \in Instances : inflight'[j] = IF j = i THEN joined ELSE inflight[j]
  BY <1>3 DEF CacheInv, CacheTypes
<1>8. CacheTypes'
  BY <1>1, <1>3, <1>6 DEF CacheInv, CacheTypes
<1>9. Past'
  BY <1>1, <1>6, <1>7 DEF CacheInv, CacheTypes, Past
<1>10. Fresh'
  <2>1. ASSUME NEW j \in Instances, inflight[j] # None
        PROVE  inflight[j] # g /\ get'[inflight[j]] = get[inflight[j]]
    BY <2>1, <1>1, <1>7 DEF CacheInv, CacheTypes, Fresh
  <2>2. CASE joined = g
    <3>1. inflight'[i] = g /\ get'[g].row = None /\ get'[g].at = "waiting"
          /\ get'[g].waitsFor = g /\ get'[g].on = i
      BY <1>1, <1>6, <1>7, <2>2
    <3>2. QED
      BY <1>1, <1>7, <2>1, <3>1 DEF CacheInv, Fresh
  <2>3. CASE joined # g
    <3>1. \A j \in Instances : inflight'[j] = inflight[j]
      BY <1>4, <1>7, <2>3
    <3>2. QED
      BY <1>1, <2>1, <3>1 DEF CacheInv, Fresh
  <2>4. QED
    BY <2>2, <2>3
<1>11. joined # g => /\ get[joined].at = "waiting" /\ get[joined].waitsFor = joined
                     /\ get[joined].on = i
                     /\ get[joined].row # None => get[joined].row >= seen[i]
  BY <1>4, <1>1 DEF CacheInv, Fresh, joined
<1>12. Joined'
  BY <1>1, <1>6, <1>7, <1>11 DEF CacheInv, CacheTypes, Joined
<1>13. NeverGoesBack'
  BY <1>6, <1>7 DEF CacheInv, NeverGoesBack
<1>14. QED
  BY <1>8, <1>9, <1>10, <1>12, <1>13 DEF CacheInv

LEMMA DatabaseReadsPreserves ==
    ASSUME CacheInv, NEW g \in Gets, DatabaseReads(g)
    PROVE  CacheInv'
<1> DEFINE new == [get[g] EXCEPT !.row = stored]
<1>1. get[g] \in GetRecord /\ stored \in Nat /\ get[g].at = "waiting" /\ get[g].waitsFor = g
  BY DEF CacheInv, CacheTypes, DatabaseReads
<1>2. /\ new \in GetRecord /\ new.row = stored
      /\ new.at = get[g].at /\ new.on = get[g].on /\ new.waitsFor = get[g].waitsFor
      /\ new.floor = get[g].floor
  BY <1>1 DEF GetRecord
<1>3. get' = [get EXCEPT ![g] = new] /\ UNCHANGED <<stored, cache, inflight, write, seen>>
  BY DEF DatabaseReads
<1> HIDE DEF new
<1>4. \A h \in Gets : get'[h] = IF h = g THEN new ELSE get[h]
  BY <1>3 DEF CacheInv, CacheTypes
<1>5. CacheTypes'
  BY <1>1, <1>2, <1>3 DEF CacheInv, CacheTypes
<1>6. Past'
  BY <1>1, <1>2, <1>3, <1>4 DEF CacheInv, Past
<1>7. Fresh'
  BY <1>2, <1>3, <1>4 DEF CacheInv, CacheTypes, Past, Fresh
<1>8. Joined'
  BY <1>2, <1>3, <1>4 DEF CacheInv, CacheTypes, Past, Joined
<1>9. NeverGoesBack'
  BY <1>1, <1>2, <1>4 DEF CacheInv, NeverGoesBack
<1>10. QED
  BY <1>5, <1>6, <1>7, <1>8, <1>9 DEF CacheInv

(* What an ended read of g leaves behind: those who waited are told.       *)
LEMMA EndedReads ==
    ASSUME CacheInv, NEW g \in Gets, NEW at \in {"done", "failed"}, NEW row \in Nat \cup {None},
           get' = [h \in Gets |-> IF h \in Waiting(g)
                                  THEN [get[h] EXCEPT !.at = at, !.row = row] ELSE get[h]]
    PROVE  /\ get' \in [Gets -> GetRecord]
           /\ \A h \in Gets : /\ get'[h].floor = get[h].floor /\ get'[h].on = get[h].on
                              /\ get'[h].waitsFor = get[h].waitsFor
                              /\ h \in Waiting(g) => get'[h].at = at /\ get'[h].row = row
                              /\ h \notin Waiting(g) => get'[h] = get[h]
<1>1. \A h \in Gets : get[h] \in GetRecord
  BY DEF CacheInv, CacheTypes
<1>2. ASSUME NEW h \in Gets, NEW new, new = [get[h] EXCEPT !.at = at, !.row = row]
      PROVE  /\ new \in GetRecord /\ new.at = at /\ new.row = row /\ new.on = get[h].on
             /\ new.waitsFor = get[h].waitsFor /\ new.floor = get[h].floor
  BY <1>1, <1>2 DEF GetRecord
<1>3. QED
  BY <1>1, <1>2

LEMMA ReadReturnsPreserves ==
    ASSUME CacheInv, NEW g \in Gets, ReadReturns(g)
    PROVE  CacheInv'
<1> DEFINE i == get[g].on
           row == get[g].row
<1>1. /\ get[g].at = "waiting" /\ get[g].waitsFor = g /\ row # None
      /\ UNCHANGED <<stored, write>>
  BY DEF ReadReturns
<1>2. row \in Nat /\ i \in Instances
  BY <1>1 DEF CacheInv, CacheTypes, GetRecord, Joined
<1>3. /\ get' \in [Gets -> GetRecord]
      /\ \A h \in Gets : /\ get'[h].floor = get[h].floor /\ get'[h].on = get[h].on
                         /\ get'[h].waitsFor = get[h].waitsFor
                         /\ h \in Waiting(g) => get'[h].at = "done" /\ get'[h].row = row
                         /\ h \notin Waiting(g) => get'[h] = get[h]
  BY <1>2, EndedReads DEF ReadReturns
<1>4. \A h \in Waiting(g) : get[h].on = i /\ row >= get[h].floor
  BY <1>1 DEF Waiting, CacheInv, Joined
<1>5. g \in Waiting(g)
  BY <1>1 DEF Waiting
<1>6. CASE inflight[i] = g
  <2>1. /\ row >= seen[i] /\ row <= stored
        /\ seen[i] \in Nat
    <3>1. inflight[i] # None
      BY <1>6, CacheNone
    <3>2. row >= seen[i]
      BY <1>1, <1>2, <1>6, <3>1 DEF CacheInv, Fresh
    <3>3. row <= stored /\ seen[i] \in Nat
      BY <1>1, <1>2 DEF CacheInv, CacheTypes, Past
    <3>4. QED
      BY <3>2, <3>3
  <2>2. Later(seen[i], row) = row
    BY <1>2, <2>1 DEF Later
  <2>3. /\ cache' = [cache EXCEPT ![i] = row] /\ seen' = [seen EXCEPT ![i] = row]
        /\ inflight' = [inflight EXCEPT ![i] = None]
    BY <1>6, <2>2 DEF ReadReturns
  <2>4. CacheTypes'
    BY <1>1, <1>2, <1>3, <2>3 DEF CacheInv, CacheTypes, Waiting
  <2>5. Past'
    BY <1>1, <1>2, <1>3, <2>1, <2>3 DEF CacheInv, CacheTypes, Past
  <2>6. \A j \in Instances \ {i} : inflight[j] # None => inflight[j] \notin Waiting(g)
    BY <1>4 DEF CacheInv, Fresh
  <2>7. Fresh'
    BY <1>2, <1>3, <2>3, <2>6 DEF CacheInv, CacheTypes, Fresh
  <2>8. QED
    BY <2>4, <2>5, <2>7, <1>1, <1>2, <1>3, <1>4 DEF CacheInv, CacheTypes, Joined, NeverGoesBack, Waiting
<1>7. CASE inflight[i] # g
  <2>1. UNCHANGED <<cache, seen, inflight>>
    BY <1>7 DEF ReadReturns, CacheInv, CacheTypes
  <2>2. CacheTypes'
    BY <1>1, <1>2, <1>3, <2>1 DEF CacheInv, CacheTypes, Waiting
  <2>3. Past'
    BY <1>1, <1>2, <1>3, <2>1 DEF CacheInv, CacheTypes, Past
  <2>4. \A j \in Instances : inflight[j] # None => inflight[j] \notin Waiting(g)
    BY <1>7, <1>4 DEF CacheInv, Fresh, Waiting
  <2>5. Fresh'
    BY <1>3, <2>1, <2>4 DEF CacheInv, CacheTypes, Fresh
  <2>6. QED
    BY <2>2, <2>3, <2>5, <1>1, <1>2, <1>3, <1>4 DEF CacheInv, CacheTypes, Joined, NeverGoesBack, Waiting
<1>8. QED
  BY <1>6, <1>7

LEMMA ReadFailsPreserves ==
    ASSUME CacheInv, NEW g \in Gets, ReadFails(g)
    PROVE  CacheInv'
<1> DEFINE i == get[g].on
<1>1. /\ get[g].at = "waiting" /\ get[g].waitsFor = g
      /\ UNCHANGED <<stored, cache, write, seen>>
  BY DEF ReadFails
<1>2. /\ get' \in [Gets -> GetRecord]
      /\ \A h \in Gets : /\ get'[h].floor = get[h].floor /\ get'[h].on = get[h].on
                         /\ get'[h].waitsFor = get[h].waitsFor
                         /\ h \in Waiting(g) => get'[h].at = "failed" /\ get'[h].row = None
                         /\ h \notin Waiting(g) => get'[h] = get[h]
  BY EndedReads DEF ReadFails
<1>3. inflight' \in [Instances -> Gets \cup {None}]
      /\ \A j \in Instances : inflight'[j] # None => inflight'[j] = inflight[j] /\ inflight[j] \notin Waiting(g)
  <2>1. inflight' = [inflight EXCEPT ![i] = IF @ = g THEN None ELSE @]
    BY DEF ReadFails
  <2>2. inflight' \in [Instances -> Gets \cup {None}]
    BY <2>1 DEF CacheInv, CacheTypes
  <2>3. ASSUME NEW j \in Instances, inflight'[j] # None
        PROVE  inflight'[j] = inflight[j] /\ inflight[j] # g
    <3>1. inflight[j] = g => j = i
      BY CacheNone DEF CacheInv, Fresh
    <3>2. QED
      BY <2>1, <2>3, <3>1 DEF CacheInv, CacheTypes
  <2>4. ASSUME NEW j \in Instances, inflight[j] # None, inflight[j] # g
        PROVE  inflight[j] \notin Waiting(g)
    BY <2>4 DEF CacheInv, Fresh, Waiting
  <2>5. QED
    BY <2>2, <2>3, <2>4
<1>4. CacheTypes'
  BY <1>1, <1>2, <1>3 DEF CacheInv, CacheTypes, Waiting
<1>5. Past'
  BY <1>1, <1>2 DEF CacheInv, Past
<1>6. Fresh'
  BY <1>1, <1>2, <1>3 DEF CacheInv, CacheTypes, Fresh
<1>7. Joined' /\ NeverGoesBack'
  BY <1>1, <1>2 DEF CacheInv, CacheTypes, Joined, NeverGoesBack, Waiting
<1>8. QED
  BY <1>4, <1>5, <1>6, <1>7 DEF CacheInv

-----------------------------------------------------------------------------
LEMMA CommitPreserves ==
    ASSUME CacheInv, NEW w \in Writes, NEW i \in Instances, NEW deletes \in BOOLEAN,
           Commit(w, i, deletes)
    PROVE  CacheInv'
<1> DEFINE new == [at |-> "committed", on |-> i, version |-> stored + 1, deletes |-> deletes]
<1>1. new \in WriteRecord /\ new.version = stored + 1 /\ stored \in Nat
  BY DEF WriteRecord, CacheInv, CacheTypes
<1>2. /\ stored' = stored + 1 /\ write' = [write EXCEPT ![w] = new]
      /\ UNCHANGED <<cache, inflight, get, seen>>
  BY DEF Commit
<1> HIDE DEF new
<1>3. CacheTypes'
  BY <1>1, <1>2 DEF CacheInv, CacheTypes
<1>4. \A n \in Nat : n <= stored => n <= stored + 1
  BY <1>1
<1>5. Past'
  <2>1. \A j \in Instances : seen'[j] <= stored'
    BY <1>2, <1>4 DEF CacheInv, CacheTypes, Past
  <2>2. \A g \in Gets : get'[g].floor <= stored'
    BY <1>2, <1>4 DEF CacheInv, CacheTypes, GetRecord, Past
  <2>3. \A g \in Gets : get'[g].row # None => get'[g].row <= stored'
    BY <1>2, <1>4 DEF CacheInv, CacheTypes, GetRecord, Past
  <2>4. \A v \in Writes : write'[v].version <= stored'
    BY <1>1, <1>2, <1>4 DEF CacheInv, CacheTypes, WriteRecord, Past
  <2>5. QED
    BY <2>1, <2>2, <2>3, <2>4 DEF Past
<1>6. QED
  BY <1>2, <1>3, <1>5 DEF CacheInv, Fresh, Joined, NeverGoesBack

(* A write of any outcome only changes its own stage. *)
LEMMA StageTyped ==
    ASSUME CacheInv, NEW w \in Writes, NEW at \in {"done", "failed"},
           write' = [write EXCEPT ![w].at = at]
    PROVE  /\ write' \in [Writes -> WriteRecord]
           /\ \A v \in Writes : write'[v].version = write[v].version
<1>1. \A v \in Writes : write[v] \in WriteRecord
  BY DEF CacheInv, CacheTypes
<1>2. QED
  BY <1>1 DEF CacheInv, CacheTypes, WriteRecord

LEMMA SetReturnsPreserves ==
    ASSUME CacheInv, NEW w \in Writes, SetReturns(w)
    PROVE  CacheInv'
<1> DEFINE i == write[w].on
<1>1. /\ write' \in [Writes -> WriteRecord]
      /\ \A v \in Writes : write'[v].version = write[v].version
  BY StageTyped DEF SetReturns
<1>2. write[w].version \in Nat /\ write[w].version <= stored /\ stored \in Nat
  BY DEF CacheInv, CacheTypes, WriteRecord, Past
<1>3. /\ UNCHANGED <<stored, get>>
      /\ cache' = [cache EXCEPT ![i] = None] /\ inflight' = [inflight EXCEPT ![i] = None]
      /\ seen' = [seen EXCEPT ![i] = Later(@, write[w].version)]
  BY DEF SetReturns
<1>4. \A j \in Instances : /\ seen'[j] \in Nat /\ seen'[j] <= stored
                           /\ j # i => seen'[j] = seen[j]
  BY <1>2, <1>3 DEF CacheInv, CacheTypes, Past, Later
<1>5. CacheTypes'
  BY <1>1, <1>3, <1>4 DEF CacheInv, CacheTypes
<1>6. Past'
  BY <1>1, <1>3, <1>4 DEF CacheInv, Past
<1>7. Fresh'
  BY <1>3, <1>4 DEF CacheInv, CacheTypes, Fresh
<1>8. QED
  BY <1>3, <1>5, <1>6, <1>7 DEF CacheInv, Joined, NeverGoesBack

LEMMA OthersPreserve ==
    ASSUME CacheInv, NEW i, cache' = [cache EXCEPT ![i] = None],
           UNCHANGED <<stored, inflight, get, seen>>,
           write' \in [Writes -> WriteRecord],
           \A v \in Writes : write'[v].version = write[v].version
    PROVE  CacheInv'
  BY DEF CacheInv, CacheTypes, Past, Fresh, Joined, NeverGoesBack

LEMMA CacheStep ==
    ASSUME CacheInv, [Next]_vars
    PROVE  CacheInv'
<1>1. ASSUME NEW w \in Writes, DeleteReturns(w)
      PROVE  CacheInv'
  <2>1. /\ write' \in [Writes -> WriteRecord]
        /\ \A v \in Writes : write'[v].version = write[v].version
    BY <1>1, StageTyped DEF DeleteReturns
  <2>2. QED
    BY <1>1, <2>1, OthersPreserve DEF DeleteReturns
<1>2. ASSUME NEW w \in Writes, WriteFails(w)
      PROVE  CacheInv'
  <2>1. /\ write' \in [Writes -> WriteRecord]
        /\ \A v \in Writes : write'[v].version = write[v].version
    BY <1>2, StageTyped DEF WriteFails
  <2>2. QED
    BY <1>2, <2>1 DEF WriteFails, CacheInv, CacheTypes, Past, Fresh, Joined, NeverGoesBack
<1>3. ASSUME NEW i \in Instances, EntryExpires(i)
      PROVE  CacheInv'
  BY <1>3, OthersPreserve DEF EntryExpires, CacheInv, CacheTypes
<1>4. CASE UNCHANGED vars
  BY <1>4 DEF vars, CacheInv, CacheTypes, Past, Fresh, Joined, NeverGoesBack
<1>5. QED
  BY <1>1, <1>2, <1>3, <1>4, GetFromCachePreserves, GetFromDatabasePreserves,
     DatabaseReadsPreserves, ReadReturnsPreserves, ReadFailsPreserves, CommitPreserves,
     SetReturnsPreserves DEF Next

(* No read that raced a write, in any number and order, makes an instance  *)
(* serve an older value than it had cached or finished writing before.     *)
THEOREM CacheNeverGoesBack == Spec => []NeverGoesBack
<1>1. Init => CacheInv
  BY CacheStart
<1>2. CacheInv /\ [Next]_vars => CacheInv'
  BY CacheStep
<1>3. CacheInv => NeverGoesBack
  BY DEF CacheInv
<1>4. QED
  BY <1>1, <1>2, <1>3, PTL DEF Spec

-----------------------------------------------------------------------------
(* Every version is a write's, and whoever has been answered has a row. *)
Begun == {w \in Writes : write[w].at # "idle"}
VersionsInv ==
    /\ stored <= Cardinality(Begun)
    /\ \A g \in Gets : get[g].at = "done" => get[g].row # None

LEMMA BegunIsCounted ==
    /\ IsFiniteSet(Begun) /\ Cardinality(Begun) \in 0..Cardinality(Writes)
    /\ Cardinality(Begun) \in Nat /\ Cardinality(Writes) \in Nat
<1>1. Begun \subseteq Writes
  BY DEF Begun
<1>2. QED
  BY <1>1, CacheWrites, FS_Subset, FS_CardinalityType

LEMMA VersionsStart ==
    ASSUME Init
    PROVE  VersionsInv
<1>1. Begun = {} /\ \A g \in Gets : get[g].at = "idle"
  BY DEF Init, Begun, NewWrite, NewGet
<1>2. QED
  BY <1>1, FS_EmptySet DEF Init, VersionsInv

LEMMA CommitCounts ==
    ASSUME CacheInv, VersionsInv, NEW w \in Writes, NEW i \in Instances, NEW deletes \in BOOLEAN,
           Commit(w, i, deletes)
    PROVE  VersionsInv'
<1>1. w \notin Begun
  BY DEF Commit, Begun
<1>2. Begun' = Begun \cup {w}
  BY DEF Commit, Begun, CacheInv, CacheTypes
<1>3. Cardinality(Begun') = Cardinality(Begun) + 1
  BY <1>1, <1>2, BegunIsCounted, FS_AddElement
<1>4. stored \in Nat /\ stored' = stored + 1 /\ get' = get
  BY DEF Commit, CacheInv, CacheTypes
<1>5. QED
  BY <1>3, <1>4, BegunIsCounted DEF VersionsInv

(* Everything else leaves the table, and what is begun stays so. *)
LEMMA VersionsKept ==
    ASSUME VersionsInv, stored' = stored,
           write' = write \/ \E w \in Writes, at \in {"done", "failed"} :
                                /\ write[w].at = "committed"
                                /\ write' = [write EXCEPT ![w].at = at],
           CacheInv,
           \A g \in Gets : get'[g].at = "done" => get'[g].row # None
    PROVE  VersionsInv'
<1>1. Begun' = Begun
  <2>1. CASE write' = write
    BY <2>1 DEF Begun
  <2>2. ASSUME NEW w \in Writes, NEW at \in {"done", "failed"}, write[w].at = "committed",
               write' = [write EXCEPT ![w].at = at]
        PROVE  Begun' = Begun
    <3>1. \A v \in Writes : write[v] \in WriteRecord
      BY DEF CacheInv, CacheTypes
    <3>2. /\ \A v \in Writes : v # w => write'[v] = write[v]
          /\ write'[w].at = at
      BY <2>2, <3>1 DEF CacheInv, CacheTypes, WriteRecord
    <3>3. QED
      BY <2>2, <3>2 DEF Begun
  <2>3. QED
    BY <2>1, <2>2
<1>2. QED
  BY <1>1 DEF VersionsInv

LEMMA EndedReadsAnswer ==
    ASSUME CacheInv, VersionsInv, NEW g \in Gets, ReadReturns(g) \/ ReadFails(g)
    PROVE  VersionsInv'
<1>1. PICK at \in {"done", "failed"}, row \in Nat \cup {None} :
         /\ get' = [h \in Gets |-> IF h \in Waiting(g)
                                   THEN [get[h] EXCEPT !.at = at, !.row = row] ELSE get[h]]
         /\ at = "done" => row # None
  <2>1. CASE ReadReturns(g)
    <3>1. get[g].row \in Nat \cup {None} /\ get[g].row # None
      BY <2>1 DEF ReadReturns, CacheInv, CacheTypes, GetRecord
    <3>2. QED
      BY <2>1, <3>1 DEF ReadReturns
  <2>2. CASE ReadFails(g)
    BY <2>2 DEF ReadFails
  <2>3. QED
    BY <2>1, <2>2
<1>2. /\ get' \in [Gets -> GetRecord]
      /\ \A h \in Gets : /\ get'[h].floor = get[h].floor /\ get'[h].on = get[h].on
                         /\ get'[h].waitsFor = get[h].waitsFor
                         /\ h \in Waiting(g) => get'[h].at = at /\ get'[h].row = row
                         /\ h \notin Waiting(g) => get'[h] = get[h]
  BY <1>1, EndedReads
<1>3. \A h \in Gets : get'[h].at = "done" => get'[h].row # None
  BY <1>1, <1>2 DEF VersionsInv
<1>4. stored' = stored /\ write' = write
  BY DEF ReadReturns, ReadFails
<1>5. QED
  BY <1>3, <1>4, VersionsKept

LEMMA VersionsStep ==
    ASSUME CacheInv, VersionsInv, [Next]_vars
    PROVE  VersionsInv'
<1>0. /\ get \in [Gets -> GetRecord] /\ stored \in Nat
      /\ \A g \in Gets : get[g].at = "done" => get[g].row # None
  BY DEF CacheInv, CacheTypes, VersionsInv
<1>1. ASSUME NEW g \in Gets, NEW new, get' = [get EXCEPT ![g] = new],
             new.row # None \/ new.at # "done", stored' = stored, write' = write
      PROVE  VersionsInv'
  <2>1. \A h \in Gets : get'[h] = IF h = g THEN new ELSE get[h]
    BY <1>0, <1>1
  <2>2. QED
    BY <1>0, <1>1, <2>1, VersionsKept
<1>2. ASSUME NEW g \in Gets, NEW i \in Instances, GetFromCache(g, i)
      PROVE  VersionsInv'
  <2>1. PICK new : new = [get[g] EXCEPT !.at = "done", !.on = i, !.row = cache[i],
                                        !.floor = seen[i]]
    OBVIOUS
  <2>2. new.row # None
    BY <1>0, <1>2, <2>1 DEF GetFromCache, GetRecord
  <2>3. QED
    BY <1>1, <1>2, <2>1, <2>2 DEF GetFromCache
<1>3. ASSUME NEW g \in Gets, NEW i \in Instances, GetFromDatabase(g, i)
      PROVE  VersionsInv'
  <2>1. PICK joined : get' = [get EXCEPT ![g] = [get[g] EXCEPT !.at = "waiting", !.on = i,
                                            !.waitsFor = joined, !.floor = seen[i]]]
    BY <1>3 DEF GetFromDatabase
  <2>2. PICK new : new = [get[g] EXCEPT !.at = "waiting", !.on = i,
                                        !.waitsFor = joined, !.floor = seen[i]]
    OBVIOUS
  <2>3. new.at = "waiting"
    BY <1>0, <2>2 DEF GetRecord
  <2>4. QED
    BY <1>1, <1>3, <2>1, <2>2, <2>3 DEF GetFromDatabase
<1>4. ASSUME NEW g \in Gets, DatabaseReads(g)
      PROVE  VersionsInv'
  <2>1. PICK new : new = [get[g] EXCEPT !.row = stored]
    OBVIOUS
  <2>2. new.at = "waiting"
    BY <1>0, <1>4, <2>1 DEF DatabaseReads, GetRecord
  <2>3. QED
    BY <1>1, <1>4, <2>1, <2>2 DEF DatabaseReads
<1>5. ASSUME NEW g \in Gets, ReadReturns(g) \/ ReadFails(g)
      PROVE  VersionsInv'
  BY <1>5, EndedReadsAnswer
<1>7. ASSUME NEW w \in Writes, SetReturns(w) \/ DeleteReturns(w) \/ WriteFails(w)
      PROVE  VersionsInv'
  BY <1>0, <1>7, VersionsKept DEF SetReturns, DeleteReturns, WriteFails
<1>8. CASE (\E i \in Instances : EntryExpires(i)) \/ UNCHANGED vars
  BY <1>0, <1>8, VersionsKept DEF EntryExpires, vars
<1>9. QED
  BY <1>2, <1>3, <1>4, <1>5, <1>7, <1>8, CommitCounts DEF Next

(* No version is served or remembered that no write has committed, and the *)
(* read that others join is one that is under way on their instance.       *)
THEOREM CacheTypeCorrect == Spec => []TypeOK
<1>1. Init => CacheInv /\ VersionsInv
  BY CacheStart, VersionsStart
<1>2. CacheInv /\ VersionsInv /\ [Next]_vars => (CacheInv /\ VersionsInv)'
  BY CacheStep, VersionsStep
<1>3. CacheInv /\ VersionsInv => TypeOK
  <2> SUFFICES ASSUME CacheInv, VersionsInv
               PROVE  TypeOK
    OBVIOUS
  <2>1. stored \in 0..Cardinality(Writes) /\ stored \in Nat
    BY BegunIsCounted DEF CacheInv, CacheTypes, VersionsInv
  <2>2. ASSUME NEW i \in Instances
        PROVE  cache[i] \in (0..stored) \cup {None} /\ seen[i] \in 0..stored
    BY <2>1 DEF CacheInv, CacheTypes, Past, Fresh
  <2>3. /\ cache \in [Instances -> (0..stored) \cup {None}]
        /\ seen \in [Instances -> 0..stored]
        /\ inflight \in [Instances -> Gets \cup {None}]
    BY <2>2 DEF CacheInv, CacheTypes
  <2>4. ASSUME NEW g \in Gets
        PROVE  /\ get[g].at \in {"idle", "waiting", "done", "failed"}
               /\ get[g].waitsFor \in Gets \cup {None}
               /\ get[g].at = "done" => get[g].row \in 0..stored
    BY <2>1 DEF CacheInv, CacheTypes, GetRecord, Past, VersionsInv
  <2>5. \A w \in Writes : write[w].at \in {"idle", "committed", "done", "failed"}
    BY DEF CacheInv, CacheTypes, WriteRecord
  <2>6. \A i \in Instances : inflight[i] # None =>
            get[inflight[i]].at = "waiting" /\ get[inflight[i]].on = i
    BY DEF CacheInv, Fresh
  <2>7. QED
    BY <2>1, <2>3, <2>4, <2>5, <2>6 DEF TypeOK
<1>4. QED
  BY <1>1, <1>2, <1>3, PTL DEF Spec
=============================================================================
