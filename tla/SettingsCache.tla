----------------------------- MODULE SettingsCache -----------------------------
(***************************************************************************)
(* One setting behind the read-through cache of SettingsService            *)
(* (apps/api/src/settings/settings.service.ts), in every instance of the   *)
(* gateway.  A miss starts one database read that concurrent callers join; *)
(* a write commits, then drops the instance's entry and its running read.  *)
(* The five-second lifetime of an entry is an expiry that may come at any  *)
(* time.  A value is known by its version, the number of its commit.       *)
(***************************************************************************)
EXTENDS Integers, FiniteSets

CONSTANTS
    Instances,
    Gets,      \* calls of getSetting
    Writes,    \* calls of setSetting and deleteSetting
    None       \* no cache entry, no read in flight, no instance

ASSUME CacheNone == None \notin Instances /\ None \notin Gets
ASSUME CacheWrites == IsFiniteSet(Writes)

VARIABLES
    stored,    \* the row in PostgreSQL
    cache,     \* per instance: the version of its live entry
    inflight,  \* per instance: the call whose database read others may join
    get,       \* the reads: see NewGet
    write,     \* the writes: see NewWrite
    seen       \* history, per instance: the latest version its cache has held
               \* or a finished setSetting of its own has written

vars == <<stored, cache, inflight, get, write, seen>>

(* A get waits for the database read of the call in waitsFor, its own or   *)
(* one it joined; floor is history: what its instance had seen before it.  *)
NewGet == [at |-> "idle", on |-> None, waitsFor |-> None, row |-> None, floor |-> 0]
NewWrite == [at |-> "idle", on |-> None, version |-> 0, deletes |-> FALSE]

Init ==
    /\ stored = 0
    /\ cache = [i \in Instances |-> None]
    /\ inflight = [i \in Instances |-> None]
    /\ get = [g \in Gets |-> NewGet]
    /\ write = [w \in Writes |-> NewWrite]
    /\ seen = [i \in Instances |-> 0]

-----------------------------------------------------------------------------
Later(a, b) == IF a > b THEN a ELSE b

(* getSetting() on an instance with a live entry. *)
GetFromCache(g, i) ==
    /\ get[g].at = "idle"
    /\ cache[i] # None
    /\ get' = [get EXCEPT ![g] = [@ EXCEPT !.at = "done", !.on = i, !.row = cache[i],
                                           !.floor = seen[i]]]
    /\ seen' = [seen EXCEPT ![i] = Later(@, cache[i])]
    /\ UNCHANGED <<stored, cache, inflight, write>>

(* Without one: join the running read, or start one. *)
GetFromDatabase(g, i) ==
    LET joined == IF inflight[i] # None THEN inflight[i] ELSE g
    IN  /\ get[g].at = "idle"
        /\ cache[i] = None
        /\ inflight' = [inflight EXCEPT ![i] = joined]
        /\ get' = [get EXCEPT ![g] = [@ EXCEPT !.at = "waiting", !.on = i, !.waitsFor = joined,
                                               !.floor = seen[i]]]
        /\ UNCHANGED <<stored, cache, write, seen>>

(* PostgreSQL evaluates the read of call g. *)
DatabaseReads(g) ==
    /\ get[g].at = "waiting" /\ get[g].waitsFor = g
    /\ get[g].row = None
    /\ get' = [get EXCEPT ![g].row = stored]
    /\ UNCHANGED <<stored, cache, inflight, write, seen>>

Waiting(g) == {h \in Gets : get[h].at = "waiting" /\ get[h].waitsFor = g}

(* Mutant: the entry is stored although the read was given up meanwhile. *)
ReadReturnsAlways(g) ==
    LET i == get[g].on
    IN  /\ get[g].at = "waiting" /\ get[g].waitsFor = g
        /\ get[g].row # None
        /\ cache' = [cache EXCEPT ![i] = get[g].row]
        /\ inflight' = [inflight EXCEPT ![i] = IF @ = g THEN None ELSE @]
        /\ get' = [h \in Gets |-> IF h \in Waiting(g)
                                  THEN [get[h] EXCEPT !.at = "done", !.row = get[g].row]
                                  ELSE get[h]]
        /\ seen' = [seen EXCEPT ![i] = IF inflight[i] = g THEN Later(@, get[g].row) ELSE @]
        /\ UNCHANGED <<stored, write>>

(* The read's answer arrives; every call that joined it gets it too. *)
ReadReturns(g) ==
    LET i == get[g].on
    IN  /\ get[g].at = "waiting" /\ get[g].waitsFor = g
        /\ get[g].row # None
        /\ cache' = [cache EXCEPT ![i] = IF inflight[i] = g THEN get[g].row ELSE @]
        /\ inflight' = [inflight EXCEPT ![i] = IF @ = g THEN None ELSE @]
        /\ get' = [h \in Gets |-> IF h \in Waiting(g)
                                  THEN [get[h] EXCEPT !.at = "done", !.row = get[g].row]
                                  ELSE get[h]]
        /\ seen' = [seen EXCEPT ![i] = IF inflight[i] = g THEN Later(@, get[g].row) ELSE @]
        /\ UNCHANGED <<stored, write>>

(* Mutant: a failed read stays the one that others join. *)
ReadFailsInPlace(g) ==
    /\ get[g].at = "waiting" /\ get[g].waitsFor = g
    /\ get' = [h \in Gets |-> IF h \in Waiting(g)
                              THEN [get[h] EXCEPT !.at = "failed", !.row = None] ELSE get[h]]
    /\ UNCHANGED <<stored, cache, inflight, write, seen>>

ReadFails(g) ==
    LET i == get[g].on
    IN  /\ get[g].at = "waiting" /\ get[g].waitsFor = g
        /\ inflight' = [inflight EXCEPT ![i] = IF @ = g THEN None ELSE @]
        /\ get' = [h \in Gets |-> IF h \in Waiting(g)
                                  THEN [get[h] EXCEPT !.at = "failed", !.row = None] ELSE get[h]]
        /\ UNCHANGED <<stored, cache, write, seen>>

-----------------------------------------------------------------------------
(* setSetting() and deleteSetting() commit first; the answer comes later. *)
Commit(w, i, deletes) ==
    /\ write[w].at = "idle"
    /\ stored' = stored + 1
    /\ write' = [write EXCEPT ![w] = [at |-> "committed", on |-> i, version |-> stored + 1,
                                      deletes |-> deletes]]
    /\ UNCHANGED <<cache, inflight, get, seen>>

(* Mutant: the read in flight is left in place. *)
SetReturnsKeepsInflight(w) ==
    LET i == write[w].on
    IN  /\ write[w].at = "committed" /\ ~write[w].deletes
        /\ cache' = [cache EXCEPT ![i] = None]
        /\ write' = [write EXCEPT ![w].at = "done"]
        /\ seen' = [seen EXCEPT ![i] = Later(@, write[w].version)]
        /\ UNCHANGED <<stored, inflight, get>>

SetReturns(w) ==
    LET i == write[w].on
    IN  /\ write[w].at = "committed" /\ ~write[w].deletes
        /\ cache' = [cache EXCEPT ![i] = None]
        /\ inflight' = [inflight EXCEPT ![i] = None]
        /\ write' = [write EXCEPT ![w].at = "done"]
        /\ seen' = [seen EXCEPT ![i] = Later(@, write[w].version)]
        /\ UNCHANGED <<stored, get>>

(* A deletion leaves the read in flight, which may store the old row after *)
(* it: what it deleted is therefore not among what the instance has seen.  *)
DeleteReturns(w) ==
    /\ write[w].at = "committed" /\ write[w].deletes
    /\ cache' = [cache EXCEPT ![write[w].on] = None]
    /\ write' = [write EXCEPT ![w].at = "done"]
    /\ UNCHANGED <<stored, inflight, get, seen>>

(* The commit happened but the connection broke before it was confirmed. *)
WriteFails(w) ==
    /\ write[w].at = "committed"
    /\ write' = [write EXCEPT ![w].at = "failed"]
    /\ UNCHANGED <<stored, cache, inflight, get, seen>>

EntryExpires(i) ==
    /\ cache[i] # None
    /\ cache' = [cache EXCEPT ![i] = None]
    /\ UNCHANGED <<stored, inflight, get, write, seen>>

Next ==
    \/ \E g \in Gets :
          \/ \E i \in Instances : GetFromCache(g, i) \/ GetFromDatabase(g, i)
          \/ DatabaseReads(g)
          \/ ReadReturns(g)
          \/ ReadFails(g)
    \/ \E w \in Writes :
          \/ \E i \in Instances, deletes \in BOOLEAN : Commit(w, i, deletes)
          \/ SetReturns(w)
          \/ DeleteReturns(w)
          \/ WriteFails(w)
    \/ \E i \in Instances : EntryExpires(i)

Spec == Init /\ [][Next]_vars

-----------------------------------------------------------------------------
TypeOK ==
    /\ stored \in 0..Cardinality(Writes)
    /\ cache \in [Instances -> (0..stored) \cup {None}]
    /\ inflight \in [Instances -> Gets \cup {None}]
    /\ \A i \in Instances : inflight[i] # None =>
          get[inflight[i]].at = "waiting" /\ get[inflight[i]].on = i
    /\ \A g \in Gets :
          /\ get[g].at \in {"idle", "waiting", "done", "failed"}
          /\ get[g].waitsFor \in Gets \cup {None}
          /\ get[g].at = "done" => get[g].row \in 0..stored
    /\ \A w \in Writes : write[w].at \in {"idle", "committed", "done", "failed"}
    /\ seen \in [Instances -> 0..stored]

(***************************************************************************)
(* The settings an instance serves never go back: a get does not return an *)
(* older value than one its instance had cached before the get began, or   *)
(* than one a setSetting on that instance had finished writing.  Reads     *)
(* that started before the write may end after it, in any order.  (A read  *)
(* given up for a write may, for its own callers, see a newer row than the *)
(* one cached after it; they alone can notice.)                            *)
(***************************************************************************)
NeverGoesBack == \A g \in Gets : get[g].at = "done" => get[g].row >= get[g].floor
=============================================================================
