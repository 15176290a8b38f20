------------------------------ MODULE RateLimiter ------------------------------
(***************************************************************************)
(* The rate limiter of one client address in every instance of the gateway *)
(* (apps/api/src/common/rate-limit.middleware.ts): buckets that count      *)
(* locally and are flushed, at most once per interval, to one row of       *)
(* PostgreSQL that also holds the window.  A bucket is an object: one that *)
(* the map has dropped lives on while a flush or a request refers to it,   *)
(* and a new one joins the flush that its predecessor has under way.       *)
(* Instances and database share one clock here.                            *)
(***************************************************************************)
EXTENDS Integers, FiniteSets, Functions

CONSTANTS
    Instances,
    Buckets,       \* bucket objects of one instance
    None,          \* no bucket, no flush
    Window,        \* WINDOW_MS
    FlushInterval, \* FLUSH_INTERVAL_MS
    MaxRequests,   \* MAX_REQUESTS
    MaxArrivals,   \* bound on the requests counted in one window
    MaxTime        \* bound on the clock

ASSUME LimiterConstants ==
    /\ IsFiniteSet(Instances)
    /\ {Window, FlushInterval, MaxRequests, MaxArrivals, MaxTime} \subseteq Nat \ {0}

(* A flush: what it takes to the row, and what it brings back. *)
Flight == [bucket : Buckets, delta : Nat \ {0}, at : {"sent", "committed"}, count : Nat,
           resetAt : Nat]
ASSUME LimiterNone == None \notin Buckets /\ None \notin Flight

VARIABLES
    now,
    row,      \* rate_limits: count and reset_at; resetAt 0 is no row
    current,  \* per instance: the bucket in the map
    bucket,   \* per instance: the objects, see Fresh
    flight,   \* per instance: flushInFlight
    waiting,  \* per instance and bucket: requests that wait for the flush
    arrived,  \* history: requests counted in the row's window
    clean     \* history: in this window no bucket was dropped with counts in
              \* it, and no answer to a flush was lost

vars == <<now, row, current, bucket, flight, waiting, arrived, clean>>

(* own and quiet are history: the requests the bucket has counted in the   *)
(* window it knows, and those let through while no flush of it was running.*)
Fresh == [pending |-> 0, synced |-> 0, resetAt |-> now + Window, lastFlush |-> 0,
          own |-> 0, quiet |-> 0]

(* An object that nothing refers to any more. *)
Unused == [Fresh EXCEPT !.resetAt = 0]

Init ==
    /\ now = FlushInterval
    /\ row = [count |-> 0, resetAt |-> 0]
    /\ current = [i \in Instances |-> None]
    /\ bucket = [i \in Instances |-> [b \in Buckets |-> Unused]]
    /\ flight = [i \in Instances |-> None]
    /\ waiting = [i \in Instances |-> [b \in Buckets |-> 0]]
    /\ arrived = 0
    /\ clean = TRUE

-----------------------------------------------------------------------------
FlightOf(i, b) == flight[i] # None /\ flight[i].bucket = b

(* Garbage collection: the objects kept when the map holds b. *)
Kept(i, b) ==
    [c \in Buckets |-> IF c = b \/ FlightOf(i, c) \/ waiting[i][c] > 0
                       THEN bucket[i][c] ELSE Unused]

Free(i) == {b \in Buckets : current[i] # b /\ ~FlightOf(i, b) /\ waiting[i][b] = 0}

Expired(i) == current[i] # None /\ bucket[i][current[i]].resetAt <= now

(* The bucket that counts a request of this moment: the one in the map if  *)
(* its window runs, else a new one.                                        *)
Counting(i) == IF current[i] = None \/ Expired(i) THEN Free(i) ELSE {current[i]}

Counted(i, b) ==
    LET old == IF current[i] = b THEN bucket[i][b] ELSE Fresh
    IN  [old EXCEPT !.pending = @ + 1, !.own = @ + 1]

FlushDue(entry) == now - entry.lastFlush >= FlushInterval

(* Counts that leave with the bucket of the map. *)
Drops(i) == current[i] # None /\ (bucket[i][current[i]].pending > 0 \/ FlightOf(i, current[i]))

Arrival(i, b) ==
    /\ arrived < MaxArrivals
    /\ b \in Counting(i)
    /\ current' = [current EXCEPT ![i] = b]
    /\ arrived' = arrived + 1
    /\ clean' = (clean /\ ~(Expired(i) /\ Drops(i)))

Effective(entry) == entry.synced + entry.pending

(* n requests of the bucket are let through, or get 429. *)
Decide(entry, n, flushing) ==
    IF Effective(entry) <= MaxRequests /\ ~flushing
    THEN [entry EXCEPT !.quiet = @ + n] ELSE entry

(* use(): the request is counted, and no flush is due. *)
CountLocally(i, b) ==
    /\ Arrival(i, b)
    /\ ~FlushDue(Counted(i, b))
    /\ bucket' = [bucket EXCEPT ![i] = [Kept(i, b) EXCEPT
                     ![b] = Decide(Counted(i, b), 1, FlightOf(i, b))]]
    /\ UNCHANGED <<now, row, flight, waiting>>

(* A flush is due and one is under way, be it of an older bucket. *)
JoinFlush(i, b) ==
    /\ Arrival(i, b)
    /\ FlushDue(Counted(i, b)) /\ flight[i] # None
    /\ bucket' = [bucket EXCEPT ![i] = [Kept(i, b) EXCEPT ![b] = Counted(i, b)]]
    /\ waiting' = [waiting EXCEPT ![i][b] = @ + 1]
    /\ UNCHANGED <<now, row, flight>>

(* Mutant: the counts are taken out only when the answer is there. *)
StartFlushKeeping(i, b) ==
    /\ Arrival(i, b)
    /\ FlushDue(Counted(i, b)) /\ flight[i] = None
    /\ flight' = [flight EXCEPT ![i] = [bucket |-> b, delta |-> Counted(i, b).pending,
                                        at |-> "sent", count |-> 0, resetAt |-> 0]]
    /\ bucket' = [bucket EXCEPT ![i] = [Kept(i, b) EXCEPT
                     ![b] = [Counted(i, b) EXCEPT !.lastFlush = now]]]
    /\ waiting' = [waiting EXCEPT ![i][b] = @ + 1]
    /\ UNCHANGED <<now, row>>

(* Otherwise flushBucket() takes the counts out and sends them. *)
StartFlush(i, b) ==
    /\ Arrival(i, b)
    /\ FlushDue(Counted(i, b)) /\ flight[i] = None
    /\ flight' = [flight EXCEPT ![i] = [bucket |-> b, delta |-> Counted(i, b).pending,
                                        at |-> "sent", count |-> 0, resetAt |-> 0]]
    /\ bucket' = [bucket EXCEPT ![i] = [Kept(i, b) EXCEPT
                     ![b] = [Counted(i, b) EXCEPT !.pending = 0, !.lastFlush = now]]]
    /\ waiting' = [waiting EXCEPT ![i][b] = @ + 1]
    /\ UNCHANGED <<now, row>>

-----------------------------------------------------------------------------
Pending(i) == IF current[i] = None THEN 0 ELSE bucket[i][current[i]].pending
Sent(i) == IF flight[i] # None /\ flight[i].at = "sent" THEN flight[i].delta ELSE 0

(* All requests that something still counts, besides the row. *)
Unflushed == SumFunctionOnSet([i \in Instances |-> Pending(i) + Sent(i)], Instances)

(* PostgreSQL runs the upsert: it adds to the running window, or begins a  *)
(* new one.  What the bucket counted for a window that is not the row's    *)
(* any more is no longer its own.                                          *)
FlushCommits(i) ==
    LET b == flight[i].bucket
        runs == row.resetAt > now
        next == IF runs THEN [row EXCEPT !.count = @ + flight[i].delta]
                ELSE [count |-> flight[i].delta, resetAt |-> now + Window]
        entry == bucket[i][b]
    IN  /\ flight[i] # None /\ flight[i].at = "sent"
        /\ row' = next
        /\ flight' = [flight EXCEPT ![i].at = "committed", ![i].count = next.count,
                                    ![i].resetAt = next.resetAt]
        /\ bucket' = [bucket EXCEPT ![i][b] =
                         IF runs /\ entry.resetAt = row.resetAt THEN entry
                         ELSE [entry EXCEPT !.own = flight[i].delta + entry.pending,
                                            !.quiet = 0]]
        /\ arrived' = IF runs THEN arrived ELSE Unflushed
        /\ clean' = (clean \/ ~runs)
        /\ UNCHANGED <<now, current, waiting>>

(* All who waited decide by their own bucket, as it then is; one that the  *)
(* map has dropped meanwhile is not seen again after that.                 *)
Landed(i, entry) ==
    LET b == flight[i].bucket
    IN  /\ bucket' = [bucket EXCEPT ![i] =
                         [c \in Buckets |->
                            IF c = current[i]
                            THEN Decide(IF c = b THEN entry ELSE @[c], waiting[i][c], FALSE)
                            ELSE Unused]]
        /\ waiting' = [waiting EXCEPT ![i] = [c \in Buckets |-> 0]]
        /\ flight' = [flight EXCEPT ![i] = None]
        /\ UNCHANGED <<now, row, current, arrived>>

(* Mutant: what came meanwhile is taken for flushed, too. *)
FlushReturnsZeroing(i) ==
    /\ flight[i] # None /\ flight[i].at = "committed"
    /\ Landed(i, [bucket[i][flight[i].bucket] EXCEPT !.synced = flight[i].count, !.pending = 0,
                                                     !.resetAt = flight[i].resetAt])
    /\ UNCHANGED clean

FlushReturns(i) ==
    /\ flight[i] # None /\ flight[i].at = "committed"
    /\ Landed(i, [bucket[i][flight[i].bucket] EXCEPT !.synced = flight[i].count,
                                                     !.resetAt = flight[i].resetAt])
    /\ UNCHANGED clean

(* Mutant: the counts taken out are forgotten. *)
FlushFailsForgetting(i) ==
    /\ flight[i] # None
    /\ Landed(i, bucket[i][flight[i].bucket])
    /\ clean' = (clean /\ current[i] = flight[i].bucket /\ flight[i].at = "sent")

(* Mutant: those who joined are never told. *)
FlushFailsSilently(i) ==
    LET b == flight[i].bucket
    IN  /\ flight[i] # None
        /\ bucket' = [bucket EXCEPT ![i][b].pending = @ + flight[i].delta]
        /\ flight' = [flight EXCEPT ![i] = None]
        /\ clean' = (clean /\ current[i] = b /\ flight[i].at = "sent")
        /\ UNCHANGED <<now, row, current, waiting, arrived>>

(* The upsert fails, or its answer is lost: the counts come back, in the   *)
(* latter case for a second time.                                          *)
FlushFails(i) ==
    /\ flight[i] # None
    /\ Landed(i, [bucket[i][flight[i].bucket] EXCEPT !.pending = @ + flight[i].delta])
    /\ clean' = (clean /\ current[i] = flight[i].bucket /\ flight[i].at = "sent")

-----------------------------------------------------------------------------
(* recordBucket() drops the oldest bucket when other addresses fill the map.*)
Evict(i) ==
    /\ current[i] # None
    /\ current' = [current EXCEPT ![i] = None]
    /\ clean' = (clean /\ ~Drops(i))
    /\ bucket' = [bucket EXCEPT ![i] = Kept(i, None)]
    /\ UNCHANGED <<now, row, flight, waiting, arrived>>

(* deleteExpiredRateLimits() of the maintenance job. *)
DeleteExpired ==
    /\ row.resetAt # 0 /\ row.resetAt < now
    /\ row' = [count |-> 0, resetAt |-> 0]
    /\ UNCHANGED <<now, current, bucket, flight, waiting, arrived, clean>>

Tick ==
    /\ now < MaxTime
    /\ now' = now + 1
    /\ UNCHANGED <<row, current, bucket, flight, waiting, arrived, clean>>

Next ==
    \/ \E i \in Instances, b \in Buckets : CountLocally(i, b) \/ JoinFlush(i, b) \/ StartFlush(i, b)
    \/ \E i \in Instances : FlushCommits(i) \/ FlushReturns(i) \/ FlushFails(i) \/ Evict(i)
    \/ DeleteExpired
    \/ Tick

Spec == Init /\ [][Next]_vars

-----------------------------------------------------------------------------
Entry == [pending : Nat, synced : Nat, resetAt : Nat, lastFlush : Nat, own : Nat, quiet : Nat]

(* The variables keep their types; a flush always carries counts, and      *)
(* nobody waits where no flush is under way.                               *)
TypeOK ==
    /\ now \in Nat
    /\ row \in [count : Nat, resetAt : Nat]
    /\ current \in [Instances -> Buckets \cup {None}]
    /\ bucket \in [Instances -> [Buckets -> Entry]]
    /\ flight \in [Instances -> Flight \cup {None}]
    /\ waiting \in [Instances -> [Buckets -> Nat]]
    /\ arrived \in Nat /\ clean \in BOOLEAN
    /\ \A i \in Instances : flight[i] = None => \A b \in Buckets : waiting[i][b] = 0

(* While a window runs in which no bucket left with counts in it and no    *)
(* answer was lost, every request counted by any instance is counted       *)
(* exactly once: in the row, in a bucket, or in a flush on its way; also   *)
(* those that came while a flush was under way, or before one that failed. *)
CountedOnce == row.resetAt > now /\ clean => row.count + Unflushed = arrived

(* What a bucket knows never falls behind what it has itself counted in    *)
(* the row's window, except for the counts that a flush has taken out.     *)
LocalCountKept ==
    \A i \in Instances, b \in Buckets :
        Effective(bucket[i][b]) + (IF FlightOf(i, b) THEN flight[i].delta ELSE 0)
            >= bucket[i][b].own

(* However the instances interleave, and also while flushes fail, a bucket *)
(* lets at most MaxRequests of its window through in the times when no     *)
(* flush of it is under way.  (The counts in a flush are not looked at:    *)
(* while it lasts, the bucket decides by the others alone.)                *)
LimitHolds == \A i \in Instances, b \in Buckets : bucket[i][b].quiet <= MaxRequests
=============================================================================
