-------------------------- MODULE RateLimiterProofs --------------------------
(***************************************************************************)
(* Machine-checked proofs about the rate limiter, for any number of        *)
(* instances and of bucket objects and for any limits.                     *)
(***************************************************************************)
EXTENDS RateLimiter, FiniteSetTheorems, WellFoundedInduction, TLAPS

LEMMA SmallestSubset ==
    ASSUME NEW S, IsFiniteSet(S), NEW T, T \subseteq SUBSET S, T # {}
    PROVE  \E x \in T : \A y \in T : y \subseteq x => y = x
<1>1. FiniteSubsetsOf(S) = SUBSET S
  BY FS_FiniteSubsetsOfFinite
<1>2. IsWellFoundedOn(StrictSubsetOrdering(S), SUBSET S)
  BY <1>1, FS_StrictSubsetOrderingWellFounded
<1>3. PICK x \in T : \A y \in T : ~(<<y, x>> \in StrictSubsetOrdering(S))
  BY <1>2, WFMin
<1>4. QED
  BY <1>3 DEF StrictSubsetOrdering

One(s) == CHOOSE x \in s : TRUE
Sums(f, S, g) ==
    g = [s \in SUBSET S |-> IF s = {} THEN 0 ELSE f[One(s)] + g[s \ {One(s)}]]

LEMMA SumUnfold ==
    ASSUME NEW f, NEW S
    PROVE  SumFunctionOnSet(f, S) = (CHOOSE g : Sums(f, S, g))[S]
  BY DEF SumFunctionOnSet, FoldFunctionOnSet, MapThenFoldSet, Sums, One

LEMMA OneIsIn == ASSUME NEW s, s # {} PROVE One(s) \in s
  BY DEF One

LEMMA SumsAgree ==
    ASSUME NEW f, NEW S, IsFiniteSet(S), NEW g, Sums(f, S, g),
           NEW T \in SUBSET S, NEW h, Sums(f, T, h)
    PROVE  g[T] = h[T]
<1> DEFINE Bad == {s \in SUBSET T : g[s] # h[s]}
<1>1. IsFiniteSet(T)
  BY FS_Subset
<1>2. SUFFICES ASSUME Bad # {} PROVE FALSE
  OBVIOUS
<1>3. PICK s \in Bad : \A y \in Bad : y \subseteq s => y = s
  <2> HIDE DEF Bad
  <2>1. Bad \subseteq SUBSET T
    BY DEF Bad
  <2>2. QED
    BY <1>1, <1>2, <2>1, SmallestSubset
<1>4. CASE s = {}
  BY <1>3, <1>4 DEF Sums
<1>5. CASE s # {}
  <2> DEFINE r == s \ {One(s)}
  <2>1. r \subseteq s /\ r # s /\ r \in SUBSET T /\ s \in SUBSET T
    BY <1>3, <1>5, OneIsIn
  <2>2. g[r] = h[r]
    BY <1>3, <2>1
  <2>3. g[s] = f[One(s)] + g[r] /\ h[s] = f[One(s)] + h[r]
    BY <1>5, <2>1 DEF Sums
  <2>4. QED
    BY <1>3, <2>2, <2>3
<1>6. QED
  BY <1>4, <1>5

LEMMA SumsExist ==
    ASSUME NEW f, NEW S, IsFiniteSet(S)
    PROVE  Sums(f, S, CHOOSE g : Sums(f, S, g))
<1> DEFINE Bad == {s \in SUBSET S : ~ \E g : Sums(f, s, g)}
           Total(s) == (CHOOSE g : Sums(f, s, g))[s]
<1>1. SUFFICES Bad = {}
  OBVIOUS
<1>2. SUFFICES ASSUME Bad # {} PROVE FALSE
  OBVIOUS
<1>3. PICK T \in Bad : \A y \in Bad : y \subseteq T => y = T
  <2> HIDE DEF Bad
  <2>1. Bad \subseteq SUBSET S
    BY DEF Bad
  <2>2. QED
    BY <1>2, <2>1, SmallestSubset
<1>4. IsFiniteSet(T) /\ T \in SUBSET S
  BY <1>3, FS_Subset
<1>5. ASSUME NEW s \in SUBSET T, s # T
      PROVE  Sums(f, s, CHOOSE g : Sums(f, s, g))
  BY <1>3, <1>5
<1>6. ASSUME NEW s \in SUBSET T, s # T, NEW r \in SUBSET s
      PROVE  (CHOOSE g : Sums(f, s, g))[r] = Total(r)
  <2>1. Sums(f, s, CHOOSE g : Sums(f, s, g)) /\ IsFiniteSet(s)
    BY <1>4, <1>5, <1>6, FS_Subset
  <2>2. r # T /\ r \in SUBSET T
    BY <1>6
  <2>3. Sums(f, r, CHOOSE g : Sums(f, r, g))
    BY <1>5, <2>2
  <2>4. QED
    BY <2>1, <2>3, SumsAgree
<1>7. ASSUME NEW s \in SUBSET T, s # T, s # {}
      PROVE  Total(s) = f[One(s)] + Total(s \ {One(s)})
  <2> DEFINE g == CHOOSE g : Sums(f, s, g)
  <2>1. Sums(f, s, g)
    BY <1>5, <1>7
  <2> HIDE DEF g
  <2>2. g[s] = f[One(s)] + g[s \ {One(s)}]
    BY <1>7, <2>1 DEF Sums
  <2>3. g[s \ {One(s)}] = Total(s \ {One(s)}) /\ g[s] = Total(s)
    BY <1>6, <1>7 DEF g
  <2>4. QED
    BY <2>2, <2>3
<1>8. ASSUME T # {} PROVE FALSE
  <2> DEFINE top == f[One(T)] + Total(T \ {One(T)})
             h == [s \in SUBSET T |-> IF s = T THEN top ELSE Total(s)]
  <2> HIDE DEF Total
  <2>1. T \ {One(T)} # T /\ T \ {One(T)} \in SUBSET T
    BY <1>8, OneIsIn
  <2>2. Total({}) = 0
    <3>1. {} \in SUBSET T /\ {} # T
      BY <1>8
    <3>2. Sums(f, {}, CHOOSE g : Sums(f, {}, g))
      BY <1>5, <3>1
    <3>3. QED
      BY <3>2 DEF Sums, Total
  <2>3. ASSUME NEW s \in SUBSET T
        PROVE  h[s] = IF s = {} THEN 0 ELSE f[One(s)] + h[s \ {One(s)}]
    <3>1. CASE s = {}
      BY <1>8, <2>2, <3>1
    <3>2. CASE s # {}
      <4>1. s \ {One(s)} # T /\ s \ {One(s)} \in SUBSET T
        BY <3>2, OneIsIn
      <4>2. h[s \ {One(s)}] = Total(s \ {One(s)})
        BY <4>1
      <4>3. h[s] = f[One(s)] + Total(s \ {One(s)})
        BY <1>7, <3>2
      <4>4. QED
        BY <3>2, <4>2, <4>3
    <3>3. QED
      BY <3>1, <3>2
  <2>4. Sums(f, T, h)
    <3> DEFINE rhs == [s \in SUBSET T |-> IF s = {} THEN 0 ELSE f[One(s)] + h[s \ {One(s)}]]
    <3>1. h = [s \in SUBSET T |-> h[s]]
      OBVIOUS
    <3> HIDE DEF h
    <3>2. rhs = [s \in SUBSET T |-> h[s]]
      BY <2>3
    <3>3. QED
      BY <3>1, <3>2 DEF Sums
  <2>5. QED
    BY <1>3, <2>4
<1>9. ASSUME T = {} PROVE FALSE
  <2>1. Sums(f, T, [s \in SUBSET T |-> 0])
    BY <1>9 DEF Sums
  <2>2. QED
    BY <1>3, <2>1
<1>10. QED
  BY <1>8, <1>9

LEMMA SumEmpty ==
    ASSUME NEW f
    PROVE  SumFunctionOnSet(f, {}) = 0
  BY SumsExist, SumUnfold, FS_EmptySet DEF Sums

LEMMA SumOne ==
    ASSUME NEW f, NEW S, IsFiniteSet(S), S # {}
    PROVE  SumFunctionOnSet(f, S) = f[One(S)] + SumFunctionOnSet(f, S \ {One(S)})
<1> DEFINE g == CHOOSE g : Sums(f, S, g)
           T == S \ {One(S)}
           h == CHOOSE h : Sums(f, T, h)
<1>1. IsFiniteSet(T) /\ T \in SUBSET S
  BY FS_Subset
<1>2. Sums(f, S, g) /\ Sums(f, T, h)
  BY <1>1, SumsExist
<1>3. SumFunctionOnSet(f, S) = g[S] /\ SumFunctionOnSet(f, T) = h[T]
  BY SumUnfold
<1> HIDE DEF g, h
<1>4. g[S] = f[One(S)] + g[T]
  BY <1>2 DEF Sums
<1>5. g[T] = h[T]
  BY <1>1, <1>2, SumsAgree
<1>6. QED
  BY <1>3, <1>4, <1>5

(* The order in which the elements are taken does not matter. *)
LEMMA SumRemove ==
    ASSUME NEW S, IsFiniteSet(S), NEW f, \A x \in S : f[x] \in Int
    PROVE  /\ SumFunctionOnSet(f, S) \in Int
           /\ \A x \in S : SumFunctionOnSet(f, S) = f[x] + SumFunctionOnSet(f, S \ {x})
<1> DEFINE Good(s) == /\ SumFunctionOnSet(f, s) \in Int
                      /\ \A x \in s : SumFunctionOnSet(f, s) = f[x] + SumFunctionOnSet(f, s \ {x})
           Bad == {s \in SUBSET S : ~Good(s)}
<1>1. SUFFICES ASSUME Bad # {} PROVE FALSE
  OBVIOUS
<1>2. PICK s \in Bad : \A y \in Bad : y \subseteq s => y = s
  <2> HIDE DEF Bad
  <2>1. Bad \subseteq SUBSET S
    BY DEF Bad
  <2>2. QED
    BY <1>1, <2>1, SmallestSubset
<1>3. s \in SUBSET S /\ IsFiniteSet(s) /\ ~Good(s)
  BY <1>2, FS_Subset
<1>4. \A r \in SUBSET s : r # s => Good(r)
  BY <1>2, <1>3
<1>5. s # {}
  BY <1>3, SumEmpty
<1> DEFINE o == One(s)
<1>6. o \in s /\ SumFunctionOnSet(f, s) = f[o] + SumFunctionOnSet(f, s \ {o})
  BY <1>3, <1>5, SumOne, OneIsIn
<1> HIDE DEF o, Good, Bad
<1>7. \A x \in s : Good(s \ {x})
  BY <1>4
<1>8. \A x \in s : f[x] \in Int /\ SumFunctionOnSet(f, s \ {x}) \in Int
  BY <1>3, <1>7 DEF Good
<1>9. SumFunctionOnSet(f, s) \in Int
  BY <1>6, <1>8
<1>10. ASSUME NEW x \in s, x # o
       PROVE  SumFunctionOnSet(f, s) = f[x] + SumFunctionOnSet(f, s \ {x})
  <2>1. x \in s \ {o} /\ o \in s \ {x} /\ (s \ {o}) \ {x} = (s \ {x}) \ {o}
    BY <1>6, <1>10
  <2>2. SumFunctionOnSet(f, s \ {o}) = f[x] + SumFunctionOnSet(f, (s \ {o}) \ {x})
    BY <1>6, <1>7, <2>1 DEF Good
  <2>3. SumFunctionOnSet(f, s \ {x}) = f[o] + SumFunctionOnSet(f, (s \ {o}) \ {x})
    BY <1>6, <1>7, <2>1 DEF Good
  <2>4. SumFunctionOnSet(f, (s \ {o}) \ {x}) \in Int
    <3>1. (s \ {o}) \ {x} \in SUBSET s /\ (s \ {o}) \ {x} # s
      BY <1>6
    <3>2. QED
      BY <1>4, <3>1 DEF Good
  <2>5. QED
    BY <1>6, <1>8, <2>2, <2>3, <2>4
<1>11. QED
  BY <1>3, <1>6, <1>9, <1>10 DEF Good

-----------------------------------------------------------------------------
(* A count that was once read from the row is not ahead of it while the    *)
(* window it belongs to runs.                                              *)
Seen(count, resetAt) == resetAt <= now \/ (resetAt = row.resetAt /\ count <= row.count)

Synced ==
    /\ \A i \in Instances, b \in Buckets :
          bucket[i][b].synced # 0 => Seen(bucket[i][b].synced, bucket[i][b].resetAt)
    /\ \A i \in Instances :
          flight[i] # None /\ flight[i].at = "committed" => Seen(flight[i].count, flight[i].resetAt)

(* What holds of the object b with the counts of entry, while f is the     *)
(* flush under way and n requests of the bucket wait for it: the bucket    *)
(* and its flush count all requests of their own, before the answer and    *)
(* after it, and those who wait are among them.                            *)
Flies(f, b) == f # None /\ f.bucket = b

EntrySound(entry, f, n, b) ==
    /\ entry.synced + entry.pending + (IF Flies(f, b) THEN f.delta ELSE 0) >= entry.own
    /\ Flies(f, b) /\ f.at = "committed" => f.count + entry.pending >= entry.own
    /\ entry.quiet + n <= entry.own
    /\ Flies(f, b) => n <= f.delta + entry.pending
    /\ entry.quiet <= MaxRequests

Sound ==
    \A i \in Instances, b \in Buckets : EntrySound(bucket[i][b], flight[i], waiting[i][b], b)

LimiterInv ==
    /\ TypeOK
    /\ Synced
    /\ Sound
    /\ CountedOnce

-----------------------------------------------------------------------------
LEMMA Numbers ==
    /\ {Window, FlushInterval, MaxRequests} \subseteq Nat
    /\ MaxRequests >= 1
  BY LimiterConstants

(* What the objects hold that are new, or that nothing refers to. *)
LEMMA FreshFacts ==
    ASSUME now \in Nat
    PROVE  /\ Fresh \in Entry /\ Fresh.pending = 0 /\ Fresh.synced = 0 /\ Fresh.own = 0
           /\ Fresh.quiet = 0
           /\ Unused \in Entry /\ Unused.pending = 0 /\ Unused.synced = 0 /\ Unused.own = 0
           /\ Unused.quiet = 0
<1>1. Fresh \in Entry
  BY Numbers DEF Fresh, Entry
<1>2. Unused = [pending |-> 0, synced |-> 0, resetAt |-> 0, lastFlush |-> 0, own |-> 0, quiet |-> 0]
  BY DEF Unused, Fresh
<1>3. Unused \in Entry
  BY <1>2 DEF Entry
<1>4. QED
  BY <1>1, <1>2, <1>3 DEF Fresh

LEMMA EmptyIsSound ==
    ASSUME NEW entry \in Entry, entry.own = 0, entry.quiet = 0, NEW f, NEW b, ~Flies(f, b)
    PROVE  EntrySound(entry, f, 0, b)
  BY Numbers DEF EntrySound, Entry

(* One more request is counted: b is the bucket of the map, or a free      *)
(* object made new.                                                        *)
LEMMA CountingFacts ==
    ASSUME LimiterInv, NEW i \in Instances, NEW b \in Counting(i)
    PROVE  /\ b \in Buckets
           /\ Counted(i, b) \in Entry /\ Counted(i, b).pending >= 1
           /\ Counted(i, b).synced # 0 => Seen(Counted(i, b).synced, Counted(i, b).resetAt)
           /\ EntrySound(Counted(i, b), flight[i], waiting[i][b], b)
           /\ EntrySound(Counted(i, b), flight[i], waiting[i][b] + 1, b)
           /\ ~(Expired(i) /\ Drops(i)) => Counted(i, b).pending = Pending(i) + 1
<1> DEFINE old == IF current[i] = b THEN bucket[i][b] ELSE Fresh
           new == [old EXCEPT !.pending = @ + 1, !.own = @ + 1]
<1>1. b \in Buckets
  BY LimiterNone DEF Counting, Free, LimiterInv, TypeOK
<1>2. old \in Entry /\ bucket[i][b] \in Entry /\ waiting[i][b] \in Nat
  BY <1>1, FreshFacts DEF LimiterInv, TypeOK
<1>3. old.synced # 0 => Seen(old.synced, old.resetAt)
  BY <1>1, FreshFacts DEF LimiterInv, TypeOK, Synced
<1>4. EntrySound(old, flight[i], waiting[i][b], b)
  <2>1. CASE current[i] = b
    BY <1>1, <2>1 DEF LimiterInv, Sound
  <2>2. CASE current[i] # b
    <3>1. b \in Free(i)
      BY <2>2 DEF Counting
    <3>2. ~Flies(flight[i], b) /\ waiting[i][b] = 0
      BY <3>1 DEF Free, FlightOf, Flies
    <3>3. QED
      BY <1>2, <2>2, <3>2, FreshFacts, EmptyIsSound DEF LimiterInv, TypeOK
  <2>3. QED
    BY <2>1, <2>2
<1>5. ~(Expired(i) /\ Drops(i)) => old.pending = Pending(i)
  <2>1. CASE current[i] = b
    BY <1>1, <2>1, LimiterNone DEF Pending
  <2>2. CASE current[i] # b
    <3>1. current[i] = None \/ Expired(i)
      BY <2>2 DEF Counting
    <3>2. old.pending = 0
      BY <2>2, FreshFacts DEF LimiterInv, TypeOK
    <3>3. CASE current[i] = None
      BY <3>2, <3>3 DEF Pending
    <3>4. CASE current[i] # None /\ ~Drops(i)
      <4>1. bucket[i][current[i]].pending \in Nat
        BY <3>4 DEF LimiterInv, TypeOK, Entry
      <4>2. QED
        BY <3>2, <3>4, <4>1 DEF Pending, Drops
    <3>5. QED
      BY <3>1, <3>3, <3>4 DEF Expired
  <2>3. QED
    BY <2>1, <2>2
<1>6. Counted(i, b) = new
  BY DEF Counted
<1> HIDE DEF old
<1>7a. old.pending \in Nat /\ old.own \in Nat /\ old.pending + 1 \in Nat /\ old.own + 1 \in Nat
  BY <1>2 DEF Entry
<1>7. /\ new \in Entry /\ new.pending = old.pending + 1 /\ new.own = old.own + 1
      /\ new.synced = old.synced /\ new.quiet = old.quiet /\ new.resetAt = old.resetAt
      /\ old.pending \in Nat
  BY <1>2, <1>7a DEF Entry
<1> HIDE DEF new
<1>8. Flies(flight[i], b) => flight[i].delta \in Nat /\ flight[i].count \in Nat
  BY DEF Flies, LimiterInv, TypeOK, Flight
<1>9. /\ EntrySound(new, flight[i], waiting[i][b], b)
      /\ EntrySound(new, flight[i], waiting[i][b] + 1, b)
  BY <1>2, <1>4, <1>7, <1>8 DEF EntrySound, Entry
<1>10. QED
  BY <1>1, <1>3, <1>5, <1>6, <1>7, <1>9

(* An object is kept as it is, or nothing refers to it any more. *)
LEMMA KeptFacts ==
    ASSUME LimiterInv, NEW i \in Instances, NEW b, NEW c \in Buckets
    PROVE  /\ Kept(i, b)[c] \in Entry
           /\ Kept(i, b)[c].synced # 0 => Seen(Kept(i, b)[c].synced, Kept(i, b)[c].resetAt)
           /\ EntrySound(Kept(i, b)[c], flight[i], waiting[i][c], c)
<1>1. CASE c = b \/ FlightOf(i, c) \/ waiting[i][c] > 0
  <2>1. Kept(i, b)[c] = bucket[i][c]
    BY <1>1 DEF Kept
  <2>2. QED
    BY <2>1 DEF LimiterInv, TypeOK, Synced, Sound
<1>2. CASE ~(c = b \/ FlightOf(i, c) \/ waiting[i][c] > 0)
  <2>1. Kept(i, b)[c] = Unused
    BY <1>2 DEF Kept
  <2>2. waiting[i][c] = 0 /\ ~Flies(flight[i], c)
    BY <1>2 DEF LimiterInv, TypeOK, Flies, FlightOf
  <2>3. QED
    BY <2>1, <2>2, FreshFacts, EmptyIsSound DEF LimiterInv, TypeOK
<1>3. QED
  BY <1>1, <1>2

(* A bucket decides for n requests while no flush of it is under way. *)
LEMMA DecideFacts ==
    ASSUME NEW entry \in Entry, NEW n \in Nat, NEW k \in Nat, NEW f, NEW b,
           ~Flies(f, b), EntrySound(entry, f, n + k, b)
    PROVE  /\ Decide(entry, n, FALSE) \in Entry
           /\ Decide(entry, n, FALSE).pending = entry.pending
           /\ Decide(entry, n, FALSE).synced = entry.synced
           /\ Decide(entry, n, FALSE).resetAt = entry.resetAt
           /\ EntrySound(Decide(entry, n, FALSE), f, k, b)
<1> DEFINE new == [entry EXCEPT !.quiet = @ + n]
<1>1. /\ new \in Entry /\ new.pending = entry.pending /\ new.synced = entry.synced
      /\ new.resetAt = entry.resetAt /\ new.own = entry.own /\ new.quiet = entry.quiet + n
  BY DEF Entry
<1>2. EntrySound(entry, f, k, b)
  BY DEF EntrySound, Entry
<1>3. CASE Effective(entry) <= MaxRequests
  <2>1. Decide(entry, n, FALSE) = new
    BY <1>3 DEF Decide
  <2> HIDE DEF new
  <2>2. EntrySound(new, f, k, b)
    BY <1>1, <1>3, Numbers DEF EntrySound, Entry, Effective
  <2>3. QED
    BY <1>1, <2>1, <2>2
<1>4. CASE ~(Effective(entry) <= MaxRequests)
  <2>1. Decide(entry, n, FALSE) = entry
    BY <1>4 DEF Decide
  <2>2. QED
    BY <1>2, <2>1
<1>5. QED
  BY <1>3, <1>4

-----------------------------------------------------------------------------
(* The sum over the instances. *)
LEMMA SumSame ==
    ASSUME NEW S, IsFiniteSet(S), NEW f, NEW g, \A x \in S : f[x] = g[x]
    PROVE  SumFunctionOnSet(f, S) = SumFunctionOnSet(g, S)
<1> DEFINE Bad == {s \in SUBSET S : SumFunctionOnSet(f, s) # SumFunctionOnSet(g, s)}
<1>1. SUFFICES ASSUME Bad # {} PROVE FALSE
  OBVIOUS
<1>2. PICK s \in Bad : \A y \in Bad : y \subseteq s => y = s
  <2> HIDE DEF Bad
  <2>1. Bad \subseteq SUBSET S
    BY DEF Bad
  <2>2. QED
    BY <1>1, <2>1, SmallestSubset
<1>3. s \in SUBSET S /\ IsFiniteSet(s)
  BY <1>2, FS_Subset
<1>4. s # {}
  BY <1>2, SumEmpty
<1>5. One(s) \in s /\ s \ {One(s)} # s /\ s \ {One(s)} \in SUBSET S
  BY <1>3, <1>4, OneIsIn
<1>6. SumFunctionOnSet(f, s \ {One(s)}) = SumFunctionOnSet(g, s \ {One(s)})
  BY <1>2, <1>5
<1>7. f[One(s)] = g[One(s)]
  BY <1>3, <1>5
<1>8. SumFunctionOnSet(f, s) = SumFunctionOnSet(g, s)
  BY <1>3, <1>4, <1>6, <1>7, SumOne
<1>9. QED
  BY <1>2, <1>8

LEMMA SumNat ==
    ASSUME NEW S, IsFiniteSet(S), NEW f, \A x \in S : f[x] \in Nat
    PROVE  SumFunctionOnSet(f, S) \in Nat
<1> DEFINE Bad == {s \in SUBSET S : SumFunctionOnSet(f, s) \notin Nat}
<1>1. SUFFICES ASSUME Bad # {} PROVE FALSE
  OBVIOUS
<1>2. PICK s \in Bad : \A y \in Bad : y \subseteq s => y = s
  <2> HIDE DEF Bad
  <2>1. Bad \subseteq SUBSET S
    BY DEF Bad
  <2>2. QED
    BY <1>1, <2>1, SmallestSubset
<1>3. s \in SUBSET S /\ IsFiniteSet(s)
  BY <1>2, FS_Subset
<1>4. s # {}
  <2>1. SumFunctionOnSet(f, {}) \in Nat
    BY SumEmpty
  <2>2. QED
    BY <1>2, <2>1
<1>5. One(s) \in s /\ s \ {One(s)} # s /\ s \ {One(s)} \in SUBSET S
  BY <1>3, <1>4, OneIsIn
<1>6. SumFunctionOnSet(f, s \ {One(s)}) \in Nat /\ f[One(s)] \in Nat
  BY <1>2, <1>3, <1>5
<1>7. SumFunctionOnSet(f, s) = f[One(s)] + SumFunctionOnSet(f, s \ {One(s)})
  BY <1>3, <1>4, SumOne
<1>8. QED
  BY <1>2, <1>6, <1>7

LEMMA SumMoves ==
    ASSUME NEW S, IsFiniteSet(S), NEW x \in S, NEW f, NEW g,
           \A y \in S : f[y] \in Nat /\ g[y] \in Nat /\ (y # x => f[y] = g[y])
    PROVE  SumFunctionOnSet(g, S) = SumFunctionOnSet(f, S) - f[x] + g[x]
<1> DEFINE T == S \ {x}
<1>1. IsFiniteSet(T)
  BY FS_Subset
<1>2. SumFunctionOnSet(f, T) = SumFunctionOnSet(g, T)
  BY <1>1, SumSame
<1>3. SumFunctionOnSet(f, T) \in Nat
  BY <1>1, SumNat
<1>4. /\ \A y \in S : f[y] \in Int
      /\ \A y \in S : g[y] \in Int
  OBVIOUS
<1>5. SumFunctionOnSet(f, S) = f[x] + SumFunctionOnSet(f, T)
  BY <1>4, SumRemove
<1>6. SumFunctionOnSet(g, S) = g[x] + SumFunctionOnSet(g, T)
  BY <1>4, SumRemove
<1>7. QED
  BY <1>2, <1>3, <1>5, <1>6

Term(i) == Pending(i) + Sent(i)

LEMMA Terms ==
    ASSUME TypeOK, NEW i \in Instances
    PROVE  /\ Pending(i) \in Nat /\ Sent(i) \in Nat /\ Term(i) \in Nat
           /\ Unflushed \in Nat
<1>1. ASSUME NEW j \in Instances PROVE Pending(j) \in Nat /\ Sent(j) \in Nat
  BY LimiterNone DEF TypeOK, Pending, Sent, Entry, Flight
<1>2. Unflushed \in Nat
  <2> DEFINE f == [j \in Instances |-> Pending(j) + Sent(j)]
  <2>1. \A j \in Instances : f[j] \in Nat
    BY <1>1
  <2> HIDE DEF f
  <2>2. SumFunctionOnSet(f, Instances) \in Nat
    BY <2>1, SumNat, LimiterConstants
  <2>3. QED
    BY <2>2 DEF f, Unflushed
<1>3. QED
  BY <1>1, <1>2 DEF Term

(* A step of instance i changes the sum by the change of its term. *)
LEMMA UnflushedMoves ==
    ASSUME TypeOK, TypeOK', NEW i \in Instances,
           \A j \in Instances : j # i => /\ current'[j] = current[j] /\ bucket'[j] = bucket[j]
                                         /\ flight'[j] = flight[j]
    PROVE  Unflushed' = Unflushed - Term(i) + Term(i)'
<1> DEFINE f == [j \in Instances |-> Pending(j) + Sent(j)]
           g == [j \in Instances |-> Pending(j)' + Sent(j)']
<1>1. \A j \in Instances : f[j] \in Nat
  BY Terms DEF Term
<1>2. ASSUME NEW j \in Instances PROVE Pending(j)' \in Nat /\ Sent(j)' \in Nat
  BY LimiterNone DEF TypeOK, Pending, Sent, Entry, Flight
<1>3. \A j \in Instances : g[j] \in Nat
  BY <1>2
<1>4. ASSUME NEW j \in Instances, j # i PROVE f[j] = g[j]
  BY <1>4 DEF Pending, Sent
<1>5. f[i] = Term(i) /\ g[i] = Term(i)'
  BY DEF Term
<1>6. Unflushed = SumFunctionOnSet(f, Instances) /\ Unflushed' = SumFunctionOnSet(g, Instances)
  BY DEF Unflushed
<1> HIDE DEF f, g
<1>7. SumFunctionOnSet(g, Instances) = SumFunctionOnSet(f, Instances) - f[i] + g[i]
  BY <1>1, <1>3, <1>4, SumMoves, LimiterConstants
<1>8. QED
  BY <1>5, <1>6, <1>7

LEMMA UnflushedStays ==
    ASSUME UNCHANGED <<current, flight>>, bucket' = bucket
    PROVE  Unflushed' = Unflushed
  BY DEF Unflushed, Pending, Sent

-----------------------------------------------------------------------------
LEMMA SoundElsewhere ==
    ASSUME NEW entry, NEW f, NEW g, NEW n, NEW b, EntrySound(entry, f, n, b),
           ~Flies(f, b), ~Flies(g, b)
    PROVE  EntrySound(entry, g, n, b)
  BY DEF EntrySound

(* What the three kinds of arrival share: entry is what becomes of the     *)
(* bucket that counts the request, f the flush under way afterwards.       *)
LEMMA ArrivalKeeps ==
    ASSUME LimiterInv, NEW i \in Instances, NEW b \in Buckets, Arrival(i, b),
           NEW entry \in Entry, NEW f, NEW n \in Nat,
           \/ f = flight[i]
           \/ flight[i] = None /\ f \in Flight /\ f # None /\ f.bucket = b /\ f.at = "sent",
           f = None => n = 0,
           EntrySound(entry, f, n, b),
           entry.synced # 0 => Seen(entry.synced, entry.resetAt),
           entry.pending + (IF f # None /\ f.at = "sent" THEN f.delta ELSE 0)
              = Counted(i, b).pending + Sent(i),
           bucket' = [bucket EXCEPT ![i] = [Kept(i, b) EXCEPT ![b] = entry]],
           flight' = [flight EXCEPT ![i] = f],
           waiting' = [waiting EXCEPT ![i][b] = n],
           UNCHANGED <<now, row>>
    PROVE  LimiterInv'
<1>1. /\ b \in Counting(i) /\ current' = [current EXCEPT ![i] = b]
      /\ arrived' = arrived + 1 /\ clean' = (clean /\ ~(Expired(i) /\ Drops(i)))
  BY DEF Arrival
<1>2. TypeOK
  BY DEF LimiterInv
<1>3. /\ \A c \in Buckets : bucket'[i][c] = IF c = b THEN entry ELSE Kept(i, b)[c]
      /\ \A j \in Instances : j # i => bucket'[j] = bucket[j]
  BY <1>2 DEF TypeOK, Kept
<1>4. /\ flight'[i] = f /\ current'[i] = b /\ waiting'[i][b] = n
      /\ \A c \in Buckets : c # b => waiting'[i][c] = waiting[i][c]
      /\ \A j \in Instances : j # i =>
            flight'[j] = flight[j] /\ current'[j] = current[j] /\ waiting'[j] = waiting[j]
  BY <1>1, <1>2 DEF TypeOK
<1>5. f \in Flight \cup {None}
  BY <1>2 DEF TypeOK
<1>6. TypeOK'
  <2>1. [Kept(i, b) EXCEPT ![b] = entry] \in [Buckets -> Entry]
    <3>1. \A c \in Buckets : Kept(i, b)[c] \in Entry
      BY KeptFacts
    <3>2. QED
      BY <3>1 DEF Kept
  <2>2. bucket' \in [Instances -> [Buckets -> Entry]]
    BY <1>2, <2>1 DEF TypeOK
  <2>3. waiting' \in [Instances -> [Buckets -> Nat]]
    BY <1>2 DEF TypeOK
  <2>4. clean' \in BOOLEAN
    BY <1>1
  <2>5. \A j \in Instances : flight'[j] = None => \A c \in Buckets : waiting'[j][c] = 0
    BY <1>2, <1>4 DEF TypeOK
  <2>6. QED
    BY <1>1, <1>2, <1>5, <2>2, <2>3, <2>4, <2>5 DEF TypeOK
<1>7. Synced'
  <2>1. ASSUME NEW j \in Instances, NEW c \in Buckets, bucket'[j][c].synced # 0
        PROVE  Seen(bucket'[j][c].synced, bucket'[j][c].resetAt)
    <3>1. CASE j # i
      BY <1>3, <2>1, <3>1 DEF LimiterInv, Synced
    <3>2. CASE j = i /\ c = b
      BY <1>3, <2>1, <3>2
    <3>3. CASE j = i /\ c # b
      BY <1>3, <2>1, <3>3, KeptFacts
    <3>4. QED
      BY <3>1, <3>2, <3>3
  <2>2. ASSUME NEW j \in Instances, flight'[j] # None, flight'[j].at = "committed"
        PROVE  Seen(flight'[j].count, flight'[j].resetAt)
    BY <1>4, <2>2 DEF LimiterInv, Synced
  <2>3. QED
    BY <2>1, <2>2 DEF Synced, Seen
<1>8. Sound'
  <2>1. ASSUME NEW j \in Instances, NEW c \in Buckets
        PROVE  EntrySound(bucket'[j][c], flight'[j], waiting'[j][c], c)
    <3>1. CASE j # i
      BY <1>3, <1>4, <3>1 DEF LimiterInv, Sound
    <3>2. CASE j = i /\ c = b
      BY <1>3, <1>4, <3>2
    <3>3. CASE j = i /\ c # b
      <4>1. EntrySound(Kept(i, b)[c], flight[i], waiting[i][c], c)
        BY KeptFacts
      <4>2. EntrySound(Kept(i, b)[c], f, waiting[i][c], c)
        <5>1. CASE f = flight[i]
          BY <4>1, <5>1
        <5>2. CASE flight[i] = None /\ f.bucket = b
          BY <3>3, <4>1, <5>2, SoundElsewhere DEF Flies
        <5>3. QED
          BY <5>1, <5>2
      <4>3. QED
        BY <1>3, <1>4, <3>3, <4>2
    <3>4. QED
      BY <3>1, <3>2, <3>3
  <2>2. QED
    BY <2>1 DEF Sound
<1>9. CountedOnce'
  <2>1. Unflushed' = Unflushed - Term(i) + Term(i)'
    BY <1>2, <1>3, <1>4, <1>6, UnflushedMoves
  <2>2. Term(i)' = Counted(i, b).pending + Sent(i)
    <3>1. Pending(i)' = entry.pending
      BY <1>3, <1>4, LimiterNone DEF Pending
    <3>2. Sent(i)' = IF f # None /\ f.at = "sent" THEN f.delta ELSE 0
      BY <1>4 DEF Sent
    <3>3. QED
      BY <3>1, <3>2 DEF Term
  <2>3. clean' => clean /\ Term(i)' = Term(i) + 1
    <3>1. Pending(i) \in Nat /\ Sent(i) \in Nat
      BY <1>2, Terms
    <3>2. ~(Expired(i) /\ Drops(i)) => Counted(i, b).pending = Pending(i) + 1
      BY <1>1, CountingFacts
    <3>3. clean' => clean /\ ~(Expired(i) /\ Drops(i))
      BY <1>1
    <3>4. QED
      BY <2>2, <3>1, <3>2, <3>3 DEF Term
  <2>4. Unflushed \in Nat /\ Term(i) \in Nat /\ arrived \in Nat /\ row.count \in Nat
    BY <1>2, Terms DEF TypeOK
  <2>5. QED
    BY <1>1, <2>1, <2>3, <2>4 DEF LimiterInv, CountedOnce
<1>10. QED
  BY <1>6, <1>7, <1>8, <1>9 DEF LimiterInv

LEMMA CountLocallyKeeps ==
    ASSUME LimiterInv, NEW i \in Instances, NEW b \in Buckets, CountLocally(i, b)
    PROVE  LimiterInv'
<1> DEFINE counted == Counted(i, b)
           entry == Decide(counted, 1, FlightOf(i, b))
<1>1. /\ Arrival(i, b) /\ b \in Counting(i)
      /\ bucket' = [bucket EXCEPT ![i] = [Kept(i, b) EXCEPT ![b] = entry]]
      /\ UNCHANGED <<now, row, flight, waiting>>
  BY DEF CountLocally, Arrival
<1>2. /\ counted \in Entry
      /\ counted.synced # 0 => Seen(counted.synced, counted.resetAt)
      /\ EntrySound(counted, flight[i], waiting[i][b], b)
      /\ EntrySound(counted, flight[i], 1 + waiting[i][b], b)
      /\ waiting[i][b] \in Nat
  <2>1. waiting[i][b] \in Nat /\ waiting[i][b] + 1 = 1 + waiting[i][b]
    BY DEF LimiterInv, TypeOK
  <2>2. QED
    BY <1>1, <2>1, CountingFacts
<1> HIDE DEF counted
<1>3. /\ entry \in Entry /\ entry.pending = counted.pending
      /\ entry.synced # 0 => Seen(entry.synced, entry.resetAt)
      /\ EntrySound(entry, flight[i], waiting[i][b], b)
  <2>1. CASE FlightOf(i, b)
    <3>1. entry = counted
      BY <2>1 DEF Decide
    <3>2. QED
      BY <1>2, <3>1
  <2>2. CASE ~FlightOf(i, b)
    <3>1. entry = Decide(counted, 1, FALSE)
      BY <2>2 DEF Decide
    <3>2. ~Flies(flight[i], b)
      BY <2>2 DEF Flies, FlightOf
    <3>3. /\ Decide(counted, 1, FALSE) \in Entry
          /\ Decide(counted, 1, FALSE).pending = counted.pending
          /\ Decide(counted, 1, FALSE).synced = counted.synced
          /\ Decide(counted, 1, FALSE).resetAt = counted.resetAt
          /\ EntrySound(Decide(counted, 1, FALSE), flight[i], waiting[i][b], b)
      BY <1>2, <3>2, DecideFacts
    <3>4. QED
      BY <1>2, <3>1, <3>3
  <2>3. QED
    BY <2>1, <2>2
<1> HIDE DEF entry
<1>4. /\ flight' = [flight EXCEPT ![i] = flight[i]]
      /\ waiting' = [waiting EXCEPT ![i][b] = waiting[i][b]]
  BY <1>1 DEF LimiterInv, TypeOK
<1>5. flight[i] = None => waiting[i][b] = 0
  BY DEF LimiterInv, TypeOK
<1>6. entry.pending + (IF flight[i] # None /\ flight[i].at = "sent" THEN flight[i].delta ELSE 0)
         = Counted(i, b).pending + Sent(i)
  BY <1>3 DEF Sent, counted
<1>7. QED
  BY <1>1, <1>2, <1>3, <1>4, <1>5, <1>6, ArrivalKeeps

LEMMA JoinFlushKeeps ==
    ASSUME LimiterInv, NEW i \in Instances, NEW b \in Buckets, JoinFlush(i, b)
    PROVE  LimiterInv'
<1>1. /\ Arrival(i, b) /\ b \in Counting(i) /\ flight[i] # None
      /\ bucket' = [bucket EXCEPT ![i] = [Kept(i, b) EXCEPT ![b] = Counted(i, b)]]
      /\ waiting' = [waiting EXCEPT ![i][b] = waiting[i][b] + 1]
      /\ UNCHANGED <<now, row, flight>>
  BY DEF JoinFlush, Arrival, LimiterInv, TypeOK
<1>2. /\ Counted(i, b) \in Entry
      /\ Counted(i, b).synced # 0 => Seen(Counted(i, b).synced, Counted(i, b).resetAt)
      /\ EntrySound(Counted(i, b), flight[i], waiting[i][b] + 1, b)
  BY <1>1, CountingFacts
<1>3. /\ flight' = [flight EXCEPT ![i] = flight[i]]
      /\ waiting[i][b] + 1 \in Nat
  BY <1>1 DEF LimiterInv, TypeOK
<1>4. Counted(i, b).pending
         + (IF flight[i] # None /\ flight[i].at = "sent" THEN flight[i].delta ELSE 0)
         = Counted(i, b).pending + Sent(i)
  BY DEF Sent
<1>5. QED
  BY <1>1, <1>2, <1>3, <1>4, ArrivalKeeps

LEMMA StartFlushKeeps ==
    ASSUME LimiterInv, NEW i \in Instances, NEW b \in Buckets, StartFlush(i, b)
    PROVE  LimiterInv'
<1> DEFINE counted == Counted(i, b)
           f == [bucket |-> b, delta |-> counted.pending, at |-> "sent", count |-> 0, resetAt |-> 0]
           entry == [counted EXCEPT !.pending = 0, !.lastFlush = now]
<1>1. /\ Arrival(i, b) /\ b \in Counting(i) /\ flight[i] = None
      /\ bucket' = [bucket EXCEPT ![i] = [Kept(i, b) EXCEPT ![b] = entry]]
      /\ waiting' = [waiting EXCEPT ![i][b] = waiting[i][b] + 1]
      /\ flight' = [flight EXCEPT ![i] = f]
      /\ UNCHANGED <<now, row>>
  BY DEF StartFlush, Arrival, LimiterInv, TypeOK
<1>2. waiting[i][b] = 0 /\ waiting[i][b] + 1 = 1 /\ now \in Nat
  BY <1>1 DEF LimiterInv, TypeOK
<1>3. /\ counted \in Entry /\ counted.pending >= 1
      /\ counted.synced # 0 => Seen(counted.synced, counted.resetAt)
      /\ EntrySound(counted, None, 1, b)
  BY <1>1, <1>2, CountingFacts
<1> HIDE DEF counted
<1>4. counted.pending \in Nat \ {0}
  BY <1>3 DEF Entry
<1>5. /\ entry \in Entry /\ entry.pending = 0 /\ entry.synced = counted.synced
      /\ entry.resetAt = counted.resetAt /\ entry.own = counted.own /\ entry.quiet = counted.quiet
  BY <1>2, <1>3 DEF Entry
<1>6. /\ f \in Flight /\ f # None /\ f.bucket = b /\ f.at = "sent" /\ f.delta = counted.pending
  <2>1. f \in Flight /\ f.bucket = b /\ f.at = "sent" /\ f.delta = counted.pending
    BY <1>4 DEF Flight
  <2>2. QED
    BY <2>1, LimiterNone
<1> HIDE DEF entry, f
<1>7. EntrySound(entry, f, 1, b)
  BY <1>3, <1>4, <1>5, <1>6 DEF EntrySound, Flies, Entry
<1>8. entry.pending + (IF f # None /\ f.at = "sent" THEN f.delta ELSE 0)
         = Counted(i, b).pending + Sent(i)
  BY <1>1, <1>4, <1>5, <1>6 DEF Sent, counted
<1>9. QED
  BY <1>1, <1>2, <1>3, <1>5, <1>6, <1>7, <1>8, ArrivalKeeps

LEMMA FlushCommitsKeeps ==
    ASSUME LimiterInv, NEW i \in Instances, FlushCommits(i)
    PROVE  LimiterInv'
<1> DEFINE b == flight[i].bucket
           delta == flight[i].delta
           runs == row.resetAt > now
           next == IF runs THEN [row EXCEPT !.count = @ + delta]
                   ELSE [count |-> delta, resetAt |-> now + Window]
           old == bucket[i][b]
           new == IF runs /\ old.resetAt = row.resetAt THEN old
                  ELSE [old EXCEPT !.own = delta + old.pending, !.quiet = 0]
           g == [flight[i] EXCEPT !.at = "committed", !.count = next.count,
                                  !.resetAt = next.resetAt]
<1>1. TypeOK
  BY DEF LimiterInv
<1>2. /\ flight[i] # None /\ flight[i].at = "sent" /\ flight[i] \in Flight
      /\ b \in Buckets /\ delta \in Nat /\ delta >= 1 /\ old \in Entry
      /\ row.count \in Nat /\ row.resetAt \in Nat /\ now \in Nat
  BY <1>1 DEF FlushCommits, TypeOK, Flight
<1>3. /\ row' = next /\ flight' = [flight EXCEPT ![i] = g]
      /\ bucket' = [bucket EXCEPT ![i][b] = new]
      /\ arrived' = (IF runs THEN arrived ELSE Unflushed)
      /\ clean' = (clean \/ ~runs)
      /\ UNCHANGED <<now, current, waiting>>
  BY <1>1, <1>2 DEF FlushCommits, TypeOK
<1>4. /\ next \in [count : Nat, resetAt : Nat] /\ next.count >= delta
      /\ runs => next.count = row.count + delta /\ next.resetAt = row.resetAt
      /\ ~runs => next.count = delta /\ row.resetAt <= now
  BY <1>1, <1>2, Numbers DEF TypeOK
<1> HIDE DEF next
<1>5. /\ g \in Flight /\ g # None /\ g.bucket = b /\ g.delta = delta /\ g.at = "committed"
      /\ g.count = next.count /\ g.resetAt = next.resetAt
  <2> DEFINE f == flight[i]
  <2>1. f \in Flight
    BY <1>2
  <2> HIDE DEF f
  <2>2. /\ [f EXCEPT !.at = "committed", !.count = next.count, !.resetAt = next.resetAt] \in Flight
        /\ g.bucket = b /\ g.delta = delta /\ g.at = "committed"
        /\ g.count = next.count /\ g.resetAt = next.resetAt
    BY <1>4, <2>1 DEF Flight, f
  <2>3. QED
    BY <2>2, LimiterNone DEF f
<1> HIDE DEF g
<1>6. /\ new \in Entry /\ new.pending = old.pending /\ new.synced = old.synced
      /\ new.resetAt = old.resetAt
      /\ \/ runs /\ old.resetAt = row.resetAt /\ new = old
         \/ new.own = delta + old.pending /\ new.quiet = 0
  <2> DEFINE other == [old EXCEPT !.own = delta + old.pending, !.quiet = 0]
  <2>1. /\ other \in Entry /\ other.pending = old.pending /\ other.synced = old.synced
        /\ other.resetAt = old.resetAt /\ other.own = delta + old.pending /\ other.quiet = 0
    <3> HIDE DEF old
    <3>1. old.pending \in Nat /\ delta + old.pending \in Nat
      BY <1>2 DEF Entry
    <3>2. QED
      BY <1>2, <3>1 DEF Entry
  <2> HIDE DEF other
  <2>2. \/ new = old /\ runs /\ old.resetAt = row.resetAt
        \/ new = other
    BY DEF other
  <2>3. QED
    BY <1>2, <2>1, <2>2
<1> HIDE DEF new
<1>7. /\ bucket'[i][b] = new
      /\ \A c \in Buckets : c # b => bucket'[i][c] = bucket[i][c]
      /\ \A j \in Instances : j # i => bucket'[j] = bucket[j] /\ flight'[j] = flight[j]
      /\ flight'[i] = g
  BY <1>1, <1>2, <1>3 DEF TypeOK
<1>9. TypeOK'
  <2>1. Unflushed \in Nat
    BY <1>1, Terms, <1>2
  <2>2. bucket' \in [Instances -> [Buckets -> Entry]]
    BY <1>1, <1>2, <1>3, <1>6 DEF TypeOK
  <2>3. clean' \in BOOLEAN
    BY <1>3
  <2>4. QED
    BY <1>1, <1>2, <1>3, <1>4, <1>5, <2>1, <2>2, <2>3 DEF TypeOK
<1>10. Synced'
  <2>1. ASSUME NEW j \in Instances, NEW c \in Buckets, bucket'[j][c].synced # 0
        PROVE  Seen(bucket[j][c].synced, bucket[j][c].resetAt)'
    <3>1. bucket[j][c].synced \in Nat /\ bucket[j][c].resetAt \in Nat
      BY <1>1 DEF TypeOK, Entry
    <3>2. /\ bucket'[j][c].synced = bucket[j][c].synced
          /\ bucket'[j][c].resetAt = bucket[j][c].resetAt
      <4>1. CASE j = i /\ c = b
        BY <1>6, <1>7, <4>1
      <4>2. CASE ~(j = i /\ c = b)
        BY <1>7, <4>2
      <4>3. QED
        BY <4>1, <4>2
    <3>3. Seen(bucket[j][c].synced, bucket[j][c].resetAt)
      BY <2>1, <3>2 DEF LimiterInv, Synced
    <3>4. Seen(bucket[j][c].synced, bucket[j][c].resetAt)'
      BY <1>2, <1>3, <1>4, <3>1, <3>2, <3>3 DEF Seen
    <3>5. QED
      BY <3>4
  <2>2. ASSUME NEW j \in Instances, flight'[j] # None, flight'[j].at = "committed"
        PROVE  Seen(flight[j].count, flight[j].resetAt)'
    <3>1. CASE j = i
      BY <1>2, <1>3, <1>4, <1>5, <1>7, <3>1 DEF Seen
    <3>2. CASE j # i
      <4>1. flight[j].count \in Nat /\ flight[j].resetAt \in Nat /\ flight'[j] = flight[j]
        BY <1>1, <1>7, <2>2, <3>2 DEF TypeOK, Flight
      <4>2. Seen(flight[j].count, flight[j].resetAt)
        BY <2>2, <4>1 DEF LimiterInv, Synced
      <4>3. QED
        BY <1>2, <1>3, <1>4, <4>1, <4>2 DEF Seen
    <3>3. QED
      BY <3>1, <3>2
  <2>3. QED
    BY <2>1, <2>2 DEF Synced, Seen
<1>11. Sound'
  <2>1. ASSUME NEW j \in Instances, NEW c \in Buckets
        PROVE  EntrySound(bucket'[j][c], flight'[j], waiting[j][c], c)
    <3>0. EntrySound(bucket[j][c], flight[j], waiting[j][c], c)
      BY DEF LimiterInv, Sound
    <3>1. CASE j # i
      BY <1>7, <3>0, <3>1
    <3>2. CASE j = i /\ c # b
      <4>1. EntrySound(bucket[i][c], g, waiting[i][c], c)
        BY <1>5, <3>0, <3>2, SoundElsewhere DEF Flies
      <4>2. QED
        BY <1>7, <3>2, <4>1
    <3>3. CASE j = i /\ c = b
      <4>1. /\ EntrySound(old, flight[i], waiting[i][b], b) /\ Flies(flight[i], b)
            /\ Flies(g, b) /\ waiting[i][b] \in Nat
        BY <1>1, <1>2, <1>5, <3>0, <3>3 DEF Flies, TypeOK
      <4>2. runs /\ old.resetAt = row.resetAt => old.synced <= row.count
        <5>1. old.synced \in Nat
          BY <1>2 DEF Entry
        <5>2. old.synced # 0 => Seen(old.synced, old.resetAt)
          BY <1>2 DEF LimiterInv, Synced
        <5>3. QED
          BY <1>2, <5>1, <5>2 DEF Seen
      <4>3. EntrySound(new, g, waiting[i][b], b)
        <5>1. CASE runs /\ old.resetAt = row.resetAt /\ new = old
          BY <1>2, <1>4, <1>5, <4>1, <4>2, <5>1 DEF EntrySound, Entry
        <5>2. CASE new.own = delta + old.pending /\ new.quiet = 0
          BY <1>2, <1>4, <1>5, <1>6, <4>1, <5>2, Numbers DEF EntrySound, Entry
        <5>3. QED
          BY <1>6, <5>1, <5>2
      <4>4. QED
        BY <1>7, <3>3, <4>3
    <3>4. QED
      BY <3>1, <3>2, <3>3
  <2>2. QED
    BY <1>3, <2>1 DEF Sound
<1>12. CountedOnce'
  <2>1. Unflushed' = Unflushed - Term(i) + Term(i)'
    BY <1>1, <1>3, <1>7, <1>9, UnflushedMoves
  <2>2. Term(i) = Pending(i) + delta /\ Term(i)' = Pending(i)
    <3>1. Pending(i)' = Pending(i) /\ Pending(i) \in Nat
      <4>1. CASE current[i] = None
        BY <1>3, <4>1 DEF Pending
      <4>2. CASE current[i] # None
        BY <1>1, <1>3, <1>6, <1>7, <4>2, LimiterNone DEF Pending, TypeOK, Entry
      <4>3. QED
        BY <4>1, <4>2
    <3>2. Sent(i) = delta /\ Sent(i)' = 0
      BY <1>2, <1>5, <1>7 DEF Sent
    <3>3. QED
      BY <3>1, <3>2 DEF Term
  <2>3. Unflushed \in Nat /\ Pending(i) \in Nat /\ arrived \in Nat
    BY <1>1, Terms DEF TypeOK
  <2>4. CASE runs
    <3>1. clean' => clean
      BY <1>3, <2>4
    <3>2. clean => row.count + Unflushed = arrived
      BY <2>4 DEF LimiterInv, CountedOnce
    <3>3. QED
      BY <1>2, <1>3, <1>4, <2>1, <2>2, <2>3, <2>4, <3>1, <3>2 DEF CountedOnce
  <2>5. CASE ~runs
    BY <1>2, <1>3, <1>4, <2>1, <2>2, <2>3, <2>5 DEF CountedOnce
  <2>6. QED
    BY <2>4, <2>5
<1>13. QED
  BY <1>9, <1>10, <1>11, <1>12 DEF LimiterInv

(* What an answer and a failure share: entry is what becomes of the bucket *)
(* that was flushed.                                                       *)
LEMMA LandedKeeps ==
    ASSUME LimiterInv, NEW i \in Instances, flight[i] # None, NEW entry \in Entry,
           Landed(i, entry),
           entry.synced # 0 => Seen(entry.synced, entry.resetAt),
           EntrySound(entry, None, waiting[i][flight[i].bucket], flight[i].bucket),
           clean' \in BOOLEAN,
           clean' => /\ clean
                     /\ current[i] = flight[i].bucket =>
                           entry.pending = bucket[i][flight[i].bucket].pending + Sent(i)
                     /\ current[i] # flight[i].bucket => Sent(i) = 0
    PROVE  LimiterInv'
<1> DEFINE b == flight[i].bucket
           base(c) == IF c = b THEN entry ELSE bucket[i][c]
           after(c) == IF c = current[i] THEN Decide(base(c), waiting[i][c], FALSE) ELSE Unused
<1>1. TypeOK /\ now \in Nat
  BY DEF LimiterInv, TypeOK
<1>2. /\ bucket' = [bucket EXCEPT ![i] = [c \in Buckets |-> after(c)]]
      /\ waiting' = [waiting EXCEPT ![i] = [c \in Buckets |-> 0]]
      /\ flight' = [flight EXCEPT ![i] = None]
      /\ UNCHANGED <<now, row, current, arrived>>
  BY <1>1 DEF Landed, TypeOK
<1>3. ASSUME NEW c \in Buckets
      PROVE  /\ after(c) \in Entry
             /\ after(c).synced # 0 => Seen(after(c).synced, after(c).resetAt)
             /\ EntrySound(after(c), None, 0, c)
             /\ c = current[i] => after(c).pending = base(c).pending
  <2>1. ~Flies(None, c)
    BY DEF Flies
  <2>2. CASE c # current[i]
    <3>1. after(c) = Unused
      BY <2>2
    <3> HIDE DEF after
    <3>2. QED
      BY <1>1, <2>1, <2>2, <3>1, FreshFacts, EmptyIsSound
  <2>3. CASE c = current[i]
    <3>1. /\ base(c) \in Entry /\ waiting[i][c] \in Nat /\ waiting[i][c] + 0 = waiting[i][c]
          /\ base(c).synced # 0 => Seen(base(c).synced, base(c).resetAt)
      BY <1>1 DEF TypeOK, LimiterInv, Synced
    <3>2. EntrySound(base(c), None, waiting[i][c], c)
      <4>1. CASE c = b
        BY <4>1
      <4>2. CASE c # b
        <5>1. EntrySound(bucket[i][c], flight[i], waiting[i][c], c)
          BY DEF LimiterInv, Sound
        <5>2. ~Flies(flight[i], c)
          BY <4>2 DEF Flies
        <5>3. QED
          BY <2>1, <4>2, <5>1, <5>2, SoundElsewhere
      <4>3. QED
        BY <4>1, <4>2
    <3>3. after(c) = Decide(base(c), waiting[i][c], FALSE)
      BY <2>3
    <3> HIDE DEF after, base
    <3>4. /\ Decide(base(c), waiting[i][c], FALSE) \in Entry
          /\ Decide(base(c), waiting[i][c], FALSE).pending = base(c).pending
          /\ Decide(base(c), waiting[i][c], FALSE).synced = base(c).synced
          /\ Decide(base(c), waiting[i][c], FALSE).resetAt = base(c).resetAt
          /\ EntrySound(Decide(base(c), waiting[i][c], FALSE), None, 0, c)
      BY <2>1, <3>1, <3>2, DecideFacts
    <3>5. QED
      BY <3>1, <3>3, <3>4
  <2>4. QED
    BY <2>2, <2>3
<1> HIDE DEF after
<1>4. /\ \A c \in Buckets : bucket'[i][c] = after(c) /\ waiting'[i][c] = 0
      /\ flight'[i] = None
      /\ \A j \in Instances : j # i =>
            bucket'[j] = bucket[j] /\ flight'[j] = flight[j] /\ waiting'[j] = waiting[j]
  BY <1>1, <1>2 DEF TypeOK
<1>5. TypeOK'
  <2>1. [c \in Buckets |-> after(c)] \in [Buckets -> Entry]
    BY <1>3
  <2>2. bucket' \in [Instances -> [Buckets -> Entry]]
    BY <1>1, <1>2, <2>1 DEF TypeOK
  <2>3. \A j \in Instances : flight'[j] = None => \A c \in Buckets : waiting'[j][c] = 0
    BY <1>1, <1>4 DEF TypeOK
  <2>4. waiting' \in [Instances -> [Buckets -> Nat]]
    BY <1>1, <1>2 DEF TypeOK
  <2>5. QED
    BY <1>1, <1>2, <2>2, <2>3, <2>4 DEF TypeOK
<1>6. Synced'
  <2>1. ASSUME NEW j \in Instances, NEW c \in Buckets, bucket'[j][c].synced # 0
        PROVE  Seen(bucket'[j][c].synced, bucket'[j][c].resetAt)
    <3>1. CASE j # i
      BY <1>4, <2>1, <3>1 DEF LimiterInv, Synced
    <3>2. CASE j = i
      BY <1>3, <1>4, <2>1, <3>2
    <3>3. QED
      BY <3>1, <3>2
  <2>2. ASSUME NEW j \in Instances, flight'[j] # None, flight'[j].at = "committed"
        PROVE  Seen(flight'[j].count, flight'[j].resetAt)
    BY <1>4, <2>2 DEF LimiterInv, Synced
  <2>3. QED
    BY <1>2, <2>1, <2>2 DEF Synced, Seen
<1>7. Sound'
  <2>1. ASSUME NEW j \in Instances, NEW c \in Buckets
        PROVE  EntrySound(bucket'[j][c], flight'[j], waiting'[j][c], c)
    <3>1. CASE j # i
      BY <1>4, <3>1 DEF LimiterInv, Sound
    <3>2. CASE j = i
      BY <1>3, <1>4, <3>2
    <3>3. QED
      BY <3>1, <3>2
  <2>2. QED
    BY <2>1 DEF Sound
<1>8. CountedOnce'
  <2>1. Unflushed' = Unflushed - Term(i) + Term(i)'
    BY <1>1, <1>2, <1>4, <1>5, UnflushedMoves
  <2>2. Unflushed \in Nat /\ Pending(i) \in Nat /\ Sent(i) \in Nat
    BY <1>1, Terms
  <2>3. Sent(i)' = 0
    BY <1>4 DEF Sent
  <2>4. clean' => Pending(i)' = Pending(i) + Sent(i)
    <3>1. CASE current[i] = None
      <4>1. current[i] # b
        BY <1>1, <3>1, LimiterNone DEF TypeOK, Flight
      <4>2. QED
        BY <1>2, <3>1, <4>1 DEF Pending
    <3>2. CASE current[i] # None
      <4>1. /\ current[i] \in Buckets /\ bucket'[i][current[i]].pending = base(current[i]).pending
            /\ Pending(i) = bucket[i][current[i]].pending
            /\ Pending(i)' = bucket'[i][current[i]].pending
        BY <1>1, <1>2, <1>3, <1>4, <3>2 DEF TypeOK, Pending
      <4>2. QED
        BY <2>2, <4>1
    <3>3. QED
      BY <3>1, <3>2
  <2>5. clean' => Term(i)' = Term(i)
    BY <2>2, <2>3, <2>4 DEF Term
  <2>6. row.resetAt > now /\ clean => row.count + Unflushed = arrived
    BY DEF LimiterInv, CountedOnce
  <2>7. Term(i) \in Nat
    BY <2>2 DEF Term
  <2>8. QED
    BY <1>2, <2>1, <2>2, <2>5, <2>6, <2>7 DEF CountedOnce
<1>9. QED
  BY <1>5, <1>6, <1>7, <1>8 DEF LimiterInv

LEMMA FlushReturnsKeeps ==
    ASSUME LimiterInv, NEW i \in Instances, FlushReturns(i)
    PROVE  LimiterInv'
<1> DEFINE b == flight[i].bucket
           old == bucket[i][b]
           f == flight[i]
           entry == [old EXCEPT !.synced = f.count, !.resetAt = f.resetAt]
<1>1. /\ f # None /\ f.at = "committed" /\ Landed(i, entry) /\ clean' = clean
  BY DEF FlushReturns
<1>2. /\ f \in Flight /\ b \in Buckets /\ old \in Entry /\ waiting[i][b] \in Nat
      /\ clean \in BOOLEAN
      /\ f.count \in Nat /\ f.resetAt \in Nat /\ f.bucket = b
  BY <1>1 DEF LimiterInv, TypeOK, Flight
<1>3. /\ Seen(f.count, f.resetAt) /\ EntrySound(old, f, waiting[i][b], b) /\ Sent(i) = 0
  BY <1>1, <1>2 DEF LimiterInv, Synced, Sound, Sent
<1> HIDE DEF old, f
<1>4. /\ entry \in Entry /\ entry.synced = f.count /\ entry.resetAt = f.resetAt
      /\ entry.pending = old.pending /\ entry.own = old.own /\ entry.quiet = old.quiet
  BY <1>2 DEF Entry
<1> HIDE DEF entry
<1>5. EntrySound(entry, None, waiting[i][b], b)
  BY <1>1, <1>2, <1>3, <1>4 DEF EntrySound, Flies, Entry
<1>6. entry.pending = old.pending + Sent(i)
  BY <1>2, <1>3, <1>4 DEF Entry
<1>7. QED
  BY <1>1, <1>2, <1>3, <1>4, <1>5, <1>6, LandedKeeps DEF f, old

LEMMA FlushFailsKeeps ==
    ASSUME LimiterInv, NEW i \in Instances, FlushFails(i)
    PROVE  LimiterInv'
<1> DEFINE b == flight[i].bucket
           old == bucket[i][b]
           delta == flight[i].delta
           entry == [old EXCEPT !.pending = @ + delta]
<1>1. /\ flight[i] # None /\ Landed(i, entry)
      /\ clean' = (clean /\ current[i] = b /\ flight[i].at = "sent")
  BY DEF FlushFails
<1>2. /\ b \in Buckets /\ old \in Entry /\ waiting[i][b] \in Nat /\ delta \in Nat
      /\ old.pending \in Nat
  BY <1>1 DEF LimiterInv, TypeOK, Flight, Entry
<1>3. /\ EntrySound(old, flight[i], waiting[i][b], b)
      /\ old.synced # 0 => Seen(old.synced, old.resetAt)
  BY <1>2 DEF LimiterInv, Synced, Sound
<1>4. flight[i].at = "sent" => Sent(i) = delta
  BY <1>1 DEF Sent
<1> HIDE DEF old, delta
<1>5. /\ entry \in Entry /\ entry.synced = old.synced /\ entry.resetAt = old.resetAt
      /\ entry.pending = old.pending + delta /\ entry.own = old.own /\ entry.quiet = old.quiet
  BY <1>2 DEF Entry
<1> HIDE DEF entry
<1>6. EntrySound(entry, None, waiting[i][b], b)
  BY <1>1, <1>2, <1>3, <1>5 DEF EntrySound, Flies, Entry, delta
<1>7. /\ clean' \in BOOLEAN
      /\ clean' => /\ clean
                   /\ current[i] = b => entry.pending = old.pending + Sent(i)
                   /\ current[i] # b => Sent(i) = 0
  BY <1>1, <1>4, <1>5
<1>8. QED
  BY <1>1, <1>3, <1>5, <1>6, <1>7, LandedKeeps DEF old

LEMMA EvictKeeps ==
    ASSUME LimiterInv, NEW i \in Instances, Evict(i)
    PROVE  LimiterInv'
<1>1. TypeOK
  BY DEF LimiterInv
<1>2. /\ current[i] # None /\ current[i] \in Buckets
      /\ current' = [current EXCEPT ![i] = None] /\ clean' = (clean /\ ~Drops(i))
      /\ bucket' = [bucket EXCEPT ![i] = Kept(i, None)]
      /\ UNCHANGED <<now, row, flight, waiting, arrived>>
  BY <1>1 DEF Evict, TypeOK
<1>3. /\ bucket'[i] = Kept(i, None) /\ current'[i] = None
      /\ \A j \in Instances : j # i => bucket'[j] = bucket[j] /\ current'[j] = current[j]
  BY <1>1, <1>2 DEF TypeOK
<1>4. TypeOK'
  <2>1. Kept(i, None) \in [Buckets -> Entry]
    <3>1. \A c \in Buckets : Kept(i, None)[c] \in Entry
      BY KeptFacts
    <3>2. QED
      BY <3>1 DEF Kept
  <2>2. clean' \in BOOLEAN
    BY <1>2
  <2>3. QED
    BY <1>1, <1>2, <2>1, <2>2 DEF TypeOK
<1>5. ASSUME NEW j \in Instances, NEW c \in Buckets
      PROVE  /\ bucket'[j][c].synced # 0 => Seen(bucket'[j][c].synced, bucket'[j][c].resetAt)
             /\ EntrySound(bucket'[j][c], flight[j], waiting[j][c], c)
  <2>1. CASE j # i
    BY <1>3, <2>1 DEF LimiterInv, Synced, Sound
  <2>2. CASE j = i
    BY <1>3, <2>2, KeptFacts
  <2>3. QED
    BY <2>1, <2>2
<1>6. Synced' /\ Sound'
  BY <1>2, <1>5 DEF LimiterInv, Synced, Sound, Seen
<1>7. CountedOnce'
  <2>1. Unflushed' = Unflushed - Term(i) + Term(i)'
    BY <1>1, <1>2, <1>3, <1>4, UnflushedMoves
  <2>2. Unflushed \in Nat /\ Pending(i) \in Nat /\ Sent(i) \in Nat
    BY <1>1, Terms
  <2>3. Pending(i)' = 0 /\ Sent(i)' = Sent(i)
    BY <1>2, <1>3 DEF Pending, Sent
  <2>4. clean' => clean /\ Pending(i) = 0
    <3>1. clean' => clean /\ ~Drops(i)
      BY <1>2
    <3>2. Pending(i) = bucket[i][current[i]].pending
      BY <1>2 DEF Pending
    <3>3. ~Drops(i) => ~(Pending(i) > 0)
      BY <1>2, <3>2 DEF Drops
    <3>4. QED
      BY <2>2, <3>1, <3>3
  <2>5. QED
    BY <1>2, <2>1, <2>2, <2>3, <2>4 DEF LimiterInv, CountedOnce, Term
<1>8. QED
  BY <1>4, <1>6, <1>7 DEF LimiterInv

LEMMA DeleteExpiredKeeps ==
    ASSUME LimiterInv, DeleteExpired
    PROVE  LimiterInv'
<1>1. /\ row' = [count |-> 0, resetAt |-> 0] /\ row.resetAt < now
      /\ UNCHANGED <<now, current, bucket, flight, waiting, arrived, clean>>
  BY DEF DeleteExpired
<1>2. TypeOK /\ now \in Nat /\ row.resetAt \in Nat
  BY DEF LimiterInv, TypeOK
<1>3. TypeOK'
  BY <1>1, <1>2 DEF TypeOK
<1>4. \A count, resetAt : Seen(count, resetAt) => resetAt <= now
  BY <1>1, <1>2 DEF Seen
<1>5. Synced'
  BY <1>1, <1>4 DEF LimiterInv, Synced, Seen
<1>6. Sound'
  BY <1>1 DEF LimiterInv, Sound
<1>7. CountedOnce'
  BY <1>1, <1>2 DEF CountedOnce
<1>8. QED
  BY <1>3, <1>5, <1>6, <1>7 DEF LimiterInv

LEMMA TickKeeps ==
    ASSUME LimiterInv, Tick
    PROVE  LimiterInv'
<1>1. /\ now' = now + 1
      /\ UNCHANGED <<row, current, bucket, flight, waiting, arrived, clean>>
  BY DEF Tick
<1>2. TypeOK /\ now \in Nat /\ row.resetAt \in Nat
  BY DEF LimiterInv, TypeOK
<1>3. TypeOK'
  BY <1>1, <1>2 DEF TypeOK
<1>4. Synced'
  <2>1. ASSUME NEW count, NEW resetAt \in Nat, Seen(count, resetAt) PROVE Seen(count, resetAt)'
    BY <1>1, <1>2, <2>1 DEF Seen
  <2>2. ASSUME NEW i \in Instances, NEW b \in Buckets, bucket[i][b].synced # 0
        PROVE  Seen(bucket[i][b].synced, bucket[i][b].resetAt)'
    <3>1. Seen(bucket[i][b].synced, bucket[i][b].resetAt) /\ bucket[i][b].resetAt \in Nat
      BY <1>2, <2>2 DEF LimiterInv, Synced, TypeOK, Entry
    <3>2. QED
      BY <1>1, <1>2, <3>1 DEF Seen
  <2>3. ASSUME NEW i \in Instances, flight[i] # None, flight[i].at = "committed"
        PROVE  Seen(flight[i].count, flight[i].resetAt)'
    <3>1. Seen(flight[i].count, flight[i].resetAt) /\ flight[i].resetAt \in Nat
      BY <1>2, <2>3 DEF LimiterInv, Synced, TypeOK, Flight
    <3>2. QED
      BY <1>1, <1>2, <3>1 DEF Seen
  <2>4. QED
    BY <1>1, <2>2, <2>3 DEF Synced
<1>5. Sound'
  BY <1>1 DEF LimiterInv, Sound
<1>6. CountedOnce'
  <2>1. Unflushed' = Unflushed
    BY <1>1, UnflushedStays
  <2>2. QED
    BY <1>1, <1>2, <2>1 DEF LimiterInv, CountedOnce
<1>7. QED
  BY <1>3, <1>4, <1>5, <1>6 DEF LimiterInv

LEMMA InitLimiterInv ==
    Init => LimiterInv
<1> SUFFICES ASSUME Init PROVE LimiterInv
  OBVIOUS
<1>1. now \in Nat /\ \A i \in Instances, b \in Buckets : bucket[i][b] = Unused
  BY Numbers DEF Init
<1>2. TypeOK
  BY <1>1, FreshFacts DEF Init, TypeOK
<1>3. Synced
  BY <1>1, FreshFacts DEF Init, Synced
<1>4. Sound
  <2>1. ASSUME NEW i \in Instances, NEW b \in Buckets
        PROVE  EntrySound(bucket[i][b], flight[i], waiting[i][b], b)
    <3>1. bucket[i][b] = Unused /\ flight[i] = None /\ waiting[i][b] = 0
      BY <1>1 DEF Init
    <3>2. EntrySound(Unused, None, 0, b)
      BY <1>1, FreshFacts, EmptyIsSound DEF Flies
    <3>3. QED
      BY <3>1, <3>2
  <2>2. QED
    BY <2>1 DEF Sound
<1>5. CountedOnce
  BY <1>1 DEF Init, CountedOnce
<1>6. QED
  BY <1>2, <1>3, <1>4, <1>5 DEF LimiterInv

LEMMA StepLimiterInv ==
    LimiterInv /\ [Next]_vars => LimiterInv'
<1> SUFFICES ASSUME LimiterInv, [Next]_vars PROVE LimiterInv'
  OBVIOUS
<1>1. ASSUME NEW i \in Instances, NEW b \in Buckets,
             CountLocally(i, b) \/ JoinFlush(i, b) \/ StartFlush(i, b)
      PROVE  LimiterInv'
  BY <1>1, CountLocallyKeeps, JoinFlushKeeps, StartFlushKeeps
<1>2. ASSUME NEW i \in Instances,
             FlushCommits(i) \/ FlushReturns(i) \/ FlushFails(i) \/ Evict(i)
      PROVE  LimiterInv'
  BY <1>2, FlushCommitsKeeps, FlushReturnsKeeps, FlushFailsKeeps, EvictKeeps
<1>3. CASE DeleteExpired \/ Tick
  BY <1>3, DeleteExpiredKeeps, TickKeeps
<1>4. CASE UNCHANGED vars
  <2>1. UNCHANGED <<now, row, current, bucket, flight, waiting, arrived, clean>>
    BY <1>4 DEF vars
  <2>2. Unflushed' = Unflushed
    BY <2>1, UnflushedStays
  <2>3. QED
    BY <2>1, <2>2 DEF LimiterInv, TypeOK, Synced, Sound, Seen, CountedOnce
<1>5. QED
  BY <1>1, <1>2, <1>3, <1>4 DEF Next

LEMMA LimiterInvariant ==
    Spec => []LimiterInv
<1>1. QED
  BY InitLimiterInv, StepLimiterInv, PTL DEF Spec

-----------------------------------------------------------------------------
(* The variables keep their types: a flush always carries counts, and      *)
(* nobody waits where none is under way.                                   *)
THEOREM LimiterTypeCorrect == Spec => []TypeOK
<1>1. LimiterInv => TypeOK
  BY DEF LimiterInv
<1>2. QED
  BY <1>1, LimiterInvariant, PTL

(* In a window in which nothing was dropped and no answer lost, every      *)
(* request counted by any instance is counted exactly once: in the row, in *)
(* a bucket, or in a flush on its way.  The proof sums over the instances. *)
THEOREM EveryRequestIsCountedOnce == Spec => []CountedOnce
<1>1. LimiterInv => CountedOnce
  BY DEF LimiterInv
<1>2. QED
  BY <1>1, LimiterInvariant, PTL

(* What a bucket knows is never behind what it has counted itself in the   *)
(* row's window, except for what a flush has taken out.                    *)
THEOREM LocalCountIsKept == Spec => []LocalCountKept
<1>1. LimiterInv => LocalCountKept
  BY DEF LimiterInv, Sound, EntrySound, LocalCountKept, Effective, Flies, FlightOf
<1>2. QED
  BY <1>1, LimiterInvariant, PTL

(* A bucket lets at most MaxRequests of its window through in the times    *)
(* when no flush of it is under way.                                       *)
THEOREM LimitIsKept == Spec => []LimitHolds
<1>1. LimiterInv => LimitHolds
  BY DEF LimiterInv, Sound, EntrySound, LimitHolds
<1>2. QED
  BY <1>1, LimiterInvariant, PTL
=============================================================================
