-------------------------- MODULE CreditLedgerProofs --------------------------
(***************************************************************************)
(* Machine-checked proofs about the credit ledger, for any set of pools,   *)
(* any finite set of reservations, any set of refreshes and any bounds.    *)
(***************************************************************************)
EXTENDS CreditLedger, FiniteSetTheorems, TLAPS

(* The index of a pool is a finite set, so its size is a number. *)
LEMMA IndexFinite ==
    ASSUME TypeOK, NEW p \in Pools
    PROVE  IsFiniteSet(members[p]) /\ Cardinality(members[p]) \in Nat
<1>1. members[p] \in SUBSET Reservations
  BY DEF TypeOK
<1>2. IsFiniteSet(members[p])
  BY <1>1, LedgerFinite, FS_Subset
<1>3. QED
  BY <1>2, FS_CardinalityType

(* What is still pending is part of the index and worth at most as much. *)
LEMMA PendingFacts ==
    ASSUME TypeOK, NEW p \in Pools, NEW n
    PROVE  /\ Pending(p, n) \subseteq members[p]
           /\ IsFiniteSet(Pending(p, n))
           /\ Cardinality(Pending(p, n)) \in Nat
           /\ Cardinality(Pending(p, n)) <= Cardinality(members[p])
<1>1. Pending(p, n) \in SUBSET members[p]
  BY DEF Pending
<1>2. IsFiniteSet(members[p])
  BY IndexFinite
<1>3. IsFiniteSet(Pending(p, n)) /\ Cardinality(Pending(p, n)) <= Cardinality(members[p])
  BY <1>1, <1>2, FS_Subset
<1>4. QED
  BY <1>1, <1>3, FS_CardinalityType

(* Only a refresh that runs has a pool, and it is one of the pools. *)
LEMMA RunningRefresh ==
    ASSUME TypeOK, NEW f \in Refreshes, Running(f)
    PROVE  /\ refresh[f] \in RefreshRecord
           /\ refresh[f].pool \in Pools
           /\ refresh[f].sequence \in Nat
           /\ refresh[f].epoch \in Nat
           /\ refresh[f].known \in SUBSET Reservations
<1>1. refresh[f] \in RefreshRecord
  BY DEF TypeOK, Running
<1>2. QED
  BY <1>1 DEF RefreshRecord

(* A selected pool can cover the estimate. *)
LEMMA SelectedCovers ==
    ASSUME NEW C, NEW p \in Selectable(C)
    PROVE  initialized[p] /\ ~disabled[p] /\ cooldownUntil[p] <= now /\ credits[p] >= Amount
  BY DEF Selectable, Eligible

(***************************************************************************)
(* Next, action by action: the form every step proof below splits on.      *)
(***************************************************************************)
LEMMA NextCases ==
    ASSUME Next
    PROVE  \/ \E C \in SUBSET Pools, p \in Pools, r \in Reservations : Reserve(C, p, r)
           \/ \E p \in Pools, r \in Reservations : SettleRefund(p, r)
           \/ \E p \in Pools, r \in Reservations, sent \in 0..now :
                 SettleCooldown(p, r, sent + Cooldown)
           \/ \E p \in Pools, r \in Reservations : SettleDisabled(p, r)
           \/ \E p \in Pools, r \in Reservations, actual \in 0..MaxActual :
                 SettleActualUsage(p, r, actual)
           \/ \E f \in Refreshes, reading \in 0..MaxReading : Reconcile(f, reading)
           \/ \E f \in Refreshes, p \in Pools : Capture(f, p)
           \/ \E f \in Refreshes : Abandon(f)
           \/ \E r \in Reservations : LeaveReserved(r)
           \/ \E r \in Reservations : Expire(r)
           \/ LoseData
           \/ Tick
  BY DEF Next, Request, Refresh, Environment

(***************************************************************************)
(* Multiplication by the estimate.                                         *)
(***************************************************************************)
LEMMA TimesAmount ==
    ASSUME NEW n \in Nat
    PROVE  /\ Amount * n \in Nat
           /\ Amount * (n + 1) = Amount * n + Amount
<1>1. Amount \in Nat
  BY LedgerAmount
<1>2. QED
  BY <1>1, SMT

LEMMA TimesAmountMonotone ==
    ASSUME NEW m \in Nat, NEW n \in Nat, m <= n
    PROVE  Amount * m <= Amount * n
<1>1. PICK d \in Nat : n = m + d
  <2>1. n - m \in Nat /\ n = m + (n - m)
    OBVIOUS
  <2>2. QED
    BY <2>1
<1>2. Amount \in Nat
  BY LedgerAmount
<1>3. Amount * n = Amount * m + Amount * d /\ Amount * d \in Nat /\ Amount * m \in Nat
  BY <1>1, <1>2, SMT
<1>4. QED
  BY <1>3

(***************************************************************************)
(* The inductive invariant.  The types alone are not inductive: that       *)
(* reserved stays a natural number when a reservation is closed needs the  *)
(* counter to be worth the index, and that needs the caller's reservation  *)
(* to be in the index of the pool it names.                                *)
(***************************************************************************)
LedgerInv == TypeOK /\ IndexSound /\ ReservedMatchesIndex

(* An open reservation its caller still holds is in the index of its pool, *)
(* and taking it out lowers what the pool has promised by one estimate.    *)
LEMMA HeldIsCounted ==
    ASSUME LedgerInv, NEW p \in Pools, NEW r \in Reservations, holder[r] = p, Open(r)
    PROVE  /\ r \in members[p]
           /\ reserved[p] >= Amount
           /\ reserved[p] - Amount = Amount * Cardinality(members[p] \ {r})
<1>1. r \in members[p]
  BY DEF LedgerInv, IndexSound
<1>2. /\ IsFiniteSet(members[p])
      /\ Cardinality(members[p]) \in Nat
  BY IndexFinite DEF LedgerInv
<1>3. /\ IsFiniteSet(members[p] \ {r})
      /\ Cardinality(members[p] \ {r}) = Cardinality(members[p]) - 1
  BY <1>1, <1>2, FS_RemoveElement
<1>4. Cardinality(members[p] \ {r}) \in Nat
  BY <1>3, FS_CardinalityType
<1>5. reserved[p] = Amount * Cardinality(members[p])
  BY DEF LedgerInv, ReservedMatchesIndex
<1> DEFINE rest == Cardinality(members[p] \ {r})
<1>6. /\ rest \in Nat
      /\ Cardinality(members[p]) = rest + 1
  BY <1>2, <1>3, <1>4
<1> HIDE DEF rest
<1>7. Amount * rest \in Nat /\ reserved[p] = Amount * rest + Amount
  BY <1>5, <1>6, TimesAmount
<1>8. reserved[p] >= Amount /\ reserved[p] - Amount = Amount * rest
  BY <1>7, LedgerAmount
<1>9. QED
  BY <1>1, <1>8 DEF rest

(***************************************************************************)
(* Closing a reservation, the part the four settlements share.             *)
(***************************************************************************)
LEMMA ClosePreserves ==
    ASSUME LedgerInv, NEW p \in Pools, NEW r \in Reservations,
           holder[r] = p, Close(p, r), reserveSequence' = reserveSequence
    PROVE  /\ ticket' \in [Reservations -> Nat]
           /\ members' \in [Pools -> SUBSET Reservations]
           /\ reserved' \in [Pools -> Nat]
           /\ holder' \in [Reservations -> Pools \cup {Fresh, Answered}]
           /\ IndexSound'
           /\ ReservedMatchesIndex'
<1> USE DEF LedgerInv
<1>1. Open(r) => /\ r \in members[p]
                 /\ reserved[p] >= Amount
                 /\ reserved[p] - Amount = Amount * Cardinality(members[p] \ {r})
  BY HeldIsCounted
<1>2. /\ ticket' \in [Reservations -> Nat]
      /\ members' \in [Pools -> SUBSET Reservations]
      /\ reserved' \in [Pools -> Nat]
      /\ holder' \in [Reservations -> Pools \cup {Fresh, Answered}]
  BY <1>1, LedgerAmount DEF TypeOK, Close
<1>3. IndexSound'
  <2>1. \A s \in Reservations : Open(s)' => s # r /\ Open(s)
    BY DEF Close, Open, TypeOK
  <2>2. \A q \in Pools : members'[q] \subseteq members[q]
    BY DEF Close, TypeOK
  <2>3. \A q \in Pools : \A s \in members[q] : s # r => s \in members'[q]
    BY DEF Close, TypeOK
  <2>4. \A s \in Reservations : ticket'[s] = IF s = r THEN 0 ELSE ticket[s]
    BY DEF Close, TypeOK
  <2>5. \A s \in Reservations : holder'[s] = IF s = r THEN Answered ELSE holder[s]
    BY DEF Close, TypeOK
  <2>6. \A s \in Reservations : Open(s)' => \E q \in Pools : s \in members'[q]
    BY <2>1, <2>3 DEF IndexSound
  <2>7. ASSUME NEW q \in Pools, NEW s \in members'[q]
        PROVE  /\ holder'[s] # Fresh
               /\ holder'[s] \in Pools => holder'[s] = q
               /\ ticket'[s] <= reserveSequence'[q]
               /\ \A q2 \in Pools : s \in members'[q2] => q2 = q
               /\ \A t \in members'[q] : Open(s)' /\ ticket'[t] = ticket'[s] => t = s
    <3>1. s \in members[q] /\ s \in Reservations
      BY <2>2 DEF TypeOK
    <3>2. holder'[s] # Fresh /\ (holder'[s] \in Pools => holder'[s] = q)
      BY <2>5, <3>1, LedgerHolders DEF IndexSound
    <3>3. ticket'[s] <= reserveSequence'[q]
      BY <2>4, <3>1 DEF IndexSound, TypeOK
    <3>4. \A q2 \in Pools : s \in members'[q2] => q2 = q
      BY <2>2, <3>1 DEF IndexSound
    <3>5. \A t \in members'[q] : Open(s)' /\ ticket'[t] = ticket'[s] => t = s
      BY <2>1, <2>2, <2>4, <3>1 DEF IndexSound, TypeOK, Open
    <3>6. QED
      BY <3>2, <3>3, <3>4, <3>5
  <2>8. QED
    BY <2>6, <2>7 DEF IndexSound
<1>4. ReservedMatchesIndex'
  BY <1>1 DEF ReservedMatchesIndex, Close, TypeOK
<1>5. QED
  BY <1>2, <1>3, <1>4

(***************************************************************************)
(* A new reservation takes a sequence number nobody has and a key nobody   *)
(* has drawn.                                                              *)
(***************************************************************************)
LEMMA ReservePreserves ==
    ASSUME LedgerInv, NEW C \in SUBSET Pools, NEW p \in Pools, NEW r \in Reservations,
           Reserve(C, p, r)
    PROVE  LedgerInv'
<1> USE DEF LedgerInv
<1>1. credits[p] >= Amount
  BY SelectedCovers DEF Reserve
<1>2. TypeOK'
  BY <1>1, LedgerAmount DEF TypeOK, Reserve
<1>3. r \notin members[p] /\ \A q \in Pools : r \notin members[q]
  BY DEF Reserve, IndexSound
<1>4. IndexSound'
  <2>1. \A s \in Reservations : s # r => ticket'[s] = ticket[s] /\ holder'[s] = holder[s]
    BY DEF Reserve, TypeOK
  <2>2. ticket'[r] = reserveSequence[p] + 1 /\ holder'[r] = p
    BY DEF Reserve, TypeOK
  <2>3. \A q \in Pools : members'[q] = IF q = p THEN members[p] \cup {r} ELSE members[q]
    BY DEF Reserve, TypeOK
  <2>4. \A q \in Pools : reserveSequence'[q] = IF q = p THEN reserveSequence[p] + 1
                                              ELSE reserveSequence[q]
    BY DEF Reserve, TypeOK
  <2>5. \A s \in Reservations : Open(s)' => \E q \in Pools : s \in members'[q]
    <3>1. ASSUME NEW s \in Reservations, Open(s)'
          PROVE  \E q \in Pools : s \in members'[q]
      <4>1. CASE s = r
        BY <4>1, <2>3
      <4>2. CASE s # r
        BY <3>1, <4>2, <2>1, <2>3 DEF IndexSound, Open
      <4>3. QED
        BY <4>1, <4>2
    <3>2. QED
      BY <3>1
  <2>6. ASSUME NEW q \in Pools, NEW s \in members'[q]
        PROVE  /\ holder'[s] # Fresh
               /\ holder'[s] \in Pools => holder'[s] = q
               /\ ticket'[s] <= reserveSequence'[q]
               /\ \A q2 \in Pools : s \in members'[q2] => q2 = q
               /\ \A t \in members'[q] : Open(s)' /\ ticket'[t] = ticket'[s] => t = s
    <3>1. CASE s = r
      <4>1. q = p
        BY <3>1, <2>3, <2>6, <1>3
      <4>2. \A t \in members[p] : t # r /\ t \in Reservations /\ ticket'[t] <= reserveSequence[p]
        BY <1>3, <2>1 DEF IndexSound, TypeOK
      <4>3. ticket'[r] # reserveSequence[p] /\ ~(ticket'[r] <= reserveSequence[p])
        BY <2>2 DEF TypeOK
      <4>4. \A t \in members'[q] : ticket'[t] = ticket'[s] => t = s
        BY <4>1, <4>2, <4>3, <2>3, <3>1
      <4>5. holder'[s] = q /\ ticket'[s] <= reserveSequence'[q]
        BY <3>1, <4>1, <2>2, <2>4 DEF TypeOK
      <4>6. \A q2 \in Pools : s \in members'[q2] => q2 = q
        BY <3>1, <4>1, <1>3, <2>3
      <4>7. QED
        BY <4>4, <4>5, <4>6, LedgerHolders
    <3>2. CASE s # r
      <4>1. s \in members[q] /\ s \in Reservations
        BY <3>2, <2>3, <2>6 DEF TypeOK
      <4>2. ticket'[s] = ticket[s] /\ holder'[s] = holder[s]
        BY <3>2, <4>1, <2>1
      <4>3. ticket[s] <= reserveSequence[q] /\ ticket'[s] <= reserveSequence'[q]
        BY <4>1, <4>2, <2>4 DEF IndexSound, TypeOK
      <4>4. \A t \in members'[q] : Open(s)' /\ ticket'[t] = ticket'[s] => t = s
        <5>1. ASSUME NEW t \in members'[q], Open(s)', ticket'[t] = ticket'[s]
              PROVE  t = s
          <6>1. CASE t = r
            <7>1. q = p
              BY <6>1, <5>1, <2>3, <1>3
            <7>2. QED
              BY <6>1, <7>1, <5>1, <4>2, <4>3, <2>2 DEF TypeOK
          <6>2. CASE t # r
            <7>1. t \in members[q] /\ t \in Reservations
              BY <6>2, <2>3, <5>1 DEF TypeOK
            <7>2. QED
              BY <7>1, <6>2, <5>1, <4>1, <4>2, <2>1 DEF IndexSound, Open
          <6>3. QED
            BY <6>1, <6>2
        <5>2. QED
          BY <5>1
      <4>5. \A q2 \in Pools : s \in members'[q2] => q2 = q
        BY <4>1, <3>2, <2>3 DEF IndexSound
      <4>6. QED
        BY <4>1, <4>2, <4>3, <4>4, <4>5 DEF IndexSound
    <3>3. QED
      BY <3>1, <3>2
  <2>7. QED
    BY <2>5, <2>6 DEF IndexSound
<1>5. ReservedMatchesIndex'
  <2>1. /\ IsFiniteSet(members[p])
        /\ Cardinality(members[p]) \in Nat
    BY IndexFinite
  <2>2. Cardinality(members[p] \cup {r}) = Cardinality(members[p]) + 1
    BY <2>1, <1>3, FS_AddElement
  <2> DEFINE n == Cardinality(members[p])
  <2>3. n \in Nat
    BY <2>1
  <2> HIDE DEF n
  <2>4. Amount * (n + 1) = Amount * n + Amount
    BY <2>3, TimesAmount
  <2>5. reserved[p] + Amount = Amount * Cardinality(members[p] \cup {r})
    BY <2>2, <2>4 DEF n, ReservedMatchesIndex
  <2>6. QED
    BY <2>5 DEF ReservedMatchesIndex, Reserve, TypeOK
<1>6. QED
  BY <1>2, <1>4, <1>5

LEMMA SettleRefundPreserves ==
    ASSUME LedgerInv, NEW p \in Pools, NEW r \in Reservations, SettleRefund(p, r)
    PROVE  LedgerInv'
<1>1. holder[r] = p /\ Close(p, r) /\ reserveSequence' = reserveSequence
  BY DEF SettleRefund
<1>2. TypeOK'
  BY <1>1, ClosePreserves, LedgerAmount DEF LedgerInv, TypeOK, SettleRefund, Refunded
<1>3. QED
  BY <1>1, <1>2, ClosePreserves DEF LedgerInv

LEMMA SettleCooldownPreserves ==
    ASSUME LedgerInv, NEW p \in Pools, NEW r \in Reservations, NEW until \in Nat,
           SettleCooldown(p, r, until)
    PROVE  LedgerInv'
<1>1. holder[r] = p /\ Close(p, r) /\ reserveSequence' = reserveSequence
  BY DEF SettleCooldown
<1>2. TypeOK'
  BY <1>1, ClosePreserves, LedgerAmount DEF LedgerInv, TypeOK, SettleCooldown, Refunded
<1>3. QED
  BY <1>1, <1>2, ClosePreserves DEF LedgerInv

LEMMA SettleDisabledPreserves ==
    ASSUME LedgerInv, NEW p \in Pools, NEW r \in Reservations, SettleDisabled(p, r)
    PROVE  LedgerInv'
<1>1. holder[r] = p /\ Close(p, r) /\ reserveSequence' = reserveSequence
  BY DEF SettleDisabled
<1>2. TypeOK'
  BY <1>1, ClosePreserves DEF LedgerInv, TypeOK, SettleDisabled
<1>3. QED
  BY <1>1, <1>2, ClosePreserves DEF LedgerInv

LEMMA SettleActualUsagePreserves ==
    ASSUME LedgerInv, NEW p \in Pools, NEW r \in Reservations, NEW actual \in Nat,
           SettleActualUsage(p, r, actual)
    PROVE  LedgerInv'
<1>1. holder[r] = p /\ Close(p, r) /\ reserveSequence' = reserveSequence
  BY DEF SettleActualUsage
<1>2. credits' \in [Pools -> Nat]
  BY LedgerAmount
     DEF LedgerInv, TypeOK, SettleActualUsage, LesserOf, AtLeastZero
<1>3. TypeOK'
  BY <1>1, <1>2, ClosePreserves DEF LedgerInv, TypeOK, SettleActualUsage
<1>4. QED
  BY <1>1, <1>3, ClosePreserves DEF LedgerInv

(***************************************************************************)
(* A reconcile keeps the pending part of the index and nothing else.       *)
(***************************************************************************)
LEMMA ReconcilePreserves ==
    ASSUME LedgerInv, NEW f \in Refreshes, NEW reading \in Nat, Reconcile(f, reading)
    PROVE  LedgerInv'
<1> USE DEF LedgerInv
<1> DEFINE p == refresh[f].pool
           pending == Pending(p, refresh[f].sequence)
<1>1. p \in Pools
  BY RunningRefresh DEF Reconcile
<1>2. /\ pending \subseteq members[p]
      /\ Cardinality(pending) \in Nat
      /\ Amount * Cardinality(pending) \in Nat
  BY <1>1, PendingFacts, TimesAmount
<1>3. /\ credits' = [credits EXCEPT ![p] = AtLeastZero(reading - Amount * Cardinality(pending))]
      /\ reserved' = [reserved EXCEPT ![p] = Amount * Cardinality(pending)]
      /\ members' = [members EXCEPT ![p] = pending]
      /\ ticket' = [s \in Reservations |-> IF s \in members[p] \ pending THEN 0 ELSE ticket[s]]
      /\ UNCHANGED <<reserveSequence, holder, now, losses>>
  BY DEF Reconcile
<1>4. \A s \in members[p] : Open(s) /\ ticket[s] > refresh[f].sequence <=> s \in pending
  BY DEF Pending
<1> HIDE DEF pending
<1>5. TypeOK'
  BY <1>1, <1>2, <1>3 DEF TypeOK, Reconcile, AtLeastZero
<1>6. IndexSound'
  <2>1. \A q \in Pools : members'[q] = IF q = p THEN pending ELSE members[q]
    BY <1>3 DEF TypeOK
  <2>2. \A s \in Reservations : Open(s)' => Open(s) /\ ticket'[s] = ticket[s]
                                          /\ s \notin members[p] \ pending
    BY <1>3 DEF Open
  <2>3. \A s \in Reservations : Open(s)' => \E q \in Pools : s \in members'[q]
    BY <2>1, <2>2, <1>1 DEF IndexSound
  <2>4. ASSUME NEW q \in Pools, NEW s \in members'[q]
        PROVE  /\ holder'[s] # Fresh
               /\ holder'[s] \in Pools => holder'[s] = q
               /\ ticket'[s] <= reserveSequence'[q]
               /\ \A q2 \in Pools : s \in members'[q2] => q2 = q
               /\ \A t \in members'[q] : Open(s)' /\ ticket'[t] = ticket'[s] => t = s
    <3>1. s \in members[q] /\ s \in Reservations
      BY <2>1, <2>4, <1>2 DEF TypeOK
    <3>2. ticket'[s] \in {0, ticket[s]}
      BY <3>1, <1>3
    <3>3. ticket'[s] <= reserveSequence'[q]
      BY <3>1, <3>2, <1>3 DEF IndexSound, TypeOK
    <3>4. \A q2 \in Pools : s \in members'[q2] => q2 = q
      BY <3>1, <2>1, <1>2 DEF IndexSound
    <3>5. \A t \in members'[q] : t \in members[q] /\ t \in Reservations
      BY <2>1, <1>2 DEF TypeOK
    <3>6. \A t \in members'[q] : ticket'[t] = ticket[t]
      BY <3>5, <2>1, <1>1, <1>2, <1>3 DEF IndexSound
    <3>7. \A t \in members'[q] : Open(s)' /\ ticket'[t] = ticket'[s] => t = s
      BY <3>1, <3>5, <3>6, <2>2, <2>4 DEF IndexSound
    <3>8. QED
      BY <3>1, <3>3, <3>4, <3>7, <1>3 DEF IndexSound
  <2>5. QED
    BY <2>3, <2>4 DEF IndexSound
<1>7. ReservedMatchesIndex'
  BY <1>1, <1>3 DEF ReservedMatchesIndex, TypeOK
<1>8. QED
  BY <1>5, <1>6, <1>7

(* A lost store is an empty one. *)
LEMMA LoseDataPreserves ==
    ASSUME LedgerInv, LoseData
    PROVE  LedgerInv'
<1> USE DEF LedgerInv
<1>1. TypeOK'
  BY DEF TypeOK, LoseData
<1>2. IndexSound'
  BY DEF IndexSound, LoseData, Open
<1>3. ReservedMatchesIndex'
  <2>1. Cardinality({}) = 0 /\ Amount * 0 = 0
    BY FS_EmptySet, LedgerAmount
  <2>2. QED
    BY <2>1 DEF ReservedMatchesIndex, LoseData
<1>4. QED
  BY <1>1, <1>2, <1>3

(* An expired hash leaves the counter and the index as they are. *)
LEMMA ExpirePreserves ==
    ASSUME LedgerInv, NEW r \in Reservations, Expire(r)
    PROVE  LedgerInv'
<1> USE DEF LedgerInv
<1>1. TypeOK'
  BY DEF TypeOK, Expire, poolVars
<1>2. IndexSound'
  BY DEF IndexSound, TypeOK, Expire, Open, poolVars
<1>3. ReservedMatchesIndex'
  BY DEF ReservedMatchesIndex, Expire, poolVars
<1>4. QED
  BY <1>1, <1>2, <1>3

LEMMA LeaveReservedPreserves ==
    ASSUME LedgerInv, NEW r \in Reservations, LeaveReserved(r)
    PROVE  LedgerInv'
<1> USE DEF LedgerInv
<1>1. TypeOK'
  BY DEF TypeOK, LeaveReserved, poolVars
<1>2. IndexSound'
  BY LedgerHolders DEF IndexSound, TypeOK, LeaveReserved, Open, poolVars
<1>3. ReservedMatchesIndex'
  BY DEF ReservedMatchesIndex, LeaveReserved, poolVars
<1>4. QED
  BY <1>1, <1>2, <1>3

(* Capturing and abandoning touch the refresh only. *)
LEMMA RefreshStartsAndStops ==
    ASSUME LedgerInv, NEW f \in Refreshes,
           Abandon(f) \/ \E p \in Pools : Capture(f, p)
    PROVE  LedgerInv'
<1> USE DEF LedgerInv
<1>1. TypeOK'
  <2>1. CASE Abandon(f)
    BY <2>1 DEF TypeOK, Abandon, poolVars
  <2>2. ASSUME NEW p \in Pools, Capture(f, p)
        PROVE  TypeOK'
    <3>1. [pool |-> p, sequence |-> reserveSequence[p], epoch |-> losses,
           known |-> {r \in members[p] : Open(r)}] \in RefreshRecord
      BY DEF RefreshRecord, TypeOK
    <3>2. QED
      BY <2>2, <3>1 DEF TypeOK, Capture, poolVars
  <2>3. QED
    BY <2>1, <2>2
<1>2. UNCHANGED <<poolVars, ticket, members, holder>>
  BY DEF Abandon, Capture
<1>3. IndexSound' /\ ReservedMatchesIndex'
  BY <1>2 DEF IndexSound, ReservedMatchesIndex, Open, poolVars
<1>4. QED
  BY <1>1, <1>3

LEMMA InitLedgerInv ==
    ASSUME Init
    PROVE  LedgerInv
<1>1. TypeOK
  BY DEF Init, TypeOK
<1>2. IndexSound
  BY DEF Init, IndexSound, Open
<1>3. ReservedMatchesIndex
  <2>1. Cardinality({}) = 0 /\ Amount * 0 = 0
    BY FS_EmptySet, LedgerAmount
  <2>2. QED
    BY <2>1 DEF Init, ReservedMatchesIndex
<1>4. QED
  BY <1>1, <1>2, <1>3 DEF LedgerInv

LEMMA StepLedgerInv ==
    ASSUME LedgerInv, [Next]_vars
    PROVE  LedgerInv'
<1>1. CASE Next
  <2>1. ASSUME NEW C \in SUBSET Pools, NEW p \in Pools, NEW r \in Reservations, Reserve(C, p, r)
        PROVE  LedgerInv'
    BY <2>1, ReservePreserves
  <2>2. ASSUME NEW p \in Pools, NEW r \in Reservations, SettleRefund(p, r)
        PROVE  LedgerInv'
    BY <2>2, SettleRefundPreserves
  <2>3. ASSUME NEW p \in Pools, NEW r \in Reservations, NEW sent \in 0..now,
               SettleCooldown(p, r, sent + Cooldown)
        PROVE  LedgerInv'
    <3>1. sent + Cooldown \in Nat
      BY LedgerBounds DEF LedgerInv, TypeOK
    <3>2. QED
      BY <2>3, <3>1, SettleCooldownPreserves
  <2>4. ASSUME NEW p \in Pools, NEW r \in Reservations, SettleDisabled(p, r)
        PROVE  LedgerInv'
    BY <2>4, SettleDisabledPreserves
  <2>5. ASSUME NEW p \in Pools, NEW r \in Reservations, NEW actual \in 0..MaxActual,
               SettleActualUsage(p, r, actual)
        PROVE  LedgerInv'
    <3>1. actual \in Nat
      BY LedgerBounds
    <3>2. QED
      BY <2>5, <3>1, SettleActualUsagePreserves
  <2>6. ASSUME NEW f \in Refreshes, NEW reading \in 0..MaxReading, Reconcile(f, reading)
        PROVE  LedgerInv'
    <3>1. reading \in Nat
      BY LedgerBounds
    <3>2. QED
      BY <2>6, <3>1, ReconcilePreserves
  <2>7. ASSUME NEW f \in Refreshes, Abandon(f) \/ \E p \in Pools : Capture(f, p)
        PROVE  LedgerInv'
    BY <2>7, RefreshStartsAndStops
  <2>8. ASSUME NEW r \in Reservations, LeaveReserved(r)
        PROVE  LedgerInv'
    BY <2>8, LeaveReservedPreserves
  <2>9. ASSUME NEW r \in Reservations, Expire(r)
        PROVE  LedgerInv'
    BY <2>9, ExpirePreserves
  <2>10. CASE LoseData
    BY <2>10, LoseDataPreserves
  <2>11. CASE Tick
    BY <2>11 DEF LedgerInv, TypeOK, IndexSound, ReservedMatchesIndex, Open, Tick, poolVars
  <2>12. QED
    BY <1>1, <2>1, <2>2, <2>3, <2>4, <2>5, <2>6, <2>7, <2>8, <2>9, <2>10, <2>11, NextCases
<1>2. CASE UNCHANGED vars
  BY <1>2 DEF LedgerInv, TypeOK, IndexSound, ReservedMatchesIndex, Open, vars, poolVars
<1>3. QED
  BY <1>1, <1>2

LEMMA LedgerInvariant == Spec => []LedgerInv
<1>1. Init => LedgerInv
  BY InitLedgerInv
<1>2. LedgerInv /\ [Next]_vars => LedgerInv'
  BY StepLedgerInv
<1>3. QED
  BY <1>1, <1>2, PTL DEF Spec

(* Every reachable state is well typed; credits and reserved never go      *)
(* below zero, whatever order settlements, expiries and refreshes come in. *)
THEOREM TypeCorrect == Spec => []TypeOK
<1>1. LedgerInv => TypeOK
  BY DEF LedgerInv
<1>2. QED
  BY <1>1, LedgerInvariant, PTL

(* Hashes, index and sequence numbers agree in every reachable state. *)
THEOREM IndexCorrect == Spec => []IndexSound
<1>1. LedgerInv => IndexSound
  BY DEF LedgerInv
<1>2. QED
  BY <1>1, LedgerInvariant, PTL

(* The reserved counter is worth exactly the indexed reservations. *)
THEOREM ReservedCorrect == Spec => []ReservedMatchesIndex
<1>1. LedgerInv => ReservedMatchesIndex
  BY DEF LedgerInv
<1>2. QED
  BY <1>1, LedgerInvariant, PTL

(***************************************************************************)
(* The fence.  FenceSound is not inductive: a refresh must also not be     *)
(* ahead of the pool's sequence, and must not know a key yet to be drawn.  *)
(***************************************************************************)
FenceHolds(f) ==
    LET p == refresh[f].pool
    IN  /\ refresh[f].sequence <= reserveSequence[p]
        /\ \A r \in refresh[f].known : holder[r] # Fresh
        /\ \A r \in members[p] :
              Open(r) => (ticket[r] <= refresh[f].sequence <=> r \in refresh[f].known)

FenceInv ==
    \A f \in Refreshes : Running(f) =>
        /\ refresh[f].epoch <= losses
        /\ refresh[f].epoch = losses => FenceHolds(f)

(* Every action but Reserve, Capture and LoseData only takes reservations *)
(* out of the index and refreshes out of flight.                          *)
OnlyShrinks ==
    /\ UNCHANGED <<losses, reserveSequence>>
    /\ \A p \in Pools : members'[p] \subseteq members[p]
    /\ \A r \in Reservations :
          /\ ticket'[r] \in {0, ticket[r]}
          /\ holder'[r] = Fresh => holder[r] = Fresh
    /\ \A f \in Refreshes : refresh'[f] \in {refresh[f], Idle}

LEMMA ShrinkPreservesFence ==
    ASSUME TypeOK, FenceInv, OnlyShrinks
    PROVE  FenceInv'
<1> SUFFICES ASSUME NEW f \in Refreshes, Running(f)'
             PROVE  /\ refresh'[f].epoch <= losses'
                    /\ refresh'[f].epoch = losses' => FenceHolds(f)'
  BY DEF FenceInv
<1>1. refresh'[f] = refresh[f] /\ Running(f)
  BY DEF OnlyShrinks, Running
<1>2. refresh[f].epoch <= losses /\ (refresh[f].epoch = losses => FenceHolds(f))
  BY <1>1 DEF FenceInv
<1>3. refresh[f].pool \in Pools /\ refresh[f].known \in SUBSET Reservations
  BY <1>1, RunningRefresh
<1>4. ASSUME FenceHolds(f)
      PROVE  FenceHolds(f)'
  <2>1. \A r \in members'[refresh[f].pool] :
           Open(r)' => r \in members[refresh[f].pool] /\ Open(r) /\ ticket'[r] = ticket[r]
    BY <1>3 DEF OnlyShrinks, Open, TypeOK
  <2>2. \A r \in refresh[f].known : holder'[r] # Fresh
    BY <1>3, <1>4 DEF OnlyShrinks, FenceHolds
  <2>3. QED
    BY <1>1, <1>4, <2>1, <2>2 DEF OnlyShrinks, FenceHolds
<1>5. QED
  BY <1>1, <1>2, <1>4 DEF OnlyShrinks

(* A reservation made after a capture lies beyond the captured sequence. *)
LEMMA ReservePreservesFence ==
    ASSUME LedgerInv, FenceInv, NEW C \in SUBSET Pools, NEW p \in Pools,
           NEW r \in Reservations, Reserve(C, p, r)
    PROVE  FenceInv'
<1> USE DEF LedgerInv
<1> SUFFICES ASSUME NEW f \in Refreshes, Running(f)'
             PROVE  /\ refresh'[f].epoch <= losses'
                    /\ refresh'[f].epoch = losses' => FenceHolds(f)'
  BY DEF FenceInv
<1>1. refresh'[f] = refresh[f] /\ Running(f) /\ losses' = losses
  BY DEF Reserve, Running
<1>2. refresh[f].epoch <= losses /\ (refresh[f].epoch = losses => FenceHolds(f))
  BY <1>1 DEF FenceInv
<1> DEFINE q == refresh[f].pool
<1>3. q \in Pools /\ refresh[f].known \in SUBSET Reservations /\ refresh[f].sequence \in Nat
  BY <1>1, RunningRefresh
<1>4. ASSUME FenceHolds(f)
      PROVE  FenceHolds(f)'
  <2>1. r \notin refresh[f].known
    BY <1>4 DEF FenceHolds, Reserve
  <2>2. \A s \in Reservations : s # r => ticket'[s] = ticket[s] /\ holder'[s] = holder[s]
    BY DEF Reserve, TypeOK
  <2>3. ticket'[r] = reserveSequence[p] + 1 /\ holder'[r] = p
    BY DEF Reserve, TypeOK
  <2>4. members'[q] = IF q = p THEN members[p] \cup {r} ELSE members[q]
    BY <1>3 DEF Reserve, TypeOK
  <2>5. refresh[f].sequence <= reserveSequence'[q]
    BY <1>3, <1>4 DEF FenceHolds, Reserve, TypeOK
  <2>6. \A s \in refresh[f].known : holder'[s] # Fresh
    BY <1>3, <1>4, <2>1, <2>2 DEF FenceHolds
  <2>7. ASSUME NEW s \in members'[q], Open(s)'
        PROVE  ticket'[s] <= refresh[f].sequence <=> s \in refresh[f].known
    <3>1. CASE s = r
      <4>1. q = p
        BY <3>1, <1>3, <2>4, <2>7 DEF Reserve, IndexSound
      <4>2. ~(ticket'[r] <= refresh[f].sequence)
        BY <4>1, <1>3, <1>4, <2>3 DEF FenceHolds, TypeOK
      <4>3. QED
        BY <3>1, <4>2, <2>1
    <3>2. CASE s # r
      <4>1. s \in members[q] /\ s \in Reservations
        BY <3>2, <2>4, <2>7, <1>3 DEF TypeOK
      <4>2. QED
        BY <4>1, <3>2, <2>2, <2>7, <1>4 DEF FenceHolds, Open
    <3>3. QED
      BY <3>1, <3>2
  <2>8. QED
    BY <1>1, <2>5, <2>6, <2>7 DEF FenceHolds
<1>5. QED
  BY <1>1, <1>2, <1>4

LEMMA CapturePreservesFence ==
    ASSUME LedgerInv, FenceInv, NEW g \in Refreshes, NEW p \in Pools, Capture(g, p)
    PROVE  FenceInv'
<1> USE DEF LedgerInv
<1> SUFFICES ASSUME NEW f \in Refreshes, Running(f)'
             PROVE  /\ refresh'[f].epoch <= losses'
                    /\ refresh'[f].epoch = losses' => FenceHolds(f)'
  BY DEF FenceInv
<1>1. UNCHANGED <<reserveSequence, ticket, members, holder, losses>>
  BY DEF Capture, poolVars
<1>2. CASE f = g
  <2>1. refresh'[f] = [pool |-> p, sequence |-> reserveSequence[p], epoch |-> losses,
                       known |-> {r \in members[p] : Open(r)}]
    BY <1>2 DEF Capture, TypeOK
  <2>2. FenceHolds(f)'
    BY <1>1, <2>1 DEF FenceHolds, Open, IndexSound, TypeOK
  <2>3. QED
    BY <1>1, <2>1, <2>2 DEF TypeOK
<1>3. CASE f # g
  <2>1. refresh'[f] = refresh[f] /\ Running(f)
    BY <1>3 DEF Capture, TypeOK, Running
  <2>2. QED
    BY <1>1, <2>1 DEF FenceInv, FenceHolds, Open
<1>4. QED
  BY <1>2, <1>3

LEMMA LoseDataPreservesFence ==
    ASSUME TypeOK, FenceInv, LoseData
    PROVE  FenceInv'
<1>1. ASSUME NEW f \in Refreshes, Running(f)'
      PROVE  refresh'[f].epoch <= losses' /\ refresh'[f].epoch # losses'
  <2>1. refresh'[f] = refresh[f] /\ Running(f) /\ losses' = losses + 1
    BY <1>1 DEF LoseData, Running
  <2>2. refresh[f].epoch \in Nat /\ refresh[f].epoch <= losses
    BY <2>1, RunningRefresh DEF FenceInv
  <2>3. QED
    BY <2>1, <2>2 DEF TypeOK
<1>2. QED
  BY <1>1 DEF FenceInv

LEMMA StepFenceInv ==
    ASSUME LedgerInv, FenceInv, [Next]_vars
    PROVE  FenceInv'
<1> USE DEF LedgerInv
<1>1. ASSUME NEW p \in Pools, NEW r \in Reservations, Close(p, r),
             UNCHANGED <<losses, reserveSequence, refresh>>
      PROVE  OnlyShrinks
  BY <1>1, LedgerHolders DEF OnlyShrinks, Close, TypeOK
<1>2. CASE Next
  <2>1. ASSUME NEW C \in SUBSET Pools, NEW p \in Pools, NEW r \in Reservations, Reserve(C, p, r)
        PROVE  FenceInv'
    BY <2>1, ReservePreservesFence
  <2>2. ASSUME NEW p \in Pools, NEW r \in Reservations, SettleRefund(p, r)
        PROVE  OnlyShrinks
    BY <2>2, <1>1 DEF SettleRefund
  <2>3. ASSUME NEW p \in Pools, NEW r \in Reservations, NEW sent \in 0..now,
               SettleCooldown(p, r, sent + Cooldown)
        PROVE  OnlyShrinks
    BY <2>3, <1>1 DEF SettleCooldown
  <2>4. ASSUME NEW p \in Pools, NEW r \in Reservations, SettleDisabled(p, r)
        PROVE  OnlyShrinks
    BY <2>4, <1>1 DEF SettleDisabled
  <2>5. ASSUME NEW p \in Pools, NEW r \in Reservations, NEW actual \in 0..MaxActual,
               SettleActualUsage(p, r, actual)
        PROVE  OnlyShrinks
    BY <2>5, <1>1 DEF SettleActualUsage
  <2>6. ASSUME NEW f \in Refreshes, NEW reading \in 0..MaxReading, Reconcile(f, reading)
        PROVE  OnlyShrinks
    <3>1. refresh[f].pool \in Pools
      BY <2>6, RunningRefresh DEF Reconcile
    <3>2. \A p \in Pools : members'[p] \subseteq members[p]
      BY <2>6, <3>1 DEF Reconcile, Pending, TypeOK
    <3>3. \A r \in Reservations : ticket'[r] \in {0, ticket[r]}
      BY <2>6 DEF Reconcile
    <3>4. UNCHANGED <<losses, reserveSequence, holder>>
      BY <2>6 DEF Reconcile
    <3>5. \A g \in Refreshes : refresh'[g] \in {refresh[g], Idle}
      BY <2>6 DEF Reconcile, TypeOK
    <3>6. QED
      BY <3>2, <3>3, <3>4, <3>5 DEF OnlyShrinks
  <2>7. ASSUME NEW f \in Refreshes, NEW p \in Pools, Capture(f, p)
        PROVE  FenceInv'
    BY <2>7, CapturePreservesFence
  <2>8. ASSUME NEW f \in Refreshes, Abandon(f)
        PROVE  OnlyShrinks
    BY <2>8 DEF Abandon, OnlyShrinks, TypeOK, poolVars
  <2>9. ASSUME NEW r \in Reservations, LeaveReserved(r)
        PROVE  OnlyShrinks
    BY <2>9, LedgerHolders DEF LeaveReserved, OnlyShrinks, TypeOK, poolVars
  <2>10. ASSUME NEW r \in Reservations, Expire(r)
         PROVE  OnlyShrinks
    BY <2>10 DEF Expire, OnlyShrinks, TypeOK, poolVars
  <2>11. CASE LoseData
    BY <2>11, LoseDataPreservesFence
  <2>12. CASE Tick
    BY <2>12 DEF FenceInv, FenceHolds, Open, Running, Tick, poolVars
  <2>13. QED
    BY <1>2, <2>1, <2>2, <2>3, <2>4, <2>5, <2>6, <2>7, <2>8, <2>9, <2>10, <2>11, <2>12,
       NextCases, ShrinkPreservesFence
<1>3. CASE UNCHANGED vars
  BY <1>3 DEF FenceInv, FenceHolds, Open, Running, vars, poolVars
<1>4. QED
  BY <1>2, <1>3

LEMMA FenceInvariant == Spec => []FenceInv
<1>1. Init => FenceInv
  BY DEF Init, FenceInv, Running
<1>2. LedgerInv /\ FenceInv /\ [Next]_vars => FenceInv'
  BY StepFenceInv
<1>3. QED
  BY <1>1, <1>2, LedgerInvariant, PTL DEF Spec

(* The captured sequence tells old reservations from new ones, however     *)
(* many refreshes, settlements and expiries run between capture and        *)
(* reconcile.                                                              *)
THEOREM FenceCorrect == Spec => []FenceSound
<1>1. FenceInv => FenceSound
  BY DEF FenceInv, FenceSound, FenceHolds
<1>2. QED
  BY <1>1, FenceInvariant, PTL

(* No refresh, when it completes, forgets a promise made after its capture. *)
THEOREM NewerKept == Spec => NewerReservationsKept
<1> DEFINE Kept ==
      \A f \in Refreshes :
         Running(f) /\ ~Running(f)' /\ refresh[f].epoch = losses =>
            \A r \in members[refresh[f].pool] \ refresh[f].known :
                Open(r) => Open(r)' /\ r \in members'[refresh[f].pool]
<1>1. LedgerInv /\ FenceInv /\ [Next]_vars => [Kept]_vars
  <2> SUFFICES ASSUME LedgerInv, FenceInv, [Next]_vars,
                      NEW f \in Refreshes, Running(f), ~Running(f)', refresh[f].epoch = losses,
                      NEW r \in members[refresh[f].pool] \ refresh[f].known, Open(r)
               PROVE  Open(r)' /\ r \in members'[refresh[f].pool]
    OBVIOUS
  <2> USE DEF LedgerInv
  <2>1. refresh[f].pool \in Pools /\ r \in Reservations
    BY RunningRefresh DEF TypeOK
  <2>2. ticket[r] > refresh[f].sequence
    <3>1. ~(ticket[r] <= refresh[f].sequence)
      BY DEF FenceInv, FenceHolds
    <3>2. ticket[r] \in Nat /\ refresh[f].sequence \in Nat
      BY <2>1, RunningRefresh DEF TypeOK
    <3>3. QED
      BY <3>1, <3>2
  <2>3. refresh' # refresh /\ Next
    BY DEF Running, vars
  <2>4. \E g \in Refreshes :
           \/ \E reading \in 0..MaxReading : Reconcile(g, reading)
           \/ \E p \in Pools : Capture(g, p)
           \/ Abandon(g)
    BY <2>3 DEF Next, Request, Refresh, Environment, Reserve, SettleRefund, SettleCooldown,
                SettleDisabled, SettleActualUsage, LeaveReserved, Expire, LoseData, Tick
  <2>5. ASSUME NEW g \in Refreshes, NEW reading \in 0..MaxReading, Reconcile(g, reading)
        PROVE  Open(r)' /\ r \in members'[refresh[f].pool]
    <3>1. g = f
      BY <2>5 DEF Reconcile, Running, TypeOK
    <3>2. r \in Pending(refresh[f].pool, refresh[f].sequence)
      BY <2>2 DEF Pending
    <3>3. QED
      BY <2>1, <2>5, <3>1, <3>2 DEF Reconcile, TypeOK, Open
  <2>6. ASSUME NEW g \in Refreshes, Abandon(g) \/ \E p \in Pools : Capture(g, p)
        PROVE  Open(r)' /\ r \in members'[refresh[f].pool]
    BY <2>6 DEF Abandon, Capture, Open
  <2>7. QED
    BY <2>4, <2>5, <2>6
<1>2. QED
  BY <1>1, LedgerInvariant, FenceInvariant, PTL DEF Spec, NewerReservationsKept

(* Whoever writes a cooldown, a running one keeps its end: only a 429 with *)
(* a later end, a 402, or a loss of the data touches it.                   *)
THEOREM CooldownKept == Spec => CooldownNeverShortened
<1> DEFINE Kept ==
      \A p \in Pools :
         cooldownUntil[p] > now /\ losses' = losses =>
            \/ cooldownUntil'[p] >= cooldownUntil[p]
            \/ (disabled'[p] /\ UNCHANGED refresh)
<1>1. LedgerInv /\ [Next]_vars => [Kept]_vars
  <2> SUFFICES ASSUME LedgerInv, Next, NEW p \in Pools,
                      cooldownUntil[p] > now, losses' = losses
               PROVE  cooldownUntil'[p] >= cooldownUntil[p] \/ (disabled'[p] /\ UNCHANGED refresh)
    OBVIOUS
  <2>1. TypeOK
    BY DEF LedgerInv
  <2>2. cooldownUntil[p] \in Nat /\ now \in Nat /\ losses \in Nat
    BY <2>1 DEF TypeOK
  <2>3. ASSUME UNCHANGED cooldownUntil
        PROVE  cooldownUntil'[p] >= cooldownUntil[p]
    BY <2>2, <2>3
  <2>4. ASSUME NEW q \in Pools, NEW r \in Reservations, NEW sent \in 0..now,
               SettleCooldown(q, r, sent + Cooldown)
        PROVE  cooldownUntil'[p] >= cooldownUntil[p]
    <3>1. sent + Cooldown \in Nat
      BY <2>2, LedgerBounds
    <3>2. cooldownUntil'[p] \in {cooldownUntil[p], sent + Cooldown}
      BY <2>1, <2>4 DEF SettleCooldown, TypeOK
    <3>3. cooldownUntil'[p] # cooldownUntil[p] => sent + Cooldown > cooldownUntil[p]
      BY <2>1, <2>4 DEF SettleCooldown, TypeOK
    <3>4. QED
      BY <2>2, <3>1, <3>2, <3>3
  <2>5. ASSUME NEW q \in Pools, NEW r \in Reservations, SettleDisabled(q, r)
        PROVE  cooldownUntil'[p] >= cooldownUntil[p] \/ (disabled'[p] /\ UNCHANGED refresh)
    <3>1. CASE p = q
      BY <2>1, <2>5, <3>1 DEF SettleDisabled, TypeOK
    <3>2. CASE p # q
      BY <2>1, <2>2, <2>5, <3>2 DEF SettleDisabled, TypeOK
    <3>3. UNCHANGED refresh
      BY <2>5 DEF SettleDisabled
    <3>4. QED
      BY <3>1, <3>2, <3>3
  <2>6. ASSUME NEW f \in Refreshes, NEW reading \in 0..MaxReading, Reconcile(f, reading)
        PROVE  cooldownUntil'[p] >= cooldownUntil[p]
    BY <2>1, <2>2, <2>6 DEF Reconcile, TypeOK
  <2>7. ~LoseData
    BY <2>2 DEF LoseData
  <2>8. UNCHANGED cooldownUntil
        \/ (\E q \in Pools, r \in Reservations, sent \in 0..now :
               SettleCooldown(q, r, sent + Cooldown))
        \/ (\E q \in Pools, r \in Reservations : SettleDisabled(q, r))
        \/ (\E f \in Refreshes, reading \in 0..MaxReading : Reconcile(f, reading))
    BY <2>7 DEF Next, Request, Refresh, Environment, Reserve, SettleRefund, SettleActualUsage,
                LeaveReserved, Capture, Abandon, Expire, Tick, poolVars
  <2>9. QED
    BY <2>3, <2>4, <2>5, <2>6, <2>8
<1>2. QED
  BY <1>1, LedgerInvariant, PTL DEF Spec, CooldownNeverShortened

(* Promises that nobody settles leave: the safety half of                  *)
(* LeakedReservationsReturn.  Once its hash has expired an indexed         *)
(* reservation is not revived, whoever is served meanwhile, and the next   *)
(* reading of its pool takes it out of the index.                          *)
THEOREM ExpiredPromisesLeave ==
    Spec => [][\A p \in Pools : \A r \in members[p] :
                  ~Open(r) =>
                     /\ r \in members'[p] => ~Open(r)'
                     /\ \A f \in Refreshes, reading \in 0..MaxReading :
                           Reconcile(f, reading) /\ refresh[f].pool = p =>
                              r \notin members'[p]]_vars
<1> DEFINE Leaves ==
      \A p \in Pools : \A r \in members[p] :
         ~Open(r) =>
            /\ r \in members'[p] => ~Open(r)'
            /\ \A f \in Refreshes, reading \in 0..MaxReading :
                  Reconcile(f, reading) /\ refresh[f].pool = p => r \notin members'[p]
<1>1. LedgerInv /\ [Next]_vars => [Leaves]_vars
  <2> SUFFICES ASSUME LedgerInv, Next, NEW p \in Pools, NEW r \in members[p], ~Open(r)
               PROVE  /\ ~Open(r)'
                      /\ \A f \in Refreshes, reading \in 0..MaxReading :
                            Reconcile(f, reading) /\ refresh[f].pool = p => r \notin members'[p]
    OBVIOUS
  <2>1. /\ TypeOK
        /\ r \in Reservations /\ holder[r] # Fresh /\ ticket[r] = 0
    BY DEF LedgerInv, TypeOK, IndexSound, Open
  <2>2. ASSUME NEW C \in SUBSET Pools, NEW q \in Pools, NEW s \in Reservations, Reserve(C, q, s)
        PROVE  ~Open(r)'
    BY <2>1, <2>2 DEF Reserve, Open, TypeOK
  <2>3. ASSUME NEW q, NEW s, Close(q, s)
        PROVE  ~Open(r)'
    BY <2>1, <2>3 DEF Close, Open, TypeOK
  <2>4. ASSUME NEW f \in Refreshes, NEW reading \in 0..MaxReading, Reconcile(f, reading)
        PROVE  ~Open(r)' /\ (refresh[f].pool = p => r \notin members'[p])
    BY <2>1, <2>4 DEF Reconcile, Pending, Open, TypeOK
  <2>5. ASSUME NEW s \in Reservations, Expire(s)
        PROVE  ~Open(r)'
    BY <2>1, <2>5 DEF Expire, Open, TypeOK
  <2>6. CASE LoseData
    BY <2>1, <2>6 DEF LoseData, Open
  <2>7. ASSUME UNCHANGED ticket
        PROVE  ~Open(r)'
    BY <2>7 DEF Open
  <2>8. ~Open(r)'
    <3>1. \/ \E C \in SUBSET Pools, q \in Pools, s \in Reservations : Reserve(C, q, s)
          \/ \E q, s : Close(q, s)
          \/ \E f \in Refreshes, reading \in 0..MaxReading : Reconcile(f, reading)
          \/ \E s \in Reservations : Expire(s)
          \/ LoseData
          \/ UNCHANGED ticket
      BY NextCases DEF SettleRefund, SettleCooldown, SettleDisabled, SettleActualUsage, Capture,
                       Abandon, LeaveReserved, Tick
    <3>2. QED
      BY <2>2, <2>3, <2>4, <2>5, <2>6, <2>7, <3>1
  <2>9. QED
    BY <2>4, <2>8
<1>2. QED
  BY <1>1, LedgerInvariant, PTL DEF Spec

-----------------------------------------------------------------------------
(***************************************************************************)
(* The ledger's scripts implement the credit budget: a machine-checked     *)
(* refinement.  Reserve is a Hold, the four settlements of an open         *)
(* reservation resolve it (a 402 withdraws the pool), Reconcile is a       *)
(* Refill, losing the data is a Wipe, and everything else is invisible.    *)
(***************************************************************************)
BudgetVars == <<credits, reserved>>

LEMMA BudgetInit ==
    ASSUME Init
    PROVE  Budget!Init
  BY DEF Init, Budget!Init

LEMMA ReserveHolds ==
    ASSUME LedgerInv, NEW C \in SUBSET Pools, NEW p \in Pools, NEW r \in Reservations,
           Reserve(C, p, r)
    PROVE  Budget!Hold(p)
<1>1. credits[p] >= Amount
  BY SelectedCovers DEF Reserve
<1>2. QED
  BY <1>1 DEF LedgerInv, TypeOK, Reserve, Budget!Hold, Budget!Elsewhere

(* A settlement that finds its reservation closed changes no balance. *)
LEMMA ClosedIsInvisible ==
    ASSUME NEW p, NEW r, Close(p, r), ~Open(r)
    PROVE  reserved' = reserved
  BY DEF Close

LEMMA SettleResolves ==
    ASSUME LedgerInv, NEW p \in Pools, NEW r \in Reservations,
           holder[r] = p, Close(p, r), Open(r),
           NEW back \in Int, back <= Amount, credits[p] + back >= 0,
           credits' = [credits EXCEPT ![p] = @ + back]
    PROVE  Budget!Resolve(p)
<1>1. reserved[p] >= Amount
  BY HeldIsCounted
<1>2. reserved' = [reserved EXCEPT ![p] = @ - Amount]
  BY DEF Close
<1>3. QED
  BY <1>1, <1>2, LedgerAmount
     DEF LedgerInv, TypeOK, Budget!Resolve, Budget!Elsewhere

LEMMA RefundResolves ==
    ASSUME LedgerInv, NEW p \in Pools, NEW r \in Reservations,
           holder[r] = p, Close(p, r), credits' = Refunded(p, r)
    PROVE  Budget!Resolve(p) \/ UNCHANGED BudgetVars
<1>1. CASE Open(r)
  <2>1. credits' = [credits EXCEPT ![p] = @ + Amount]
    BY <1>1 DEF Refunded
  <2>2. Amount \in Int /\ Amount <= Amount /\ credits[p] + Amount >= 0
    BY LedgerAmount DEF LedgerInv, TypeOK
  <2>3. QED
    BY <1>1, <2>1, <2>2, SettleResolves
<1>2. CASE ~Open(r)
  BY <1>2, ClosedIsInvisible DEF Refunded, BudgetVars
<1>3. QED
  BY <1>1, <1>2

LEMMA ActualUsageResolves ==
    ASSUME LedgerInv, NEW p \in Pools, NEW r \in Reservations, NEW actual \in Nat,
           SettleActualUsage(p, r, actual)
    PROVE  Budget!Resolve(p) \/ UNCHANGED BudgetVars
<1>1. holder[r] = p /\ Close(p, r)
  BY DEF SettleActualUsage
<1>2. CASE Open(r)
  <2> DEFINE delta == actual - Amount
             back == IF delta > 0 THEN 0 - LesserOf(delta, credits[p]) ELSE 0 - delta
  <2>1. credits[p] \in Nat /\ Amount \in Nat
    BY LedgerAmount DEF LedgerInv, TypeOK
  <2>2. back \in Int /\ back <= Amount /\ credits[p] + back >= 0
    BY <2>1 DEF LesserOf
  <2>3. credits' = [credits EXCEPT ![p] = @ + back]
    <3>1. AtLeastZero(credits[p]) = credits[p]
      BY <2>1 DEF AtLeastZero
    <3>2. CASE delta > 0
      <4>1. credits' = [credits EXCEPT ![p] = @ - LesserOf(delta, AtLeastZero(@))]
        BY <1>2, <3>2 DEF SettleActualUsage
      <4>2. credits[p] + back = credits[p] - LesserOf(delta, credits[p])
        BY <3>2, <2>1 DEF LesserOf
      <4>3. QED
        BY <4>1, <4>2, <3>1
    <3>3. CASE ~(delta > 0)
      <4>1. credits' = [credits EXCEPT ![p] = @ - delta]
        BY <1>2, <3>3 DEF SettleActualUsage
      <4>2. credits[p] + back = credits[p] - delta
        BY <3>3, <2>1
      <4>3. QED
        BY <4>1, <4>2
    <3>4. QED
      BY <3>2, <3>3
  <2> HIDE DEF back
  <2>4. QED
    BY <1>1, <1>2, <2>2, <2>3, SettleResolves
<1>3. CASE ~Open(r)
  BY <1>1, <1>3, ClosedIsInvisible DEF SettleActualUsage, BudgetVars
<1>4. QED
  BY <1>2, <1>3

LEMMA DisabledWithdraws ==
    ASSUME LedgerInv, NEW p \in Pools, NEW r \in Reservations, SettleDisabled(p, r)
    PROVE  Budget!Withdraw(p)
<1>1. holder[r] = p /\ Close(p, r) /\ credits' = [credits EXCEPT ![p] = 0]
  BY DEF SettleDisabled
<1>2. Open(r) => reserved[p] >= Amount
  BY <1>1, HeldIsCounted
<1>3. reserved' = IF Open(r) THEN [reserved EXCEPT ![p] = @ - Amount] ELSE reserved
  BY <1>1 DEF Close
<1>4. QED
  BY <1>1, <1>2, <1>3, LedgerAmount
     DEF LedgerInv, TypeOK, Budget!Withdraw, Budget!Elsewhere

LEMMA ReconcileRefills ==
    ASSUME LedgerInv, NEW f \in Refreshes, NEW reading \in 0..MaxReading,
           Reconcile(f, reading)
    PROVE  Budget!Refill(refresh[f].pool, reading)
<1> DEFINE p == refresh[f].pool
           outstanding == Amount * Cardinality(Pending(p, refresh[f].sequence))
<1>1. p \in Pools
  BY RunningRefresh DEF Reconcile, LedgerInv
<1>2. outstanding \in Nat /\ outstanding <= reserved[p]
  <2>1. /\ Cardinality(Pending(p, refresh[f].sequence)) \in Nat
        /\ Cardinality(members[p]) \in Nat
        /\ Cardinality(Pending(p, refresh[f].sequence)) <= Cardinality(members[p])
    BY <1>1, PendingFacts, IndexFinite DEF LedgerInv
  <2>2. reserved[p] = Amount * Cardinality(members[p])
    BY <1>1 DEF LedgerInv, ReservedMatchesIndex
  <2>3. QED
    BY <2>1, <2>2, TimesAmount, TimesAmountMonotone
<1>3. /\ credits' = [credits EXCEPT ![p] = AtLeastZero(reading - outstanding)]
      /\ reserved' = [reserved EXCEPT ![p] = outstanding]
  BY DEF Reconcile
<1> HIDE DEF outstanding
<1>4. reading \in Nat
  BY LedgerBounds
<1>5. QED
  BY <1>1, <1>2, <1>3, <1>4
     DEF LedgerInv, TypeOK, AtLeastZero, Budget!Refill, Budget!Elsewhere

LEMMA BudgetStep ==
    ASSUME LedgerInv, [Next]_vars
    PROVE  [Budget!Next]_BudgetVars
<1>1. CASE Next
  <2>1. ASSUME NEW C \in SUBSET Pools, NEW p \in Pools, NEW r \in Reservations, Reserve(C, p, r)
        PROVE  Budget!Next
    BY <2>1, ReserveHolds DEF Budget!Next
  <2>2. ASSUME NEW p \in Pools, NEW r \in Reservations, SettleRefund(p, r)
        PROVE  Budget!Next \/ UNCHANGED BudgetVars
    BY <2>2, RefundResolves DEF SettleRefund, Budget!Next
  <2>3. ASSUME NEW p \in Pools, NEW r \in Reservations, NEW sent \in 0..now,
               SettleCooldown(p, r, sent + Cooldown)
        PROVE  Budget!Next \/ UNCHANGED BudgetVars
    BY <2>3, RefundResolves DEF SettleCooldown, Budget!Next
  <2>4. ASSUME NEW p \in Pools, NEW r \in Reservations, SettleDisabled(p, r)
        PROVE  Budget!Next
    BY <2>4, DisabledWithdraws DEF Budget!Next
  <2>5. ASSUME NEW p \in Pools, NEW r \in Reservations, NEW actual \in 0..MaxActual,
               SettleActualUsage(p, r, actual)
        PROVE  Budget!Next \/ UNCHANGED BudgetVars
    <3>1. actual \in Nat
      BY LedgerBounds
    <3>2. QED
      BY <2>5, <3>1, ActualUsageResolves DEF Budget!Next
  <2>6. ASSUME NEW f \in Refreshes, NEW reading \in 0..MaxReading, Reconcile(f, reading)
        PROVE  Budget!Next
    <3>1. refresh[f].pool \in Pools
      BY <2>6, RunningRefresh DEF Reconcile, LedgerInv
    <3>2. QED
      BY <2>6, <3>1, ReconcileRefills DEF Budget!Next
  <2>7. CASE LoseData
    BY <2>7 DEF LoseData, Budget!Next, Budget!Wipe
  <2>8. ASSUME \/ \E f \in Refreshes, p \in Pools : Capture(f, p)
               \/ \E f \in Refreshes : Abandon(f)
               \/ \E r \in Reservations : LeaveReserved(r)
               \/ \E r \in Reservations : Expire(r)
               \/ Tick
        PROVE  UNCHANGED BudgetVars
    BY <2>8 DEF Capture, Abandon, LeaveReserved, Expire, Tick, poolVars, BudgetVars
  <2>9. QED
    BY <1>1, <2>1, <2>2, <2>3, <2>4, <2>5, <2>6, <2>7, <2>8, NextCases
<1>2. CASE UNCHANGED vars
  BY <1>2 DEF vars, poolVars, BudgetVars
<1>3. QED
  BY <1>1, <1>2

(* Nothing but a reading of the provider's counter ever adds to what a     *)
(* pool may promise and has promised: the five scripts, in any order,      *)
(* from any number of callers, implement the credit budget.                *)
THEOREM LedgerImplementsBudget == Spec => ImplementsBudget
<1>1. Init => Budget!Init
  BY BudgetInit
<1>2. LedgerInv /\ [Next]_vars => [Budget!Next]_(Budget!vars)
  BY BudgetStep DEF BudgetVars, Budget!vars
<1>3. QED
  BY <1>1, <1>2, LedgerInvariant, PTL DEF Spec, Budget!Spec, ImplementsBudget
=============================================================================
