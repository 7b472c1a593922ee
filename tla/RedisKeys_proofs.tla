-------------------------- MODULE RedisKeys_proofs ---------------------------
(***************************************************************************)
(* Proofs about what the processes share through Redis and about the maps  *)
(* that stand in for it, for any number of clients and keys, and any       *)
(* quota, cost, size and limit.                                            *)
(*   The quota: each client whose call was admitted and not yet charged    *)
(* holds a claim of one answer; the counter leaves room for them.          *)
(*   Reservations and the lock: both properties are inductive next to the  *)
(* types, as at most one handler can be the one that is stored.            *)
(*   The maps: taking out one place and putting a key at the end keep the  *)
(* entries in the order of the keys' last uses.  What a local write leaves *)
(* of a key is the new value, and nothing else of that key.                *)
(***************************************************************************)
EXTENDS AiQuota, IdempotencyKeys, DistributedLock, FallbackCache, FiniteSetTheorems,
        SequenceTheorems, TLAPS

-----------------------------------------------------------------------------
(* The tokens of a day's quota                                             *)

\* Clients with an admitted call that is still to be charged.
Claims == {c \in Callers : call[c].pc # "idle" /\ call[c].kind # "embed"}

QuotaInv ==
    /\ TypeOK
    /\ used + Cardinality(Claims) * MaxCost
          =< Tokens + Cardinality(Callers) * MaxCost + embedded
    /\ ~live => used = 0 /\ embedded = 0

-----------------------------------------------------------------------------
LEMMA ClaimsCounted ==
    /\ IsFiniteSet(Claims)
    /\ Cardinality(Claims) \in Nat /\ Cardinality(Callers) \in Nat
    /\ Cardinality(Claims) =< Cardinality(Callers)
<1>1. Claims \subseteq Callers
  BY DEF Claims
<1> QED BY <1>1, FS_Subset, FS_CardinalityType, QuotaAssumption

\* One more claim, and one fewer, in tokens.
LEMMA ClaimTokens ==
    ASSUME NEW n \in Nat
    PROVE  (n + 1) * MaxCost = n * MaxCost + MaxCost /\ n * MaxCost \in Nat
BY QuotaAssumption

\* Fewer claims need no more room.
LEMMA FewerClaims ==
    ASSUME NEW m \in Nat, NEW n \in Nat, m =< n
    PROVE  m * MaxCost =< n * MaxCost
BY QuotaAssumption

\* A step that keeps the counters and adds no claim keeps the invariant.
LEMMA NoNewClaim ==
    ASSUME QuotaInv, TypeOK', Claims' \subseteq Claims, UNCHANGED <<live, used, embedded>>
    PROVE  QuotaInv'
<1>1. Cardinality(Claims') \in Nat /\ Cardinality(Claims') =< Cardinality(Claims)
  BY ClaimsCounted, FS_Subset, FS_CardinalityType
<1>2. Cardinality(Claims') * MaxCost =< Cardinality(Claims) * MaxCost
  BY <1>1, ClaimsCounted, FewerClaims
<1>3. /\ Cardinality(Claims') * MaxCost \in Nat /\ Cardinality(Claims) * MaxCost \in Nat
      /\ Cardinality(Callers) * MaxCost \in Nat
  BY <1>1, ClaimsCounted, ClaimTokens
<1> QED BY <1>2, <1>3, QuotaAssumption DEF QuotaInv, TypeOK

\* A call is admitted only while the counter is within the quota, where every
\* client may hold a claim.
LEMMA BeginKeepsInv ==
    ASSUME QuotaInv, NEW c \in Callers, NEW kind \in Kind, Begin(c, kind)
    PROVE  QuotaInv'
<1>1. TypeOK'
  <2>1. Asking(kind) \in Call
    BY QuotaAssumption DEF Asking, Call, Kind, Ttl
  <2> QED BY <2>1, QuotaAssumption DEF QuotaInv, TypeOK, Begin
<1>2. CASE kind = "embed"
  <2>1. Claims' \subseteq Claims
    BY <1>2 DEF QuotaInv, TypeOK, Begin, Claims, Asking
  <2> QED BY <1>1, <2>1, NoNewClaim DEF Begin
<1>3. CASE kind # "embed"
  <2>1. used =< Tokens
    <3>1. Begin(c, kind) => (IF used > Tokens THEN 0 ELSE Tokens - used) >= Asked(kind)
      BY <1>3 DEF Begin, Admits
    <3>2. kind = "text" \/ kind = "stream"
      BY <1>3 DEF Kind
    <3>3. used \in Nat /\ Tokens \in Nat /\ Estimate \in Nat \ {0}
      BY QuotaAssumption DEF QuotaInv, TypeOK
    <3>4. (IF used > Tokens THEN 0 ELSE Tokens - used) >= Asked(kind)
      BY <3>1
    <3>5. Asked(kind) \in Nat
      BY <3>3 DEF Asked
    <3> QED BY <3>2, <3>3, <3>4, <3>5 DEF Asked
  <2>2. Claims' \subseteq Callers
    BY DEF Claims
  <2>3. Cardinality(Claims') \in Nat /\ Cardinality(Claims') =< Cardinality(Callers)
    BY <2>2, FS_Subset, FS_CardinalityType, QuotaAssumption
  <2>4. Cardinality(Claims') * MaxCost =< Cardinality(Callers) * MaxCost
    BY <2>3, ClaimsCounted, FewerClaims
  <2>5. /\ Cardinality(Claims') * MaxCost \in Nat
        /\ Cardinality(Callers) * MaxCost \in Nat
    BY <2>3, ClaimsCounted, ClaimTokens
  <2> QED BY <1>1, <2>1, <2>4, <2>5, QuotaAssumption DEF QuotaInv, TypeOK, Begin
<1> QED BY <1>2, <1>3

\* A charge spends the claim it was admitted with, an embedding its own account.
LEMMA ChargeKeepsInv ==
    ASSUME QuotaInv, NEW c \in Callers, Charge(c)
    PROVE  QuotaInv'
<1> DEFINE cost == call[c].cost
<1>1. cost \in 0..MaxCost /\ cost \in Nat /\ MaxCost \in Nat /\ cost =< MaxCost
  BY QuotaAssumption DEF QuotaInv, TypeOK, Call
<1>2. TypeOK'
  BY <1>1, QuotaAssumption DEF QuotaInv, TypeOK, Charge, Call, Idle, Kind, Ttl
<1>3. Claims' = Claims \ {c}
  BY DEF QuotaInv, TypeOK, Charge, Claims, Idle
<1>4. used' = used + cost /\ live'
  BY DEF Charge
<1>5. CASE call[c].kind = "embed"
  <2>1. Claims' = Claims
    BY <1>3, <1>5 DEF Claims
  <2>2. embedded' = embedded + cost
    BY <1>5 DEF Charge
  <2>3. Cardinality(Claims) * MaxCost \in Nat /\ Cardinality(Callers) * MaxCost \in Nat
    BY ClaimsCounted, ClaimTokens
  <2> HIDE DEF cost
  <2> QED BY <1>1, <1>2, <1>4, <2>1, <2>2, <2>3, QuotaAssumption DEF QuotaInv, TypeOK
<1>6. CASE call[c].kind # "embed"
  <2>1. c \in Claims
    BY <1>6 DEF Charge, Claims
  <2>2. Cardinality(Claims') \in Nat /\ Cardinality(Claims) = Cardinality(Claims') + 1
    <3>1. Cardinality(Claims \ {c}) = Cardinality(Claims) - 1
      BY <2>1, ClaimsCounted, FS_RemoveElement
    <3>2. IsFiniteSet(Claims \ {c}) /\ Cardinality(Claims \ {c}) \in Nat
      BY ClaimsCounted, FS_Subset, FS_CardinalityType
    <3> QED BY <1>3, <3>1, <3>2, ClaimsCounted
  <2>3. /\ Cardinality(Claims) * MaxCost = Cardinality(Claims') * MaxCost + MaxCost
        /\ Cardinality(Claims') * MaxCost \in Nat
        /\ Cardinality(Callers) * MaxCost \in Nat
    BY <2>2, ClaimsCounted, ClaimTokens
  <2>4. embedded' = embedded
    BY <1>6, QuotaAssumption DEF Charge, QuotaInv, TypeOK
  <2> HIDE DEF cost
  <2> QED BY <1>1, <1>2, <1>4, <2>3, <2>4, QuotaAssumption DEF QuotaInv, TypeOK
<1> QED BY <1>5, <1>6

LEMMA NextKeepsInv == QuotaInv /\ [Next]_vars => QuotaInv'
<1> SUFFICES ASSUME QuotaInv, [Next]_vars PROVE QuotaInv'
  OBVIOUS
<1>1. CASE UNCHANGED vars
  <2>1. TypeOK' /\ Claims' = Claims
    BY <1>1 DEF vars, QuotaInv, TypeOK, Claims
  <2> QED BY <1>1, <2>1, NoNewClaim DEF vars
<1>2. CASE WindowEnds
  <2>1. TypeOK' /\ Claims' = Claims
    BY <1>2 DEF WindowEnds, QuotaInv, TypeOK, Claims
  <2>2. Cardinality(Claims) * MaxCost =< Cardinality(Callers) * MaxCost
    BY ClaimsCounted, FewerClaims
  <2>3. Cardinality(Claims) * MaxCost \in Nat /\ Cardinality(Callers) * MaxCost \in Nat
    BY ClaimsCounted, ClaimTokens
  <2> QED BY <1>2, <2>1, <2>2, <2>3, QuotaAssumption DEF WindowEnds, QuotaInv
<1>3. ASSUME NEW c \in Callers, Answered(c) \/ GivesUp(c) \/ ReadTtl(c) PROVE QuotaInv'
  <2>1. TypeOK'
    BY <1>3, QuotaAssumption DEF QuotaInv, TypeOK, Answered, GivesUp, ReadTtl, Call, Idle, Kind, Ttl
  <2>2. Claims' \subseteq Claims
    BY <1>3 DEF QuotaInv, TypeOK, Answered, GivesUp, ReadTtl, Claims, Call, Idle
  <2> QED BY <1>3, <2>1, <2>2, NoNewClaim DEF Answered, GivesUp, ReadTtl
<1> QED BY <1>1, <1>2, <1>3, BeginKeepsInv, ChargeKeepsInv DEF Next, Working

LEMMA InitInv == Init => QuotaInv
<1> SUFFICES ASSUME Init PROVE QuotaInv
  OBVIOUS
<1>1. TypeOK
  <2>1. Idle \in Call
    BY QuotaAssumption DEF Idle, Call, Kind, Ttl
  <2>2. call \in [Callers -> Call] /\ calls \in [Callers -> 0..MaxCalls]
    BY <2>1, QuotaAssumption DEF Init
  <2> QED BY <2>2 DEF Init, TypeOK
<1>2. Claims = {}
  BY DEF Init, Claims, Idle
<1>3. Cardinality(Claims) = 0 /\ Cardinality(Callers) \in Nat
  BY <1>2, FS_EmptySet, ClaimsCounted
<1>4. Cardinality(Claims) * MaxCost = 0 /\ Cardinality(Callers) * MaxCost \in Nat
  BY <1>3, ClaimTokens, QuotaAssumption
<1> QED BY <1>1, <1>4, QuotaAssumption DEF Init, QuotaInv

\* Every reachable state leaves room for the calls that are still to be charged.
THEOREM QuotaInvariant == Spec => []QuotaInv
BY InitInv, NextKeepsInv, PTL DEF Spec

\* A window overruns its quota by at most one answer per client.
THEOREM OvershootAlwaysBounded == Spec => []OvershootBounded
<1>1. QuotaInv => OvershootBounded
  <2> SUFFICES ASSUME QuotaInv PROVE OvershootBounded
    OBVIOUS
  <2>1. Cardinality(Claims) * MaxCost \in Nat /\ Cardinality(Callers) * MaxCost \in Nat
    BY ClaimsCounted, ClaimTokens
  <2> QED BY <2>1, QuotaAssumption DEF QuotaInv, TypeOK, OvershootBounded
<1> QED BY <1>1, QuotaInvariant, PTL

-----------------------------------------------------------------------------
(* Reservations of idempotency keys, and the lock                          *)

IdemInv == IdemTypeOK /\ BusyHoldsReservation

\* The invariant says what a busy handler holds, so it can only be disturbed by
\* a step that takes the reservation away or makes another handler busy.
LEMMA IdemStep ==
    ASSUME IdemInv, [IdemNext]_idemState
    PROVE  IdemInv'
<1> USE DEF IdemInv, IdemTypeOK, BusyHoldsReservation, Busy, Ended
<1>1. CASE ReservationExpires
  BY <1>1 DEF ReservationExpires
<1>2. CASE ResultExpires
  BY <1>2 DEF ResultExpires
<1>3. ASSUME NEW d \in Deliveries, Reserve(d) PROVE IdemInv'
  <2>1. CASE step' = [step EXCEPT ![d] = "working"]
    <3>1. reservation = NoDelivery /\ reservation' = d /\ lapsed' = lapsed /\ stored' = stored
      BY <1>3, <2>1 DEF Reserve, Goes
    <3>2. lapsed \/ \A e \in Deliveries : step[e] \notin Busy
      BY <3>1, DeliveryAssumption
    <3> QED BY <2>1, <3>1, <3>2
  <2>2. CASE step' # [step EXCEPT ![d] = "working"]
    <3>1. /\ \E s \in {"taken", "failed"} : step' = [step EXCEPT ![d] = s]
          /\ reservation' \in Deliveries \cup {NoDelivery}
          /\ reservation # NoDelivery => reservation' = reservation
          /\ lapsed' = lapsed /\ stored' = stored
      BY <1>3, <2>2 DEF Reserve, Goes
    <3>2. \A e \in Deliveries : step'[e] \in Busy => step[e] \in Busy
      BY <3>1
    <3>3. IdemTypeOK'
      BY <3>1
    <3> QED BY <3>1, <3>2, <3>3, DeliveryAssumption
  <2> QED BY <2>1, <2>2
<1>4. ASSUME NEW d \in Deliveries, ReadResult(d) PROVE IdemInv'
  BY <1>4 DEF ReadResult, Goes
<1>5. ASSUME NEW d \in Deliveries, Process(d) PROVE IdemInv'
  BY <1>5 DEF Process, Goes
<1>6. ASSUME NEW d \in Deliveries, SetProcessed(d) \/ Release(d) PROVE IdemInv'
  <2>1. /\ \E s \in {"stored", "failed"} : step' = [step EXCEPT ![d] = s]
        /\ step[d] \in Busy
        /\ reservation' \in {reservation, NoDelivery}
        /\ stored' \in BOOLEAN /\ lapsed' = lapsed
    BY <1>6 DEF SetProcessed, Release, Goes
  <2>2. \A e \in Deliveries : step'[e] \in Busy => e # d /\ step[e] \in Busy
    BY <2>1
  <2>3. lapsed' \/ \A e \in Deliveries : step'[e] \notin Busy
    BY <2>1, <2>2
  <2>4. IdemTypeOK'
    BY <2>1
  <2> QED BY <2>3, <2>4
<1>7. CASE UNCHANGED idemState
  BY <1>7 DEF idemState
<1> QED BY <1>1, <1>2, <1>3, <1>4, <1>5, <1>6, <1>7 DEF IdemNext

\* For any number of deliveries of one request, until a reservation runs out
\* under its handler only the handler that holds the reservation of
\* utils/idempotency.js is processing, storing or releasing.
THEOREM OneHandlerBusy == IdemSpec => []BusyHoldsReservation
<1>1. IdemInit => IdemInv
  BY DEF IdemInit, IdemInv, IdemTypeOK, BusyHoldsReservation, Busy, Ended
<1>2. IdemInv /\ [IdemNext]_idemState => IdemInv'
  BY IdemStep
<1>3. IdemInv => BusyHoldsReservation
  BY DEF IdemInv
<1> QED BY <1>1, <1>2, <1>3, PTL DEF IdemSpec

-----------------------------------------------------------------------------
LockInv ==
    /\ LockTypeOK
    /\ \A c \in LockClients : stage[c] = "acquiring" => tries[c] > 0
    /\ LeaseExcludes

LEMMA LockStep ==
    ASSUME LockInv, [LockNext]_lockState
    PROVE  LockInv'
<1> USE LockAssumption DEF LockInv, LockTypeOK, LeaseExcludes, InTime
<1>1. CASE LeaseExpires
  <2>1. holder \in LockClients /\ holder' = NoClient /\ UNCHANGED <<stage, tries>>
    BY <1>1 DEF LeaseExpires
  <2>2. late' = [late EXCEPT ![holder] = stage[holder] \in {"inside", "unlocking"}]
    BY <1>1 DEF LeaseExpires
  <2>3. late' \in [LockClients -> BOOLEAN]
    BY <2>1, <2>2
  <2>4. \A c \in LockClients : ~InTime(c)'
    BY <2>1, <2>2
  <2> QED BY <2>1, <2>3, <2>4
<1>2. ASSUME NEW c \in LockClients, Acquire(c) PROVE LockInv'
  BY <1>2 DEF Acquire
<1>3. ASSUME NEW c \in LockClients, AcquireFails(c) PROVE LockInv'
  <2>1. /\ holder' \in LockClients \cup {NoClient}
        /\ holder # NoClient => holder' = holder
        /\ late' = late
    BY <1>3 DEF AcquireFails
  <2>2. /\ tries' = [tries EXCEPT ![c] = tries[c] - 1]
        /\ stage' = [stage EXCEPT ![c] = IF tries[c] = 1 THEN "thrown" ELSE "acquiring"]
        /\ tries[c] \in 1..LockTries
    BY <1>3 DEF AcquireFails
  <2>3. /\ tries' \in [LockClients -> 0..LockTries]
        /\ \A d \in LockClients : stage'[d] = "acquiring" => tries'[d] > 0
    BY <2>2
  <2>4. \A d \in LockClients : InTime(d)' => InTime(d)
    BY <2>1, <2>2
  <2>5. stage' \in [LockClients -> {"acquiring", "inside", "unlocking", "returned", "thrown"}]
    BY <2>2
  <2>6. LeaseExcludes'
    BY <2>1, <2>4
  <2> QED BY <2>1, <2>3, <2>5, <2>6
<1>4. ASSUME NEW c \in LockClients, FunctionEnds(c) PROVE LockInv'
  BY <1>4 DEF FunctionEnds
<1>5. ASSUME NEW c \in LockClients, SafeUnlock(c) PROVE LockInv'
  BY <1>5 DEF SafeUnlock
<1>6. CASE UNCHANGED lockState
  BY <1>6 DEF lockState
<1> QED BY <1>1, <1>2, <1>3, <1>4, <1>5, <1>6 DEF LockNext

\* For any number of clients and of attempts to acquire, a client of withLock()
\* that is inside its function and whose lease has not run out holds the lock.
THEOREM LeaseAlwaysExcludes == LockSpec => []LeaseExcludes
<1>1. LockInit => LockInv
  BY LockAssumption DEF LockInit, LockInv, LockTypeOK, LeaseExcludes, InTime
<1>2. LockInv /\ [LockNext]_lockState => LockInv'
  BY LockStep
<1>3. LockInv => LeaseExcludes
  BY DEF LockInv
<1> QED BY <1>1, <1>2, <1>3, PTL DEF LockSpec

\* Hence no two clients are inside in time together.
THEOREM NeverTwoInTime ==
    LockSpec => [](\A c, d \in LockClients : InTime(c) /\ InTime(d) => c = d)
<1>1. LeaseExcludes => \A c, d \in LockClients : InTime(c) /\ InTime(d) => c = d
  BY DEF LeaseExcludes
<1> QED BY <1>1, LeaseAlwaysExcludes, PTL

-----------------------------------------------------------------------------
(* The maps that caches keep in memory                                     *)

Entry == [key: CacheKeys, value: Nat]

\* No more than one place is dropped.
LoneIn(at, s) == at \subseteq 1..Len(s) /\ \A i, j \in at : i = j

\* Where an element of the shorter sequence was in the longer.
Skip(at, n) == IF \E i \in at : i =< n THEN n + 1 ELSE n

LEMMA DropIs ==
    ASSUME NEW S, NEW s \in Seq(S), NEW at, LoneIn(at, s)
    PROVE  /\ Drop(s, at) \in Seq(S)
           /\ Len(Drop(s, at)) = IF at = {} THEN Len(s) ELSE Len(s) - 1
           /\ \A n \in 1..Len(Drop(s, at)) : /\ Skip(at, n) \in (1..Len(s)) \ at
                                             /\ Drop(s, at)[n] = s[Skip(at, n)]
           /\ \A i \in (1..Len(s)) \ at : \E n \in 1..Len(Drop(s, at)) : Skip(at, n) = i
  <1>1. Len(s) \in Nat /\ \A n \in 1..Len(s) : s[n] \in S
    BY ElementOfSeq, LenProperties
  <1>2. CASE at = {}
    BY <1>1, <1>2 DEF Drop, Skip
  <1>3. CASE at # {}
    <2>1. PICK d \in 1..Len(s) : at = {d}
      BY <1>3 DEF LoneIn
    <2>2. Drop(s, at) = SubSeq(s, 1, d - 1) \o SubSeq(s, d + 1, Len(s))
      <3>1. (CHOOSE i \in at : TRUE) = d
        BY <2>1
      <3> QED BY <1>3, <3>1 DEF Drop, RemoveAt
    <2> DEFINE left == SubSeq(s, 1, d - 1)
               right == SubSeq(s, d + 1, Len(s))
    <2>3. /\ left \in Seq(S) /\ Len(left) = d - 1
          /\ \A n \in 1..(d - 1) : left[n] = s[n]
      <3>1. d - 1 \in Int /\ 1 \in Int /\ \A i \in 1..(d - 1) : s[i] \in S
        BY <1>1
      <3>2. /\ left \in Seq(S) /\ Len(left) = IF 1 =< d - 1 THEN d - 1 - 1 + 1 ELSE 0
            /\ \A n \in 1..(d - 1 - 1 + 1) : left[n] = s[1 + n - 1]
        BY <3>1, SubSeqProperties
      <3> HIDE DEF left
      <3> QED BY <1>1, <3>2
    <2>4. /\ right \in Seq(S) /\ Len(right) = Len(s) - d
          /\ \A n \in 1..(Len(s) - d) : right[n] = s[n + d]
      <3>1. d + 1 \in Int /\ Len(s) \in Int /\ \A i \in (d + 1)..Len(s) : s[i] \in S
        BY <1>1
      <3>2. /\ right \in Seq(S)
            /\ Len(right) = IF d + 1 =< Len(s) THEN Len(s) - (d + 1) + 1 ELSE 0
            /\ \A n \in 1..(Len(s) - (d + 1) + 1) : right[n] = s[d + 1 + n - 1]
        BY <3>1, SubSeqProperties
      <3> HIDE DEF right
      <3> QED BY <1>1, <3>2
    <2> HIDE DEF left, right
    <2> DEFINE r == left \o right
    <2>5. /\ r \in Seq(S) /\ Len(r) = Len(left) + Len(right)
          /\ \A n \in 1..(Len(left) + Len(right)) :
                r[n] = IF n <= Len(left) THEN left[n] ELSE right[n - Len(left)]
      BY <2>3, <2>4, ConcatProperties
    <2> HIDE DEF r
    <2>6. Len(r) = Len(s) - 1 /\ \A n \in 1..(Len(s) - 1) : r[n] = s[IF d =< n THEN n + 1 ELSE n]
      <3>1. Len(left) + Len(right) = Len(s) - 1
        BY <1>1, <2>3, <2>4
      <3>2. ASSUME NEW n \in 1..(Len(s) - 1) PROVE r[n] = s[IF d =< n THEN n + 1 ELSE n]
        <4>1. r[n] = IF n <= d - 1 THEN left[n] ELSE right[n - (d - 1)]
          BY <2>3, <2>5, <3>1
        <4>2. CASE d =< n
          <5>1. n - (d - 1) \in 1..(Len(s) - d) /\ ~(n <= d - 1) /\ n - (d - 1) + d = n + 1
            BY <1>1, <4>2
          <5> QED BY <2>4, <4>1, <4>2, <5>1
        <4>3. CASE ~(d =< n)
          <5>1. n \in 1..(d - 1) /\ n <= d - 1
            BY <1>1, <4>3
          <5> QED BY <2>3, <4>1, <4>3, <5>1
        <4> QED BY <4>2, <4>3
      <3> QED BY <2>5, <3>1, <3>2
    <2>7. \A n : Skip(at, n) = IF d =< n THEN n + 1 ELSE n
      BY <2>1 DEF Skip
    <2>8. \A n \in 1..(Len(s) - 1) : Skip(at, n) \in (1..Len(s)) \ at
      <3> TAKE n \in 1..(Len(s) - 1)
      <3>1. (IF d =< n THEN n + 1 ELSE n) \in 1..Len(s) /\ (IF d =< n THEN n + 1 ELSE n) # d
        BY <1>1
      <3> QED BY <2>1, <2>7, <3>1
    <2>9. \A i \in (1..Len(s)) \ at : \E n \in 1..(Len(s) - 1) : Skip(at, n) = i
      <3> TAKE i \in (1..Len(s)) \ at
      <3>1. CASE i < d
        <4>1. i \in 1..(Len(s) - 1) /\ Skip(at, i) = i
          BY <1>1, <2>7, <3>1
        <4> QED BY <4>1
      <3>2. CASE ~(i < d)
        <4>1. i # d
          BY <2>1
        <4>2. i - 1 \in 1..(Len(s) - 1) /\ d =< i - 1 /\ i - 1 + 1 = i
          BY <1>1, <3>2, <4>1
        <4> QED BY <2>7, <4>2
      <3> QED BY <3>1, <3>2
    <2> QED BY <1>3, <2>2, <2>5, <2>6, <2>7, <2>8, <2>9 DEF r, left, right
  <1> QED BY <1>2, <1>3

\* Dropping keeps the order.
LEMMA SkipKeepsOrder ==
    ASSUME NEW at \in SUBSET Nat, NEW m \in Nat, NEW n \in Nat
    PROVE  Skip(at, m) =< Skip(at, n) <=> m =< n
  <1>1. CASE m =< n
    <2>1. CASE \E i \in at : i =< m
      BY <1>1, <2>1 DEF Skip
    <2>2. CASE ~ \E i \in at : i =< m
      BY <1>1, <2>2 DEF Skip
    <2> QED BY <2>1, <2>2
  <1>2. CASE ~(m =< n)
    <2>1. CASE \E i \in at : i =< n
      <3>1. CASE \E i \in at : i =< m
        BY <1>2, <2>1, <3>1 DEF Skip
      <3>2. CASE ~ \E i \in at : i =< m
        BY <1>2, <2>1, <3>2 DEF Skip
      <3> QED BY <3>1, <3>2
    <2>2. CASE ~ \E i \in at : i =< n
      BY <1>2, <2>2 DEF Skip
    <2> QED BY <2>1, <2>2
  <1> QED BY <1>1, <1>2

Once(r) == \A m, n \in 1..Len(r) : r[m] = r[n] => m = n

\* The keys of map e are in the order in which r has them.
Ordered(e, r) ==
    \A j \in 1..Len(e) : \A i \in 1..j :
       \E n \in 1..Len(r) : \E m \in 1..n :
          /\ r[m] = e[i].key /\ r[n] = e[j].key
          /\ m = n => i = j

LEMMA KeysOnce ==
    ASSUME NEW e \in Seq(Entry), NEW r, Ordered(e, r), Once(r), Len(r) \in Nat
    PROVE  \A i, j \in 1..Len(e) : e[i].key = e[j].key => i = j
  <1>1. Len(e) \in Nat
    OBVIOUS
  <1>2. ASSUME NEW j \in 1..Len(e), NEW i \in 1..j, e[i].key = e[j].key PROVE i = j
    BY <1>1, <1>2 DEF Ordered, Once
  <1> QED BY <1>1, <1>2

LEMMA DropKeepsOrder ==
    ASSUME NEW e \in Seq(Entry), NEW r, Ordered(e, r), NEW at, LoneIn(at, e)
    PROVE  Ordered(Drop(e, at), r)
  <1> DEFINE d == Drop(e, at)
  <1>0. at \in SUBSET Nat
    BY LenProperties DEF LoneIn
  <1>1. /\ d \in Seq(Entry) /\ Len(d) \in Nat
        /\ \A n \in 1..Len(d) : Skip(at, n) \in 1..Len(e) /\ d[n] = e[Skip(at, n)]
    BY DropIs, LenProperties
  <1> HIDE DEF d
  <1> SUFFICES ASSUME NEW j \in 1..Len(d), NEW i \in 1..j
               PROVE  \E n \in 1..Len(r) : \E m \in 1..n :
                         /\ r[m] = d[i].key /\ r[n] = d[j].key
                         /\ m = n => i = j
    BY DEF Ordered, d
  <1>2. i \in Nat /\ j \in Nat /\ i =< j /\ i \in 1..Len(d)
    BY <1>1
  <1>3. Skip(at, i) \in 1..Len(e) /\ Skip(at, j) \in 1..Len(e) /\ Skip(at, i) =< Skip(at, j)
    BY <1>1, <1>2, <1>0, SkipKeepsOrder
  <1>4. Skip(at, i) \in 1..Skip(at, j)
    BY <1>3
  <1>5. Skip(at, i) = Skip(at, j) => i = j
    <2>1. Skip(at, j) =< Skip(at, i) <=> j =< i
      BY <1>0, <1>2, SkipKeepsOrder
    <2> QED BY <1>2, <1>3, <2>1
  <1>6. PICK n \in 1..Len(r) : \E m \in 1..n :
           /\ r[m] = e[Skip(at, i)].key /\ r[n] = e[Skip(at, j)].key
           /\ m = n => Skip(at, i) = Skip(at, j)
    BY <1>3, <1>4 DEF Ordered
  <1>7. d[i] = e[Skip(at, i)] /\ d[j] = e[Skip(at, j)]
    BY <1>1, <1>2
  <1> QED BY <1>5, <1>6, <1>7

\* A key that the map does not hold may go from what was used, and come back at its end.
LEMMA ForgettingKeepsOrder ==
    ASSUME NEW e \in Seq(Entry), NEW r \in Seq(CacheKeys), Ordered(e, r), Once(r), NEW k,
           \A i \in 1..Len(e) : e[i].key # k
    PROVE  LET at == {i \in 1..Len(r) : r[i] = k}
               d  == Drop(r, at) IN
           /\ Ordered(e, d) /\ Once(d) /\ d \in Seq(CacheKeys)
           /\ \A n \in 1..Len(d) : d[n] # k
  <1> DEFINE at == {i \in 1..Len(r) : r[i] = k}
             d == Drop(r, at)
  <1>0. at \in SUBSET Nat
    OBVIOUS
  <1>1. LoneIn(at, r)
    BY DEF LoneIn, Once
  <1>2. /\ d \in Seq(CacheKeys) /\ Len(d) \in Nat /\ Len(r) \in Nat
        /\ \A n \in 1..Len(d) : Skip(at, n) \in (1..Len(r)) \ at /\ d[n] = r[Skip(at, n)]
        /\ \A i \in (1..Len(r)) \ at : \E n \in 1..Len(d) : Skip(at, n) = i
    <2> HIDE DEF at
    <2> QED BY <1>1, DropIs, LenProperties
  <1>3. \A n \in 1..Len(d) : d[n] # k
    BY <1>2
  <1> HIDE DEF d
  <1>4. ASSUME NEW m \in 1..Len(d), NEW n \in 1..Len(d), d[m] = d[n] PROVE m = n
    <2>1. Skip(at, m) = Skip(at, n)
      BY <1>2, <1>4 DEF Once
    <2>2. /\ Skip(at, m) =< Skip(at, n) <=> m =< n
          /\ Skip(at, n) =< Skip(at, m) <=> n =< m
      BY <1>0, SkipKeepsOrder
    <2>3. Skip(at, m) \in Nat
      BY <1>2
    <2> QED BY <2>1, <2>2, <2>3
  <1>5. ASSUME NEW j \in 1..Len(e), NEW i \in 1..j
        PROVE  \E n \in 1..Len(d) : \E m \in 1..n :
                  /\ d[m] = e[i].key /\ d[n] = e[j].key
                  /\ m = n => i = j
    <2>1. PICK n \in 1..Len(r) : \E m \in 1..n :
             r[m] = e[i].key /\ r[n] = e[j].key /\ (m = n => i = j)
      BY DEF Ordered
    <2>2. PICK m \in 1..n : r[m] = e[i].key /\ r[n] = e[j].key /\ (m = n => i = j)
      BY <2>1
    <2>3. i \in 1..Len(e) /\ m \in 1..Len(r)
      BY <1>2, LenProperties
    <2>4. n \in (1..Len(r)) \ at /\ m \in (1..Len(r)) \ at
      BY <2>2, <2>3
    <2>5. PICK n1 \in 1..Len(d), m1 \in 1..Len(d) : Skip(at, n1) = n /\ Skip(at, m1) = m
      BY <1>2, <2>4
    <2>6. Skip(at, m1) =< Skip(at, n1) <=> m1 =< n1
      BY <1>0, SkipKeepsOrder
    <2>7. m1 \in 1..n1
      BY <1>2, <2>5, <2>6
    <2>8. d[m1] = e[i].key /\ d[n1] = e[j].key /\ (m1 = n1 => i = j)
      BY <1>2, <2>2, <2>5
    <2> QED BY <2>7, <2>8
  <1> QED BY <1>2, <1>3, <1>4, <1>5 DEF Ordered, Once, d

LEMMA UsingKeepsOrder ==
    ASSUME NEW e \in Seq(Entry), NEW r \in Seq(CacheKeys), Ordered(e, r), Once(r),
           NEW x \in Entry, \A n \in 1..Len(r) : r[n] # x.key
    PROVE  Ordered(Append(e, x), Append(r, x.key)) /\ Once(Append(r, x.key))
  <1> DEFINE f == Append(e, x)
             u == Append(r, x.key)
  <1>1. /\ f \in Seq(Entry) /\ Len(f) = Len(e) + 1 /\ Len(e) \in Nat
        /\ \A i \in 1..Len(e) : f[i] = e[i]
        /\ f[Len(e) + 1] = x
    OBVIOUS
  <1>2. /\ u \in Seq(CacheKeys) /\ Len(u) = Len(r) + 1 /\ Len(r) \in Nat
        /\ \A i \in 1..Len(r) : u[i] = r[i]
        /\ u[Len(r) + 1] = x.key
    BY DEF Entry
  <1> HIDE DEF f, u
  <1>3. Once(u)
    <2> SUFFICES ASSUME NEW m \in 1..Len(u), NEW n \in 1..Len(u), u[m] = u[n] PROVE m = n
      BY DEF Once
    <2>1. CASE m \in 1..Len(r) /\ n \in 1..Len(r)
      BY <1>2, <2>1 DEF Once
    <2>2. CASE m = Len(r) + 1 \/ n = Len(r) + 1
      BY <1>2, <2>2
    <2> QED BY <1>2, <2>1, <2>2
  <1>4. ASSUME NEW j \in 1..Len(f), NEW i \in 1..j
        PROVE  \E n \in 1..Len(u) : \E m \in 1..n :
                  /\ u[m] = f[i].key /\ u[n] = f[j].key
                  /\ m = n => i = j
    <2>1. CASE j \in 1..Len(e)
      <3>1. PICK n \in 1..Len(r) : \E m \in 1..n :
               r[m] = e[i].key /\ r[n] = e[j].key /\ (m = n => i = j)
        BY <2>1 DEF Ordered
      <3>2. PICK m \in 1..n : r[m] = e[i].key /\ r[n] = e[j].key /\ (m = n => i = j)
        BY <3>1
      <3>3. i \in 1..Len(e) /\ m \in 1..Len(r) /\ n \in 1..Len(u)
        BY <1>1, <1>2, <2>1
      <3>4. u[m] = f[i].key /\ u[n] = f[j].key
        BY <1>1, <1>2, <2>1, <3>2, <3>3
      <3> QED BY <3>2, <3>3, <3>4
    <2>2. CASE j = Len(e) + 1
      <3>1. CASE i = j
        <4>1. Len(r) + 1 \in 1..Len(u) /\ Len(r) + 1 \in 1..(Len(r) + 1)
          BY <1>2
        <4> QED BY <1>1, <1>2, <2>2, <3>1, <4>1
      <3>2. CASE i # j
        <4>1. i \in 1..Len(e)
          BY <1>1, <2>2, <3>2
        <4>2. PICK n \in 1..Len(r) : r[n] = e[i].key
          BY <1>1, <4>1 DEF Ordered
        <4>3. n \in 1..(Len(r) + 1) /\ n # Len(r) + 1 /\ Len(r) + 1 \in 1..Len(u)
          BY <1>2
        <4>4. u[n] = f[i].key /\ u[Len(r) + 1] = f[j].key
          BY <1>1, <1>2, <2>2, <4>1, <4>2
        <4> QED BY <4>3, <4>4
      <3> QED BY <3>1, <3>2
    <2> QED BY <1>1, <2>1, <2>2
  <1> QED BY <1>3, <1>4 DEF Ordered, f, u

LEMMA TailKeepsOrder ==
    ASSUME NEW e \in Seq(Entry), e # <<>>, NEW r, Ordered(e, r)
    PROVE  Ordered(Tail(e), r)
  <1>1. /\ Tail(e) \in Seq(Entry) /\ Len(Tail(e)) = Len(e) - 1 /\ Len(e) \in Nat
        /\ \A i \in 1..Len(Tail(e)) : Tail(e)[i] = e[i + 1]
    BY HeadTailProperties, LenProperties
  <1> SUFFICES ASSUME NEW j \in 1..Len(Tail(e)), NEW i \in 1..j
               PROVE  \E n \in 1..Len(r) : \E m \in 1..n :
                         /\ r[m] = Tail(e)[i].key /\ r[n] = Tail(e)[j].key
                         /\ m = n => i = j
    BY DEF Ordered
  <1>2. /\ j + 1 \in 1..Len(e) /\ i + 1 \in 1..(j + 1) /\ i \in 1..Len(Tail(e))
        /\ i + 1 = j + 1 => i = j
    BY <1>1
  <1>3. PICK n \in 1..Len(r) : \E m \in 1..n :
           r[m] = e[i + 1].key /\ r[n] = e[j + 1].key /\ (m = n => i + 1 = j + 1)
    BY <1>2 DEF Ordered
  <1>4. Tail(e)[i] = e[i + 1] /\ Tail(e)[j] = e[j + 1]
    BY <1>1, <1>2
  <1> QED BY <1>2, <1>3, <1>4

MapInv ==
    /\ entries \in Seq(Entry)
    /\ recent \in Seq(CacheKeys)
    /\ Once(recent)
    /\ Ordered(entries, recent)
    /\ Len(entries) =< CacheSize

\* What an entry of the changed map can be: x, or an entry of another key than k.
From(e, k) == \A i \in 1..Len(e) : \E j \in 1..Len(entries) : /\ entries[j].key # k
                                                             /\ e[i] = entries[j]
FromOr(e, x) == \A i \in 1..Len(e) : \/ e[i] = x
                                    \/ \E j \in 1..Len(entries) : /\ entries[j].key # x.key
                                                                  /\ e[i] = entries[j]

LEMMA EntriesAre ==
    ASSUME MapInv
    PROVE  \A i \in 1..Len(entries) : entries[i] \in Entry /\ entries[i].key \in CacheKeys
                                                         /\ entries[i].value \in Nat
  <1>1. \A i \in 1..Len(entries) : entries[i] \in Entry
    BY ElementOfSeq DEF MapInv
  <1> QED BY <1>1 DEF Entry

LEMMA Removing ==
    ASSUME MapInv, NEW k
    PROVE  /\ Without(k) \in Seq(Entry)
           /\ Len(Without(k)) \in Nat
           /\ Len(Without(k)) =< Len(entries)
           /\ Cached(k) # {} => Len(Without(k)) + 1 = Len(entries)
           /\ Ordered(Without(k), recent)
           /\ From(Without(k), k)
  <1> DEFINE at == Cached(k)
  <1>1. entries \in Seq(Entry) /\ Len(entries) \in Nat /\ Len(recent) \in Nat
    BY LenProperties DEF MapInv
  <1>2. LoneIn(at, entries)
    <2>1. \A i, j \in 1..Len(entries) : entries[i].key = entries[j].key => i = j
      BY <1>1, KeysOnce DEF MapInv
    <2> QED BY <2>1 DEF LoneIn, Cached
  <1>3. \A i \in 1..Len(entries) : i \in at <=> entries[i].key = k
    BY DEF Cached
  <1> HIDE DEF at
  <1>4. Ordered(Drop(entries, at), recent)
    BY <1>1, <1>2, DropKeepsOrder DEF MapInv
  <1>5. /\ Drop(entries, at) \in Seq(Entry)
        /\ Len(Drop(entries, at)) = IF at = {} THEN Len(entries) ELSE Len(entries) - 1
        /\ \A n \in 1..Len(Drop(entries, at)) : /\ Skip(at, n) \in (1..Len(entries)) \ at
                                                 /\ Drop(entries, at)[n] = entries[Skip(at, n)]
    BY <1>1, <1>2, DropIs
  <1>6. From(Drop(entries, at), k)
    BY <1>3, <1>5 DEF From
  <1>7. Len(Drop(entries, at)) \in Nat
    BY <1>5, LenProperties
  <1> QED BY <1>1, <1>4, <1>5, <1>6, <1>7 DEF Without, at

LEMMA Putting ==
    ASSUME MapInv, NEW x \in Entry
    PROVE  LET all == Append(Without(x.key), x) IN
           /\ all \in Seq(Entry)
           /\ Len(all) = Len(Without(x.key)) + 1
           /\ Ordered(all, Used(x.key))
           /\ Once(Used(x.key))
           /\ Used(x.key) \in Seq(CacheKeys)
           /\ FromOr(all, x)
  <1> DEFINE k == x.key
             w == Without(k)
             at == {i \in 1..Len(recent) : recent[i] = k}
             d == Drop(recent, at)
             all == Append(w, x)
  <1>1. /\ w \in Seq(Entry) /\ Len(w) \in Nat /\ Ordered(w, recent) /\ From(w, k)
    BY Removing
  <1>2. \A i \in 1..Len(w) : w[i].key # k
    BY <1>1 DEF From
  <1>3. k \in CacheKeys
    BY DEF Entry
  <1>4. recent \in Seq(CacheKeys) /\ Once(recent)
    BY DEF MapInv
  <1> HIDE DEF w, k
  <1>5. /\ Ordered(w, d) /\ Once(d) /\ d \in Seq(CacheKeys)
        /\ \A n \in 1..Len(d) : d[n] # k
    BY <1>1, <1>2, <1>4, ForgettingKeepsOrder
  <1> HIDE DEF d
  <1>6. Ordered(all, Append(d, k)) /\ Once(Append(d, k))
    BY <1>1, <1>5, UsingKeepsOrder DEF k
  <1>7. Append(d, k) \in Seq(CacheKeys)
    BY <1>3, <1>5
  <1>8. all \in Seq(Entry) /\ Len(all) = Len(w) + 1
        /\ \A i \in 1..Len(all) : (i \in 1..Len(w) /\ all[i] = w[i]) \/ all[i] = x
    BY <1>1
  <1> HIDE DEF all
  <1>9. FromOr(all, x)
    BY <1>1, <1>8 DEF From, FromOr, k
  <1>10. Used(k) = Append(d, k)
    BY DEF Used, d
  <1> QED BY <1>6, <1>7, <1>8, <1>9, <1>10 DEF all, w, k

\* Each operation of the map keeps the order, and tells which entries it leaves.
LEMMA HitStep ==
    ASSUME MapInv, NEW k \in CacheKeys, LruHit(k)
    PROVE  MapInv' /\ FromOr(entries', [key |-> k, value |-> Held(k)])
  <1> DEFINE x == [key |-> k, value |-> Held(k)]
  <1>1. Held(k) \in Nat
    BY EntriesAre DEF LruHit, Held, Cached
  <1>2. x \in Entry /\ x.key = k
    BY <1>1 DEF Entry
  <1>3. entries' = Append(Without(x.key), x) /\ recent' = Used(x.key)
    BY <1>2 DEF LruHit
  <1>4. Len(Without(x.key)) + 1 = Len(entries)
    BY <1>2, Removing DEF LruHit
  <1> HIDE DEF x
  <1>5. /\ entries' \in Seq(Entry) /\ Len(entries') = Len(Without(x.key)) + 1
        /\ Ordered(entries', recent') /\ Once(recent') /\ recent' \in Seq(CacheKeys)
        /\ FromOr(entries', x)
    BY <1>2, <1>3, Putting
  <1> QED BY <1>4, <1>5 DEF MapInv, x

LEMMA SetStep ==
    ASSUME MapInv, NEW k \in CacheKeys, NEW v \in Nat, LruSet(k, v)
    PROVE  MapInv' /\ FromOr(entries', [key |-> k, value |-> v])
  <1> DEFINE x == [key |-> k, value |-> v]
             all == Append(Without(k), x)
  <1>1. x \in Entry /\ x.key = k
    BY DEF Entry
  <1>2. entries' = (IF Len(all) > CacheSize THEN Tail(all) ELSE all) /\ recent' = Used(k)
    BY DEF LruSet
  <1>3. Len(Without(k)) \in Nat /\ Len(Without(k)) =< Len(entries)
    BY Removing
  <1> HIDE DEF x
  <1>4. /\ all \in Seq(Entry) /\ Len(all) = Len(Without(k)) + 1
        /\ Ordered(all, recent') /\ Once(recent') /\ recent' \in Seq(CacheKeys)
        /\ FromOr(all, x)
    BY <1>1, <1>2, Putting
  <1> HIDE DEF all
  <1>5. Len(entries) =< CacheSize /\ CacheSize \in Nat /\ Len(entries) \in Nat
    BY CacheAssumption, LenProperties DEF MapInv
  <1>6. CASE Len(all) > CacheSize
    <2>1. all # <<>>
      BY <1>3, <1>4
    <2>2. /\ Tail(all) \in Seq(Entry) /\ Len(Tail(all)) = Len(all) - 1
          /\ \A i \in 1..Len(Tail(all)) : Tail(all)[i] = all[i + 1]
      BY <1>4, <2>1, HeadTailProperties
    <2>3. Ordered(Tail(all), recent')
      BY <1>4, <2>1, TailKeepsOrder
    <2>4. \A i \in 1..Len(Tail(all)) : i + 1 \in 1..Len(all)
      BY <1>3, <1>4, <2>2
    <2>5. FromOr(Tail(all), x)
      BY <1>4, <2>2, <2>4 DEF FromOr
    <2>6. Len(Tail(all)) =< CacheSize
      BY <1>3, <1>4, <1>5, <2>2
    <2> QED BY <1>2, <1>4, <1>6, <2>2, <2>3, <2>5, <2>6 DEF MapInv, x
  <1>7. CASE ~(Len(all) > CacheSize)
    <2>1. Len(all) =< CacheSize
      BY <1>3, <1>4, <1>5, <1>7
    <2> QED BY <1>2, <1>4, <1>7, <2>1 DEF MapInv, x
  <1> QED BY <1>6, <1>7

LEMMA RemoveStep ==
    ASSUME MapInv, NEW k, entries' = Without(k), UNCHANGED recent
    PROVE  MapInv' /\ From(entries', k)
  <1>1. Len(entries) =< CacheSize /\ CacheSize \in Nat /\ Len(entries) \in Nat
    BY CacheAssumption, LenProperties DEF MapInv
  <1> QED BY <1>1, Removing DEF MapInv

LEMMA LruStep ==
    ASSUME MapInv, [LruNext]_lruState
    PROVE  MapInv'
  <1>1. CASE UNCHANGED lruState
    BY <1>1 DEF lruState, MapInv
  <1>2. CASE LruClear
    BY <1>2, CacheAssumption DEF LruClear, MapInv, Ordered
  <1>3. ASSUME NEW k \in CacheKeys, LruHit(k) PROVE MapInv'
    BY <1>3, HitStep
  <1>4. ASSUME NEW k \in CacheKeys, LruMiss(k) \/ LruDel(k) PROVE MapInv'
    BY <1>4, RemoveStep DEF LruMiss, LruDel
  <1>5. ASSUME NEW k \in CacheKeys, NEW v \in 1..MaxVersions, LruSet(k, v) PROVE MapInv'
    <2>1. v \in Nat
      BY CacheAssumption
    <2> QED BY <1>5, <2>1, SetStep
  <1> QED BY <1>1, <1>2, <1>3, <1>4, <1>5 DEF LruNext

LEMMA LruStarts == LruInit => MapInv
  BY CacheAssumption DEF LruInit, MapInv, Once, Ordered

LEMMA MapInvSuffices == MapInv => RecencyKept
  BY DEF MapInv, RecencyKept, Ordered

\* The map evicts the least recently used entry and keeps within its limit, for
\* any number of keys and any limit.
THEOREM MapKeepsRecency == LruSpec => []RecencyKept
  <1>1. MapInv /\ [LruNext]_lruState => MapInv'
    BY LruStep
  <1> QED BY <1>1, LruStarts, MapInvSuffices, PTL DEF LruSpec

-----------------------------------------------------------------------------
FreshInv ==
    /\ MapInv
    /\ writes \in Nat
    /\ remote \in [CacheKeys -> Nat]
    /\ latest \in [CacheKeys -> Nat]
    /\ side \in [CacheKeys -> {"redis", "local"}]
    /\ \A k \in CacheKeys : side[k] = "redis" => remote[k] \in {latest[k], Miss}
    /\ \A i \in 1..Len(entries) : side[entries[i].key] = "local"
                                   => entries[i].value \in {latest[entries[i].key], Miss}

\* A local write gives the map what is latest of its key, or nothing of it.
LEMMA LocalWriteKeepsFresh ==
    ASSUME FreshInv, MapInv', NEW k \in CacheKeys, NEW v \in Nat, Took(k, v, "local"),
           NEW r \in Nat, remote' \in {remote, [remote EXCEPT ![k] = r]}, writes' \in Nat,
           FromOr(entries', [key |-> k, value |-> v]) \/ From(entries', k)
    PROVE  FreshInv'
  <1>1. /\ remote' \in [CacheKeys -> Nat]
        /\ latest' \in [CacheKeys -> Nat]
        /\ side' \in [CacheKeys -> {"redis", "local"}]
    BY DEF FreshInv, Took
  <1>2. \A j \in CacheKeys : side'[j] = "redis" => remote'[j] \in {latest'[j], Miss}
    BY DEF FreshInv, Took
  <1>3. ASSUME NEW i \in 1..Len(entries'), side'[entries'[i].key] = "local"
        PROVE  entries'[i].value \in {latest'[entries'[i].key], Miss}
    <2>1. CASE entries'[i] = [key |-> k, value |-> v]
      BY <2>1 DEF FreshInv, Took
    <2>2. CASE \E j \in 1..Len(entries) : entries[j].key # k /\ entries'[i] = entries[j]
      <3>1. PICK j \in 1..Len(entries) : entries[j].key # k /\ entries'[i] = entries[j]
        BY <2>2
      <3>2. entries[j].key \in CacheKeys
        BY EntriesAre DEF FreshInv
      <3> QED BY <1>3, <3>1, <3>2 DEF FreshInv, Took
    <2> QED BY <2>1, <2>2 DEF From, FromOr
  <1> QED BY <1>1, <1>2, <1>3 DEF FreshInv

LEMMA RemoteWriteKeepsFresh ==
    ASSUME FreshInv, NEW k \in CacheKeys, NEW v \in Nat, Took(k, v, "redis"),
           remote' = [remote EXCEPT ![k] = v], writes' \in Nat, UNCHANGED <<entries, recent>>
    PROVE  FreshInv'
  <1>1. MapInv'
    BY DEF FreshInv, MapInv
  <1>2. /\ remote' \in [CacheKeys -> Nat]
        /\ latest' \in [CacheKeys -> Nat]
        /\ side' \in [CacheKeys -> {"redis", "local"}]
    BY DEF FreshInv, Took
  <1>3. \A j \in CacheKeys : side'[j] = "redis" => remote'[j] \in {latest'[j], Miss}
    BY DEF FreshInv, Took
  <1>4. ASSUME NEW i \in 1..Len(entries), side'[entries[i].key] = "local"
        PROVE  entries[i].value \in {latest'[entries[i].key], Miss}
    <2>1. entries[i].key \in CacheKeys
      BY EntriesAre DEF FreshInv
    <2> QED BY <1>4, <2>1 DEF FreshInv, Took
  <1> QED BY <1>1, <1>2, <1>3, <1>4 DEF FreshInv

LEMMA CacheStep ==
    ASSUME FreshInv, [CacheNext]_cacheState
    PROVE  FreshInv'
  <1>0. MapInv /\ writes \in Nat
    BY DEF FreshInv
  <1>1. CASE UNCHANGED cacheState
    BY <1>1 DEF cacheState, FreshInv, MapInv
  <1>2. ASSUME NEW k \in CacheKeys, CacheGet(k) PROVE FreshInv'
    <2>1. CASE LruHit(k)
      <3>1. MapInv' /\ FromOr(entries', [key |-> k, value |-> Held(k)])
        BY <1>0, <2>1, HitStep
      <3>2. PICK c \in Cached(k) : Held(k) = entries[c].value
        BY <2>1 DEF LruHit, Held
      <3>3. c \in 1..Len(entries) /\ entries[c].key = k
        BY <3>2 DEF Cached
      <3>4. ASSUME NEW i \in 1..Len(entries'), side[entries'[i].key] = "local"
            PROVE  entries'[i].value \in {latest[entries'[i].key], Miss}
        <4>1. CASE entries'[i] = [key |-> k, value |-> Held(k)]
          BY <3>2, <3>3, <3>4, <4>1 DEF FreshInv
        <4>2. CASE \E j \in 1..Len(entries) : entries'[i] = entries[j]
          BY <3>4, <4>2 DEF FreshInv
        <4> QED BY <3>1, <4>1, <4>2 DEF FromOr
      <3> QED BY <1>2, <3>1, <3>4 DEF CacheGet, FreshInv
    <2>2. CASE LruMiss(k)
      <3>1. MapInv' /\ From(entries', k)
        BY <1>0, <2>2, RemoveStep DEF LruMiss
      <3>2. ASSUME NEW i \in 1..Len(entries'), side[entries'[i].key] = "local"
            PROVE  entries'[i].value \in {latest[entries'[i].key], Miss}
        BY <3>1, <3>2 DEF FreshInv, From
      <3> QED BY <1>2, <3>1, <3>2 DEF CacheGet, FreshInv
    <2> QED BY <1>2, <2>1, <2>2 DEF CacheGet, LocalGet
  <1>3. ASSUME NEW k \in CacheKeys, CacheSet(k) PROVE FreshInv'
    <2> DEFINE v == writes + 1
    <2>1. v \in Nat /\ writes' = v
      BY <1>0, <1>3 DEF CacheSet
    <2>2. CASE /\ remote' = [remote EXCEPT ![k] = v]
               /\ Took(k, v, "redis") /\ UNCHANGED <<entries, recent>>
      <3> HIDE DEF v
      <3> QED BY <2>1, <2>2, RemoteWriteKeepsFresh
    <2>3. CASE /\ remote' \in {remote, [remote EXCEPT ![k] = v]}
               /\ LocalSet(k, v) /\ Took(k, v, "local")
      <3> HIDE DEF v
      <3>1. MapInv' /\ FromOr(entries', [key |-> k, value |-> v])
        BY <1>0, <2>1, <2>3, SetStep DEF LocalSet
      <3> QED BY <2>1, <2>3, <3>1, LocalWriteKeepsFresh
    <2> QED BY <1>3, <2>2, <2>3 DEF CacheSet
  <1>4. ASSUME NEW k \in CacheKeys, CacheDel(k) PROVE FreshInv'
    <2>0. Miss \in Nat /\ writes' \in Nat
      BY <1>0, <1>4 DEF CacheDel, Miss
    <2>1. CASE /\ remote' = [remote EXCEPT ![k] = Miss]
               /\ Took(k, Miss, "redis") /\ UNCHANGED <<entries, recent>>
      BY <2>0, <2>1, RemoteWriteKeepsFresh
    <2>2. CASE /\ remote' \in {remote, [remote EXCEPT ![k] = Miss]}
               /\ LocalDel(k) /\ Took(k, Miss, "local")
      <3>1. MapInv' /\ From(entries', k)
        BY <1>0, <2>2, RemoveStep DEF LocalDel, LruDel
      <3> QED BY <2>0, <2>2, <3>1, LocalWriteKeepsFresh
    <2> QED BY <1>4, <2>1, <2>2 DEF CacheDel
  <1>5. ASSUME NEW k \in CacheKeys, RemoteExpires(k) PROVE FreshInv'
    BY <1>5 DEF RemoteExpires, FreshInv, MapInv, Miss
  <1> QED BY <1>1, <1>2, <1>3, <1>4, <1>5 DEF CacheNext

LEMMA CacheStarts == CacheInit => FreshInv
  BY LruStarts DEF CacheInit, LruInit, FreshInv, Miss

LEMMA FreshInvSuffices == FreshInv => WriterSideFresh
  <1> SUFFICES ASSUME FreshInv, NEW k \in CacheKeys, side[k] = "local"
               PROVE  Held(k) \in {latest[k], Miss}
    BY DEF FreshInv, WriterSideFresh
  <1>1. CASE Cached(k) = {}
    BY <1>1 DEF Held
  <1>2. CASE Cached(k) # {}
    <2>1. PICK c \in Cached(k) : Held(k) = entries[c].value
      BY <1>2 DEF Held
    <2> QED BY <2>1 DEF Cached, FreshInv
  <1> QED BY <1>1, <1>2

\* An operation served by the side that took a key's last write never sees an
\* older value, whatever fails in between.
THEOREM WriterSideIsFresh == CacheSpec => []WriterSideFresh
  <1>1. FreshInv /\ [CacheNext]_cacheState => FreshInv'
    BY CacheStep
  <1> QED BY <1>1, CacheStarts, FreshInvSuffices, PTL DEF CacheSpec

\* As the cache's fallback the map takes only the steps of a map of its own, so
\* that there too it evicts what was used least recently.
THEOREM FallbackIsMap == CacheSpec => LruSpec
  <1>1. CacheInit => LruInit
    BY DEF CacheInit
  <1>2. ASSUME FreshInv, [CacheNext]_cacheState PROVE [LruNext]_lruState
    <2>1. CASE UNCHANGED cacheState
      BY <2>1 DEF cacheState, lruState
    <2>2. ASSUME NEW k \in CacheKeys, CacheGet(k) PROVE LruNext
      BY <2>2 DEF CacheGet, LocalGet, LruNext
    <2>3. ASSUME NEW k \in CacheKeys, CacheSet(k) PROVE [LruNext]_lruState
      <3>1. writes + 1 \in 1..MaxVersions
        BY <1>2, <2>3, CacheAssumption DEF CacheSet, FreshInv
      <3> QED BY <2>3, <3>1 DEF CacheSet, LocalSet, LruNext, lruState
    <2>4. ASSUME NEW k \in CacheKeys, CacheDel(k) PROVE [LruNext]_lruState
      BY <2>4 DEF CacheDel, LocalDel, LruNext, lruState
    <2>5. ASSUME NEW k \in CacheKeys, RemoteExpires(k) PROVE [LruNext]_lruState
      BY <2>5 DEF RemoteExpires, lruState
    <2> QED BY <1>2, <2>1, <2>2, <2>3, <2>4, <2>5 DEF CacheNext
  <1>3. FreshInv /\ [CacheNext]_cacheState => FreshInv'
    BY CacheStep
  <1> QED BY <1>1, <1>2, <1>3, CacheStarts, PTL DEF CacheSpec, LruSpec
==============================================================================
