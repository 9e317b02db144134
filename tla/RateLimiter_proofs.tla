-------------------------- MODULE RateLimiter_proofs --------------------------
(***************************************************************************)
(* Proofs about RateLimiter, for every set of principals, requests and     *)
(* tiers, every quota, clock resolution and size of the store.             *)
(*                                                                         *)
(* LimiterInv is inductive under Spec.  Under OrderedSpec, where a settled *)
(* principal's requests reach the store in the order of their instants,    *)
(* FluidInv is inductive as well, and every step is a step of the token    *)
(* bucket.  The remainder of a millisecond is what the arithmetic is       *)
(* about: a refill of e whole milliseconds moves `last` by what it earns   *)
(* for, so that what the bucket holds and what it has yet to be given stay *)
(* the same together.                                                      *)
(***************************************************************************)
EXTENDS RateLimiter, FiniteSetTheorems, TLAPS

USE QuotaAssumption, ScaleAssumption, NoneAssumption, MovingAssumption

(* The whole milliseconds in a number of instants.                         *)
LEMMA Division ==
  ASSUME NEW x \in Nat, NEW t \in Nat \ {0}
  PROVE  /\ x \div t \in Nat
         /\ (x \div t) * t <= x
         /\ x < (x \div t) * t + t
  OBVIOUS

(* What a bucket holds and what it has yet to be given, of d instants of   *)
(* which e whole milliseconds are given now.                               *)
LEMMA Conserved ==
  ASSUME NEW u \in Nat, NEW e \in Nat, NEW R \in Nat, NEW T \in Nat, NEW d \in Nat, e * T <= d
  PROVE  /\ (u + e * R) * T + R * (d - e * T) = u * T + R * d
         /\ (u + e * R) * T <= u * T + R * d
  OBVIOUS

(* The arithmetic the provers need to be told.                             *)
LEMMA Difference ==
  ASSUME NEW a \in Nat, NEW b \in Nat, b <= a
  PROVE  a - b \in Nat
  OBVIOUS

(* What refills grows with the time that passes.                           *)
LEMMA Monotone ==
  ASSUME NEW a \in Nat, NEW b \in Nat, NEW c \in Nat, a <= b
  PROVE  a * c <= b * c /\ c * a <= c * b /\ a * c \in Nat
  OBVIOUS

(* The sizes of a tier.                                                    *)
LEMMA Sizes ==
  /\ TicksPerMs \in Nat \ {0} /\ Unit \in Nat \ {0}
  /\ \A q \in Tier :
        /\ Refill[q] \in Nat \ {0} /\ CapacityUnits(q) \in Nat /\ CapacityUnits(q) >= Unit
        /\ Full(q) = CapacityUnits(q) * TicksPerMs /\ Full(q) \in Nat
  /\ Token = Unit * TicksPerMs /\ Token \in Nat
  /\ (CHOOSE q \in Tier : TRUE) \in Tier
<1>1. ASSUME NEW q \in Tier
      PROVE  CapacityUnits(q) \in Nat /\ CapacityUnits(q) >= Unit
  BY Monotone DEF CapacityUnits
<1>2. ASSUME NEW q \in Tier PROVE Full(q) \in Nat
  BY <1>1 DEF Full
<1> QED
  BY <1>1, <1>2 DEF Full, Token

(* A bucket that is brought up to date: it is given the whole milliseconds *)
(* since `last`, up to its capacity.                                       *)
Refills(b, q, t) ==
    /\ ElapsedMs(b, t) \in Nat
    /\ ElapsedMs(b, t) * TicksPerMs <= Later(t - b.last, 0)
    /\ Later(t - b.last, 0) < ElapsedMs(b, t) * TicksPerMs + TicksPerMs
    /\ Refilled(b, q, t) \in Bucket
    /\ Refilled(b, q, t).units = Smaller(b.units + ElapsedMs(b, t) * Refill[q], CapacityUnits(q))
    /\ Refilled(b, q, t).units <= CapacityUnits(q)
    /\ Refilled(b, q, t).last = b.last + ElapsedMs(b, t) * TicksPerMs
    /\ Refilled(b, q, t).last <= Later(b.last, t)
    /\ Refilled(b, q, t).quota = q

(* A refill, in linear terms.                                              *)
LEMMA RefillFacts ==
  ASSUME NEW b \in Bucket, NEW q \in Tier, NEW t \in Nat
  PROVE  Refills(b, q, t)
<1> DEFINE e == ElapsedMs(b, t)
           x == Later(t - b.last, 0)
<1>1. b.units \in Nat /\ b.last \in Nat /\ x \in Nat
  BY DEF Bucket, Later
<1>2. e \in Nat /\ e * TicksPerMs <= x /\ x < e * TicksPerMs + TicksPerMs
  <2> HIDE DEF x
  <2> QED
    BY <1>1, Division DEF ElapsedMs, x
<1>3. e * Refill[q] \in Nat /\ e * TicksPerMs \in Nat
  BY <1>2
<1> HIDE DEF e
<1>4. Refilled(b, q, t) = [units |-> Smaller(b.units + e * Refill[q], CapacityUnits(q)),
                           last |-> b.last + e * TicksPerMs, quota |-> q]
  BY DEF Refilled, e
<1>5. Refilled(b, q, t) \in Bucket
  BY <1>1, <1>3, <1>4, Sizes DEF Bucket, Smaller
<1>6. Refilled(b, q, t).units <= CapacityUnits(q)
  BY <1>1, <1>3, <1>4, Sizes DEF Smaller
<1>7. b.last + e * TicksPerMs <= Later(b.last, t)
  BY <1>1, <1>2, <1>3 DEF Later
<1> QED
  BY <1>2, <1>4, <1>5, <1>6, <1>7 DEF e, Refills

-----------------------------------------------------------------------------
(* No bucket is there yet.                                                 *)
LEMMA LimiterInit == Init => LimiterInv
<1> SUFFICES ASSUME Init PROVE LimiterInv
  OBVIOUS
<1> USE DEF Init
<1>1. \A p \in Principal : NewBucket(FirstTier[p], 0) \in Bucket
  BY Sizes DEF NewBucket, Bucket
<1>2. bucket \in [Principal -> Bucket]
  BY <1>1
<1>3. asked \in [Request -> Tier]
  BY Sizes
<1>4. fluid \in [Settled -> Int]
  BY Sizes DEF Settled
<1>5. TypeOK
  BY <1>2, <1>3, <1>4 DEF TypeOK
<1>6. SettledTiers
  BY DEF SettledTiers, Settled
<1>7. IsFiniteSet(tracked) /\ StoreBounded
  BY FS_EmptySet DEF StoreBounded
<1> QED
  BY <1>5, <1>6, <1>7 DEF LimiterInv

(***************************************************************************)
(* An admit, whichever way it ends: n units are spent, the kept buckets    *)
(* are left alone, and the bucket of the request is current.               *)
(***************************************************************************)
Serves(r, n) ==
    /\ n \in {0, Unit} /\ who[r] \in Principal
    /\ \/ n = 0 /\ who[r] \notin tracked /\ tracked' = Kept(r)
       \/ /\ ~NoRoom(r) /\ tracked' = Kept(r) \union {who[r]}
          /\ Current(r).units >= n
          /\ bucket'[who[r]] = [Current(r) EXCEPT !.units = @ - n]
    /\ \A p \in Kept(r) \ {who[r]} : bucket'[p] = bucket[p]
    /\ bucket' \in [Principal -> Bucket]
    /\ Answer(r, n * TicksPerMs)
    /\ admitted' = [p \in Settled |-> admitted[p] + IF p = who[r] /\ n # 0 THEN 1 ELSE 0]

(* What a sweep keeps, and what it drops.                                  *)
LEMMA Sweep ==
  ASSUME LimiterInv, NEW r \in Request
  PROVE  /\ Kept(r) \subseteq tracked /\ IsFiniteSet(Kept(r))
         /\ Cardinality(Kept(r)) \in Nat /\ Cardinality(Kept(r)) <= MaxBuckets
         /\ who[r] \in tracked => Kept(r) = tracked
         /\ \A p \in tracked \ Kept(r) : IsFullAt(bucket[p], stamp[r])
<1>1. Kept(r) \subseteq tracked
  BY DEF Kept
<1>2. IsFiniteSet(tracked) /\ Cardinality(tracked) <= MaxBuckets
  BY DEF LimiterInv, StoreBounded
<1>3. /\ IsFiniteSet(Kept(r)) /\ Cardinality(Kept(r)) <= Cardinality(tracked)
      /\ Cardinality(Kept(r)) \in Nat /\ Cardinality(tracked) \in Nat
  BY <1>1, <1>2, FS_Subset, FS_CardinalityType
<1> QED
  BY <1>1, <1>2, <1>3 DEF Kept

(* The current bucket of a request.                                        *)
LEMMA CurrentFacts ==
  ASSUME LimiterInv, NEW r \in Request, who[r] \in Principal
  PROVE  /\ stamp[r] \in Nat /\ served \in Nat /\ asked[r] \in Tier
         /\ Current(r) \in Bucket /\ Current(r).quota = asked[r]
         /\ Current(r).units <= CapacityUnits(asked[r])
         /\ Current(r).last <= Later(served, stamp[r])
<1> DEFINE b == IF who[r] \in tracked THEN bucket[who[r]] ELSE NewBucket(asked[r], stamp[r])
<1>1. stamp[r] \in Nat /\ served \in Nat /\ asked[r] \in Tier
  BY DEF LimiterInv, TypeOK
<1>2. NewBucket(asked[r], stamp[r]) \in Bucket /\ NewBucket(asked[r], stamp[r]).last = stamp[r]
  BY <1>1, Sizes DEF NewBucket, Bucket
<1>3. b \in Bucket /\ b.last \in Nat
  BY <1>2 DEF LimiterInv, TypeOK, Bucket
<1>4. Later(b.last, stamp[r]) <= Later(served, stamp[r])
  BY <1>1, <1>2, <1>3 DEF LimiterInv, TypeOK, Later
<1>5. Current(r) = Refilled(b, asked[r], stamp[r])
  BY DEF Current
<1> HIDE DEF b
<1>6. /\ Current(r) \in Bucket /\ Current(r).quota = asked[r]
      /\ Current(r).units <= CapacityUnits(asked[r])
      /\ Current(r).last <= Later(b.last, stamp[r])
  <2>1. Refills(b, asked[r], stamp[r])
    BY <1>1, <1>3, RefillFacts, Zenon
  <2> QED
    BY <1>5, <2>1, Zenon DEF Refills
<1>7. Current(r).last \in Nat
  BY <1>6 DEF Bucket
<1>8. Current(r).last <= Later(served, stamp[r])
  BY <1>1, <1>3, <1>4, <1>6, <1>7 DEF Later
<1> QED
  BY <1>1, <1>6, <1>8

(* Every admit is of that form.                                            *)
LEMMA AdmitServes ==
  ASSUME LimiterInv, NEW r \in Request, Admit(r)
  PROVE  \E n \in {0, Unit} : Serves(r, n) /\ (n = Unit <=> Admitted(r))
<1>1. who[r] \in Principal
  BY DEF LimiterInv, TypeOK, Admit, Saturated, Refused, Admitted
<1>2. \A p \in Principal : NewBucket(FirstTier[p], 0) \in Bucket /\ bucket[p] \in Bucket
  BY Sizes DEF NewBucket, Bucket, LimiterInv, TypeOK
<1>3. Kept(r) \subseteq Principal
  BY Sweep DEF LimiterInv, TypeOK
<1>4. admitted = [p \in Settled |-> admitted[p] + 0]
  BY DEF LimiterInv, TypeOK
<1>5. 0 * TicksPerMs = 0 /\ Unit * TicksPerMs = Token /\ Unit # 0
  BY DEF Token
<1>6. CASE Saturated(r)
  <2>1. DOMAIN << >> = {}
    OBVIOUS
  <2>2. tracked' = Kept(r) /\ who[r] \notin tracked
    BY <1>6, <2>1 DEF Saturated, StoreBuckets, NoRoom
  <2>3. bucket' = [p \in Principal |-> IF p \in Kept(r) THEN bucket[p] ELSE NewBucket(FirstTier[p], 0)]
    BY <1>6, <2>1 DEF Saturated, StoreBuckets
  <2>4. Serves(r, 0)
    BY <1>1, <1>2, <1>3, <1>4, <1>5, <1>6, <2>2, <2>3 DEF Serves, Saturated
  <2>5. ~Admitted(r)
    BY <1>6 DEF Saturated, Admitted
  <2> QED
    BY <1>5, <2>4, <2>5
<1>7. ASSUME NEW c \in Bucket, StoreBuckets(Kept(r), [p \in {who[r]} |-> c])
      PROVE  /\ tracked' = Kept(r) \union {who[r]}
             /\ bucket'[who[r]] = c /\ bucket' \in [Principal -> Bucket]
             /\ \A p \in Kept(r) \ {who[r]} : bucket'[p] = bucket[p]
  <2>1. bucket' = [p \in Principal |-> IF p = who[r] THEN c
                                       ELSE IF p \in Kept(r) THEN bucket[p] ELSE NewBucket(FirstTier[p], 0)]
    BY <1>7 DEF StoreBuckets
  <2> QED
    BY <1>1, <1>2, <1>3, <1>7, <2>1 DEF StoreBuckets
<1>8. Current(r) \in Bucket
  BY <1>1, CurrentFacts
<1>9. CASE Refused(r)
  <2>1. Current(r) = [Current(r) EXCEPT !.units = @ - 0] /\ Current(r).units >= 0
    BY <1>8 DEF Bucket
  <2>2. Serves(r, 0)
    BY <1>1, <1>4, <1>5, <1>7, <1>8, <1>9, <2>1 DEF Serves, Refused
  <2>3. ~Admitted(r)
    BY <1>8, <1>9 DEF Refused, Admitted, Bucket
  <2> QED
    BY <1>5, <2>2, <2>3
<1>10. CASE Admitted(r)
  <2>1. [Current(r) EXCEPT !.units = @ - Unit] \in Bucket
    BY <1>8, <1>10 DEF Bucket, Admitted
  <2>2. Serves(r, Unit)
    BY <1>1, <1>5, <1>7, <1>10, <2>1 DEF Serves, Admitted
  <2> QED
    BY <1>10, <2>2
<1> QED
  BY <1>6, <1>9, <1>10 DEF Admit

(* The instant of the latest answer.                                       *)
LEMMA ServedAdvances ==
  ASSUME LimiterInv, NEW r \in Request, NEW n, Serves(r, n)
  PROVE  /\ served \in Nat /\ stamp[r] \in Nat /\ served' \in Nat
         /\ served' = Later(served, stamp[r])
         /\ served <= served' /\ stamp[r] <= served' /\ served' <= clock /\ clock' = clock
  BY DEF LimiterInv, TypeOK, Serves, Answer, Later

(* An admission keeps the store and its shards within bounds.              *)
LEMMA AdmitKeeps ==
  ASSUME LimiterInv, NEW r \in Request, NEW n, Serves(r, n)
  PROVE  LimiterInv'
<1> DEFINE w == who[r]
           c == Current(r)
<1>0. TypeOK /\ SettledTiers /\ IsFiniteSet(tracked)
  BY DEF LimiterInv
<1>1. /\ w \in Principal /\ n \in {0, Unit} /\ bucket' \in [Principal -> Bucket]
      /\ tracked' \subseteq Kept(r) \union {w}
      /\ \A p \in Kept(r) \ {w} : bucket'[p] = bucket[p]
      /\ w \in tracked' => c.units >= n /\ bucket'[w] = [c EXCEPT !.units = @ - n]
  BY Sweep DEF Serves
<1>2. /\ c \in Bucket /\ c.quota = asked[r] /\ asked[r] \in Tier
      /\ c.units <= CapacityUnits(asked[r]) /\ c.last <= served' /\ c.last \in Nat /\ c.units \in Nat
  BY <1>1, CurrentFacts, ServedAdvances DEF Bucket
<1>3. w \in tracked' => /\ bucket'[w].units = c.units - n /\ bucket'[w].last = c.last
                        /\ bucket'[w].quota = asked[r]
  BY <1>1, <1>2 DEF Bucket
<1>4. /\ who' = [who EXCEPT ![r] = None] /\ stamp' = [stamp EXCEPT ![r] = 0]
      /\ asked' = [asked EXCEPT ![r] = CHOOSE q \in Tier : TRUE]
      /\ UNCHANGED <<clock, tier>>
  BY DEF Serves, Answer
<1> HIDE DEF w, c
<1>5. TypeOK'
  <2>1. /\ clock' \in 0 .. MaxClock /\ tier' \in [Principal -> Tier]
        /\ who' \in [Request -> Principal \union {None}] /\ asked' \in [Request -> Tier]
        /\ stamp' \in [Request -> 0 .. clock']
    BY <1>0, <1>4, Sizes DEF TypeOK
  <2>2. tracked' \subseteq Principal
    BY <1>0, <1>1, Sweep DEF TypeOK
  <2>3. ASSUME NEW p \in tracked'
        PROVE  bucket'[p].units <= CapacityUnits(bucket'[p].quota) /\ bucket'[p].last <= served'
    <3>1. CASE p = w
      <4>1. CapacityUnits(asked[r]) \in Nat
        BY <1>2, Sizes
      <4> QED
        BY <1>1, <1>2, <1>3, <2>3, <3>1, <4>1
    <3>2. CASE p # w
      <4>1. p \in tracked /\ bucket'[p] = bucket[p] /\ bucket[p] \in Bucket
        BY <1>0, <1>1, <2>2, <3>2, Sweep DEF TypeOK
      <4>2. bucket[p].last \in Nat
        BY <4>1 DEF Bucket
      <4> QED
        BY <1>0, <4>1, <4>2, ServedAdvances DEF TypeOK
    <3> QED
      BY <3>1, <3>2
  <2>4. admitted' \in [Settled -> Nat]
    BY <1>0 DEF TypeOK, Serves
  <2>5. served' \in 0 .. clock'
    BY ServedAdvances
  <2>6. fluid' \in [Settled -> Int]
    <3>1. fluid' = [p \in Settled |->
             Smaller(fluid[p] + Refill[tier[p]] * (served' - served), Full(tier[p]))
                - (IF p = who[r] THEN n * TicksPerMs ELSE 0)]
      BY DEF Serves, Answer
    <3>2. n * TicksPerMs \in Nat
      BY <1>1
    <3>3. ASSUME NEW p \in Settled
          PROVE  Smaller(fluid[p] + Refill[tier[p]] * (served' - served), Full(tier[p])) \in Int
      <4>1. fluid[p] \in Int /\ tier[p] \in Tier
        BY <1>0 DEF TypeOK, Settled
      <4>2. Refill[tier[p]] * (served' - served) \in Nat
        BY <4>1, Sizes, ServedAdvances
      <4> QED
        BY <4>1, <4>2, Sizes DEF Smaller
    <3> QED
      BY <3>1, <3>2, <3>3
  <2> QED
    BY <1>1, <2>1, <2>2, <2>3, <2>4, <2>5, <2>6 DEF TypeOK
<1>6. SettledTiers'
  <2>1. ASSUME NEW p \in Settled, p \in tracked' PROVE bucket'[p].quota = FirstTier[p]
    <3>1. CASE p = w
      BY <1>0, <1>3, <2>1, <3>1 DEF SettledTiers, w
    <3>2. CASE p # w
      BY <1>0, <1>1, <2>1, <3>2, Sweep DEF SettledTiers
    <3> QED
      BY <3>1, <3>2
  <2>2. ASSUME NEW x \in Request, who'[x] \in Settled PROVE asked'[x] = FirstTier[who'[x]]
    <3>1. x # r
      BY <1>0, <1>4, <2>2 DEF TypeOK, Settled
    <3> QED
      BY <1>0, <1>4, <2>2, <3>1 DEF SettledTiers, TypeOK
  <2> QED
    BY <1>0, <1>4, <2>1, <2>2 DEF SettledTiers
<1>7. IsFiniteSet(tracked') /\ Cardinality(tracked') <= MaxBuckets
  <2>1. CASE tracked' = Kept(r)
    BY <2>1, Sweep
  <2>2. CASE ~NoRoom(r) /\ tracked' = Kept(r) \union {w}
    <3>1. CASE w \in tracked
      <4>1. tracked' = Kept(r)
        BY <2>2, <3>1, Sweep DEF w
      <4> QED
        BY <4>1, Sweep
    <3>2. CASE w \notin tracked
      <4>1. Cardinality(Kept(r)) < MaxBuckets /\ w \notin Kept(r)
        BY <2>2, <3>2, Sweep DEF NoRoom, w
      <4>2. IsFiniteSet(Kept(r) \union {w}) /\ Cardinality(Kept(r) \union {w}) = Cardinality(Kept(r)) + 1
        BY <4>1, Sweep, FS_AddElement
      <4> QED
        BY <2>2, <4>1, <4>2, Sweep
    <3> QED
      BY <3>1, <3>2
  <2> QED
    BY <2>1, <2>2 DEF Serves, w
<1> QED
  BY <1>5, <1>6, <1>7 DEF LimiterInv, StoreBounded

(* Every step keeps them.                                                  *)
LEMMA LimiterStep == LimiterInv /\ [Next]_vars => LimiterInv'
<1> SUFFICES ASSUME LimiterInv, [Next]_vars PROVE LimiterInv'
  OBVIOUS
<1>0. TypeOK /\ SettledTiers /\ IsFiniteSet(tracked) /\ StoreBounded
  BY DEF LimiterInv
<1> USE DEF store, history, request
<1>1. CASE UNCHANGED vars
  BY <1>1 DEF vars, LimiterInv, TypeOK, SettledTiers, StoreBounded
<1>2. CASE Tick
  <2>1. clock' \in 0 .. MaxClock /\ clock <= clock'
    BY <1>0, <1>2 DEF Tick, TypeOK
  <2>2. TypeOK'
    BY <1>0, <1>2, <2>1 DEF Tick, TypeOK
  <2> QED
    BY <1>0, <1>2, <2>2 DEF Tick, SettledTiers, LimiterInv, StoreBounded
<1>3. ASSUME NEW p \in Moving, NEW q \in Tier, Retier(p, q) PROVE LimiterInv'
  <2>1. TypeOK'
    BY <1>0, <1>3 DEF Retier, TypeOK
  <2>2. SettledTiers'
    BY <1>0, <1>3 DEF Retier, TypeOK, SettledTiers, Settled
  <2> QED
    BY <1>0, <1>3, <2>1, <2>2 DEF Retier, LimiterInv, StoreBounded
<1>4. ASSUME NEW r \in Request, NEW p \in Principal, Arrive(r, p) PROVE LimiterInv'
  <2>1. TypeOK'
    BY <1>0, <1>4 DEF Arrive, TypeOK
  <2>2. SettledTiers'
    BY <1>0, <1>4 DEF Arrive, TypeOK, SettledTiers, Settled
  <2> QED
    BY <1>0, <1>4, <2>1, <2>2 DEF Arrive, LimiterInv, StoreBounded
<1>5. ASSUME NEW r \in Request, Admit(r) PROVE LimiterInv'
  BY <1>5, AdmitServes, AdmitKeeps
<1> QED
  BY <1>1, <1>2, <1>3, <1>4, <1>5 DEF Next

(* The invariant holds throughout.                                         *)
THEOREM LimiterInvariant == Spec => []LimiterInv
  BY LimiterInit, LimiterStep, PTL DEF Spec

(* The store never outgrows its bound, in whatever order requests, sweeps  *)
(* and tier changes come.                                                  *)
THEOREM StoreIsBounded == Spec => []StoreBounded
<1>1. LimiterInv => StoreBounded
  BY DEF LimiterInv
<1> QED
  BY <1>1, LimiterInvariant, PTL

-----------------------------------------------------------------------------
(***************************************************************************)
(* What an admit does to the bucket of one settled principal, when that    *)
(* principal's own requests come in order.                                 *)
(***************************************************************************)
Ordered(r) == who[r] \in Settled => stamp[r] >= served

(* What a settled principal may hold, and how fast it refills.             *)
LEMMA SettledFacts ==
  ASSUME LimiterInv, NEW p \in Settled
  PROVE  /\ p \in Principal /\ FirstTier[p] \in Tier /\ tier[p] = FirstTier[p]
         /\ Rate[p] = Refill[FirstTier[p]] /\ Rate[p] \in Nat \ {0}
         /\ CapacityUnits(FirstTier[p]) \in Nat /\ CapacityUnits(FirstTier[p]) >= Unit
         /\ Full(FirstTier[p]) = CapacityUnits(FirstTier[p]) * TicksPerMs
         /\ Full(FirstTier[p]) \in Nat
         /\ Burst[p] = Full(FirstTier[p]) + Rate[p] * (TicksPerMs - 1)
         /\ Burst[p] \in Nat /\ Full(FirstTier[p]) <= Burst[p]
         /\ bucket[p] \in Bucket /\ bucket[p].units \in Nat /\ bucket[p].last \in Nat
         /\ fluid[p] \in Int
         /\ p \in tracked => bucket[p].quota = FirstTier[p] /\ bucket[p].last <= served
<1>1. /\ p \in Principal /\ FirstTier[p] \in Tier /\ bucket[p] \in Bucket /\ fluid[p] \in Int
      /\ p \in tracked => bucket[p].last <= served
  BY DEF LimiterInv, TypeOK, Settled
<1>2. tier[p] = FirstTier[p] /\ (p \in tracked => bucket[p].quota = FirstTier[p])
  BY DEF LimiterInv, SettledTiers
<1>3. Rate[p] = Refill[FirstTier[p]] /\ Rate[p] \in Nat \ {0} /\ Rate[p] * (TicksPerMs - 1) \in Nat
  BY <1>1, Sizes DEF Rate
<1>4. bucket[p].units \in Nat /\ bucket[p].last \in Nat
  BY <1>1 DEF Bucket
<1>5. Burst[p] = Full(FirstTier[p]) + Rate[p] * (TicksPerMs - 1)
  BY DEF Burst
<1> QED
  BY <1>1, <1>2, <1>3, <1>4, <1>5, Sizes

(* Its own bucket, up to date and less what was spent.  A new bucket is a  *)
(* full one that was brought up to date when the request was stamped.      *)
LEMMA OwnBucket ==
  ASSUME LimiterInv, NEW r \in Request, NEW n, Serves(r, n), Ordered(r),
         who[r] \in Settled, who[r] \in tracked'
  PROVE  LET p == who[r]
             u == IF p \in tracked THEN bucket[p].units ELSE CapacityUnits(FirstTier[p])
             l == IF p \in tracked THEN bucket[p].last ELSE served'
             U == Current(r).units
             L == Current(r).last
         IN  /\ U \in Nat /\ L \in Nat /\ n \in Nat /\ n <= U
             /\ bucket'[p].units = U - n /\ bucket'[p].last = L
             /\ L <= served' /\ served' - L <= TicksPerMs - 1 /\ l <= served'
             /\ U <= CapacityUnits(FirstTier[p])
             /\ U * TicksPerMs + Rate[p] * (served' - L) <= u * TicksPerMs + Rate[p] * (served' - l)
             /\ \/ U = CapacityUnits(FirstTier[p])
                \/ U * TicksPerMs + Rate[p] * (served' - L) = u * TicksPerMs + Rate[p] * (served' - l)
<1> DEFINE p == who[r]
           b == IF p \in tracked THEN bucket[p] ELSE NewBucket(asked[r], stamp[r])
           u == IF p \in tracked THEN bucket[p].units ELSE CapacityUnits(FirstTier[p])
           l == IF p \in tracked THEN bucket[p].last ELSE served'
           U == Current(r).units
           L == Current(r).last
           T == TicksPerMs
           R == Rate[p]
           C == CapacityUnits(FirstTier[p])
           e == ElapsedMs(b, stamp[r])
<1>1. /\ p \in Principal /\ asked[r] = FirstTier[p] /\ stamp[r] \in Nat /\ served' = stamp[r]
      /\ served \in Nat /\ served <= served' /\ FirstTier[p] \in Tier
      /\ R = Refill[FirstTier[p]] /\ R \in Nat /\ C \in Nat /\ T \in Nat \ {0}
  <2>1. asked[r] = FirstTier[p]
    BY DEF LimiterInv, SettledTiers
  <2>2. served' = stamp[r]
    BY ServedAdvances DEF Ordered, Later
  <2> QED
    BY <2>1, <2>2, ServedAdvances, SettledFacts, Sizes
<1>2. b \in Bucket /\ b.units = u /\ b.last = l /\ u \in Nat /\ l \in Nat /\ l <= served'
  <2>1. CASE p \in tracked
    BY <1>1, <2>1, SettledFacts
  <2>2. CASE p \notin tracked
    BY <1>1, <2>2 DEF NewBucket, Bucket
  <2> QED
    BY <2>1, <2>2
<1>3. Current(r) = Refilled(b, FirstTier[p], stamp[r])
  BY <1>1 DEF Current
<1>4. bucket'[p].units = U - n /\ bucket'[p].last = L /\ n \in Nat /\ n <= U
  <2>1. Current(r) \in Bucket
    BY <1>1, CurrentFacts
  <2>2. n \in {0, Unit} /\ Current(r).units >= n /\ bucket'[p] = [Current(r) EXCEPT !.units = @ - n]
    BY Sweep DEF Serves
  <2> QED
    BY <2>1, <2>2, Sizes DEF Bucket
<1> HIDE DEF p, b, u, l, C, R, T
<1>5. /\ e \in Nat /\ e * T <= Later(stamp[r] - b.last, 0)
      /\ Later(stamp[r] - b.last, 0) < e * T + T
      /\ U = Smaller(b.units + e * R, C) /\ U <= C /\ L = b.last + e * T
      /\ U \in Nat /\ L \in Nat
  <2>1. /\ e \in Nat /\ e * T <= Later(stamp[r] - b.last, 0)
        /\ Later(stamp[r] - b.last, 0) < e * T + T
        /\ U = Smaller(b.units + e * R, C) /\ U <= C /\ L = b.last + e * T
        /\ Current(r) \in Bucket
    <3>1. Refills(b, FirstTier[p], stamp[r])
      BY <1>1, <1>2, RefillFacts, Zenon
    <3>2. Current(r) = Refilled(b, FirstTier[p], stamp[r]) /\ R = Refill[FirstTier[p]]
      BY <1>1, <1>3
    <3> QED
      BY <3>1, <3>2, Zenon DEF T, C, Refills
  <2> QED
    BY <2>1 DEF Bucket
<1> HIDE DEF e, U, L
<1> DEFINE d == served' - l
<1>6. d \in Nat /\ Later(stamp[r] - b.last, 0) = d
  BY <1>1, <1>2 DEF Later
<1>7. L = l + e * T /\ e * T \in Nat /\ e * T <= d /\ d < e * T + T /\ e * R \in Nat
  BY <1>1, <1>2, <1>5, <1>6
<1>8. L <= served' /\ served' - L = d - e * T /\ served' - L <= T - 1
  BY <1>1, <1>2, <1>6, <1>7
<1>9. (u + e * R) * T + R * (d - e * T) = u * T + R * d
  BY <1>1, <1>2, <1>5, <1>6, <1>7, Conserved
<1>10. CASE u + e * R < C
  <2>1. U = u + e * R
    BY <1>2, <1>5, <1>10 DEF Smaller
  <2>2. U * T + R * (served' - L) = u * T + R * (served' - l)
    BY <1>8, <1>9, <2>1
  <2>3. U * T + R * (served' - L) <= u * T + R * (served' - l)
    <3>1. u * T \in Nat /\ R * d \in Nat
      BY <1>1, <1>2, <1>6
    <3> QED
      BY <2>2, <3>1
  <2> QED
    BY <1>2, <1>4, <1>5, <1>8, <2>2, <2>3 DEF p, u, l, U, L, T, R, C
<1>11. CASE ~(u + e * R < C)
  <2>1. U = C /\ C <= u + e * R
    BY <1>1, <1>2, <1>5, <1>7, <1>11 DEF Smaller
  <2>2. U * T <= (u + e * R) * T /\ U * T \in Nat /\ (u + e * R) * T \in Nat
    BY <1>1, <1>2, <1>5, <1>7, <2>1, Monotone
  <2>3. R * (served' - L) \in Nat /\ R * (served' - L) = R * (d - e * T)
    BY <1>1, <1>7, <1>6, <1>8
  <2>4. U * T + R * (served' - L) <= u * T + R * (served' - l)
    <3>1. U * T + R * (served' - L) <= (u + e * R) * T + R * (served' - L)
      BY <2>2, <2>3
    <3> QED
      BY <1>9, <2>3, <3>1
  <2> QED
    BY <1>2, <1>4, <1>5, <1>8, <2>1, <2>4 DEF p, u, l, U, L, T, R, C
<1> QED
  BY <1>10, <1>11

(* A bucket that a sweep drops had refilled by then.                       *)
LEMMA EvictedBucket ==
  ASSUME LimiterInv, NEW r \in Request, NEW n, Serves(r, n),
         NEW p \in Settled, p \in tracked, p \notin tracked'
  PROVE  /\ p # who[r]
         /\ bucket[p].units + ElapsedMs(bucket[p], stamp[r]) * Rate[p] >= CapacityUnits(FirstTier[p])
         /\ bucket[p].units * TicksPerMs + Rate[p] * (served' - bucket[p].last) >= Full(FirstTier[p])
<1> DEFINE u == bucket[p].units
           l == bucket[p].last
           e == ElapsedMs(bucket[p], stamp[r])
           R == Rate[p]
           T == TicksPerMs
<1>1. p # who[r] /\ p \notin Kept(r)
  BY Sweep DEF Serves
<1>2. /\ u \in Nat /\ l \in Nat /\ l <= served /\ R \in Nat /\ T \in Nat \ {0} /\ bucket[p] \in Bucket
      /\ bucket[p].quota = FirstTier[p] /\ FirstTier[p] \in Tier /\ R = Refill[FirstTier[p]]
      /\ CapacityUnits(FirstTier[p]) \in Nat
      /\ Full(FirstTier[p]) = CapacityUnits(FirstTier[p]) * T
      /\ stamp[r] \in Nat /\ served' \in Nat /\ served \in Nat /\ served <= served' /\ stamp[r] <= served'
  BY SettledFacts, Sizes, ServedAdvances
<1>3. u + e * R >= CapacityUnits(FirstTier[p])
  <2>1. IsFullAt(bucket[p], stamp[r])
    BY <1>1, Sweep
  <2> QED
    BY <1>2, <2>1 DEF IsFullAt, Earned
<1>4. e \in Nat /\ e * T <= Later(stamp[r] - l, 0)
  <2>1. Refills(bucket[p], FirstTier[p], stamp[r])
    BY <1>2, RefillFacts, Zenon
  <2> QED
    BY <2>1, Zenon DEF Refills
<1> HIDE DEF u, l, e, R, T
<1> DEFINE d == served' - l
<1>5. d \in Nat /\ Later(stamp[r] - l, 0) <= d /\ Later(stamp[r] - l, 0) \in Int
  <2> SUFFICES ASSUME NEW s \in Nat, NEW v \in Nat, NEW k \in Nat, k <= v, s <= v
               PROVE  v - k \in Nat /\ Later(s - k, 0) <= v - k /\ Later(s - k, 0) \in Int
    <3>1. l \in Nat /\ l <= served' /\ stamp[r] \in Nat /\ served' \in Nat /\ stamp[r] <= served'
      BY <1>2
    <3> QED
      BY <3>1
  <2> QED
    BY DEF Later
<1> HIDE DEF d
<1>6. e * T \in Nat /\ e * R \in Nat /\ e * T <= d
  <2>1. e \in Nat /\ T \in Nat /\ R \in Nat
    BY <1>2, <1>4
  <2>2. e * T \in Nat /\ e * R \in Nat
    BY <2>1
  <2> QED
    BY <1>4, <1>5, <2>2
<1>7. (u + e * R) * T <= u * T + R * d
  BY <1>2, <1>4, <1>5, <1>6, Conserved
<1>8. CapacityUnits(FirstTier[p]) * T <= (u + e * R) * T /\ (u + e * R) * T \in Nat
  <2>1. u + e * R \in Nat
    BY <1>2, <1>6
  <2> QED
    BY <1>2, <1>3, <2>1, Monotone
<1>9. u * T + R * d \in Nat
  BY <1>2, <1>5
<1>10. u * T + R * d >= Full(FirstTier[p])
  BY <1>2, <1>7, <1>8, <1>9
<1> QED
  BY <1>1, <1>3, <1>10 DEF u, l, e, R, T, d

(* A bucket is only dropped when its principal would find it full, were it *)
(* still there.                                                            *)
THEOREM EvictionsAreInvisible == Spec => EvictionInvisible
<1>1. ASSUME LimiterInv, [Next]_vars
      PROVE  [\A r \in Request : Admit(r) =>
                \A p \in (tracked \ tracked') \intersect Settled :
                   Refilled(bucket[p], tier[p], stamp[r]).units = CapacityUnits(tier[p])]_vars
  <2> SUFFICES ASSUME NEW r \in Request, Admit(r), NEW p \in Settled, p \in tracked, p \notin tracked'
               PROVE  Refilled(bucket[p], tier[p], stamp[r]).units = CapacityUnits(tier[p])
    OBVIOUS
  <2> DEFINE e == ElapsedMs(bucket[p], stamp[r])
  <2>1. PICK n \in {0, Unit} : Serves(r, n)
    BY <1>1, AdmitServes
  <2>2. bucket[p].units + e * Rate[p] >= CapacityUnits(FirstTier[p])
    BY <1>1, <2>1, EvictedBucket
  <2>3. /\ tier[p] = FirstTier[p] /\ FirstTier[p] \in Tier /\ bucket[p] \in Bucket
        /\ Rate[p] = Refill[FirstTier[p]] /\ Rate[p] \in Nat /\ CapacityUnits(FirstTier[p]) \in Nat
        /\ stamp[r] \in Nat /\ bucket[p].units \in Nat
    BY <1>1, <2>1, SettledFacts, ServedAdvances
  <2>4. Refilled(bucket[p], tier[p], stamp[r]).units
           = Smaller(bucket[p].units + e * Rate[p], CapacityUnits(FirstTier[p]))
        /\ e \in Nat
    <3>1. Refills(bucket[p], FirstTier[p], stamp[r])
      BY <2>3, RefillFacts, Zenon
    <3> QED
      BY <2>3, <3>1, Zenon DEF Refills
  <2> HIDE DEF e
  <2>5. e * Rate[p] \in Nat
    BY <2>3, <2>4
  <2> QED
    BY <2>2, <2>3, <2>4, <2>5 DEF Smaller
<1> QED
  BY <1>1, LimiterInvariant, PTL DEF Spec, EvictionInvisible

-----------------------------------------------------------------------------
(***************************************************************************)
(* What a settled principal's bucket is worth at the latest answer: what   *)
(* it holds and what it has yet to be given, or a full bucket when the     *)
(* store has none.                                                         *)
(***************************************************************************)
Holding(p) == bucket[p].units * TicksPerMs + Rate[p] * (served - bucket[p].last)
Worth(p) == IF p \in tracked THEN Holding(p) ELSE Full(FirstTier[p])

Spent(r, n, p) == IF p = who[r] THEN n * TicksPerMs ELSE 0
Earning(p) == Rate[p] * (served' - served)

(* What a bucket is worth is a number of tokens.                           *)
LEMMA WorthType ==
  ASSUME LimiterInv, NEW p \in Settled
  PROVE  /\ Worth(p) \in Nat
         /\ Level[p] = Smaller(Worth(p), Burst[p])
<1>1. CASE p \in tracked
  <2>1. /\ bucket[p].units * TicksPerMs \in Nat /\ served - bucket[p].last \in Nat /\ Rate[p] \in Nat
    <3>1. served \in Nat
      BY DEF LimiterInv, TypeOK
    <3> QED
      BY <1>1, <3>1, SettledFacts, Sizes
  <2>2. Rate[p] * (served - bucket[p].last) \in Nat
    BY <2>1
  <2> QED
    BY <1>1, <2>1, <2>2 DEF Worth, Holding, Level
<1>2. CASE p \notin tracked
  <2>1. /\ Worth(p) = Full(FirstTier[p]) /\ Level[p] = Full(FirstTier[p])
    BY <1>2 DEF Worth, Level
  <2> QED
    BY <2>1, SettledFacts DEF Smaller
<1> QED
  BY <1>1, <1>2

(* An instant earns as much whenever it is counted.                        *)
LEMMA Earnings ==
  ASSUME NEW R \in Nat, NEW l \in Nat, NEW s \in Nat, NEW v \in Nat
  PROVE  R * (v - l) = R * (s - l) + R * (v - s)
  OBVIOUS

(* What the bucket loses or gains on the way: nothing but what is spent,   *)
(* and what exceeds a full one.                                            *)
LEMMA WorthStep ==
  ASSUME LimiterInv, NEW r \in Request, NEW n, Serves(r, n), Ordered(r), NEW p \in Settled
  PROVE  /\ Earning(p) \in Nat /\ Spent(r, n, p) \in Nat
         /\ Worth(p)' + Spent(r, n, p) <= Worth(p) + Earning(p)
         /\ \/ Worth(p)' + Spent(r, n, p) >= Full(FirstTier[p])
            \/ Worth(p)' + Spent(r, n, p) = Worth(p) + Earning(p)
         /\ p = who[r] => Worth(p)' + Spent(r, n, p) <= Burst[p]
<1> DEFINE C == CapacityUnits(FirstTier[p])
           F == Full(FirstTier[p])
           R == Rate[p]
           T == TicksPerMs
<1>1. /\ served \in Nat /\ served' \in Nat /\ served <= served' /\ n \in Nat
      /\ R \in Nat /\ T \in Nat \ {0} /\ C \in Nat /\ F \in Nat /\ F = C * T
      /\ Burst[p] = F + R * (T - 1) /\ F <= Burst[p] /\ Burst[p] \in Nat
  <2>1. n \in Nat
    BY Sizes DEF Serves
  <2> QED
    BY <2>1, SettledFacts, Sizes, ServedAdvances
<1>2. Earning(p) \in Nat /\ Spent(r, n, p) \in Nat
  BY <1>1 DEF Earning, Spent
<1>3. Worth(p)' = IF p \in tracked' THEN bucket'[p].units * T + R * (served' - bucket'[p].last) ELSE F
  BY DEF Worth, Holding, Rate
<1>4. CASE p \in tracked' /\ p = who[r]
  <2> DEFINE u == IF p \in tracked THEN bucket[p].units ELSE C
             l == IF p \in tracked THEN bucket[p].last ELSE served'
             U == Current(r).units
             L == Current(r).last
  <2>1. /\ U \in Nat /\ L \in Nat /\ n <= U /\ bucket'[p].units = U - n /\ bucket'[p].last = L
        /\ L <= served' /\ served' - L <= T - 1 /\ U <= C
        /\ U * T + R * (served' - L) <= u * T + R * (served' - l)
        /\ \/ U = C
           \/ U * T + R * (served' - L) = u * T + R * (served' - l)
    BY <1>4, OwnBucket
  <2>2. u * T + R * (served' - l) <= Worth(p) + Earning(p)
        /\ (p \in tracked => u * T + R * (served' - l) = Worth(p) + Earning(p))
        /\ (p \notin tracked => u * T + R * (served' - l) = F)
    <3>1. CASE p \in tracked
      <4>1. /\ Worth(p) = u * T + R * (served - l) /\ u \in Nat /\ l \in Nat
            /\ u * T \in Nat
        BY <1>1, <3>1, SettledFacts DEF Worth, Holding
      <4>2. R * (served' - l) = R * (served - l) + Earning(p)
        BY <1>1, <4>1, Earnings DEF Earning
      <4>3. R * (served - l) \in Int /\ R * (served' - l) \in Int
        BY <1>1, <4>1
      <4> HIDE DEF u, l, R, T
      <4> QED
        BY <1>2, <3>1, <4>1, <4>2, <4>3
    <3>2. CASE p \notin tracked
      <4>1. u = C /\ l = served' /\ Worth(p) = F
        BY <3>2 DEF Worth
      <4>2. u * T + R * (served' - l) = F
        BY <1>1, <4>1
      <4> QED
        BY <1>1, <1>2, <3>2, <4>1, <4>2
    <3> QED
      BY <3>1, <3>2
  <2> HIDE DEF u, l, U, L, C, F, R, T
  <2>12. /\ U - n \in Nat /\ served' - L \in Nat /\ T - 1 \in Nat /\ served' - L <= T - 1
         /\ n \in Nat /\ T \in Nat /\ R \in Nat
    <3>1. /\ U \in Nat /\ L \in Nat /\ n \in Nat /\ n <= U /\ L <= served' /\ served' \in Nat
          /\ served' - L <= T - 1 /\ T \in Nat \ {0} /\ R \in Nat
      BY <1>1, <2>1, Zenon DEF T, R
    <3>2. U - n \in Nat
      BY <3>1
    <3>3. served' - L \in Nat
      BY <3>1, Difference, Zenon
    <3>4. T - 1 \in Nat /\ T \in Nat
      BY <3>1
    <3> QED
      BY <3>1, <3>2, <3>3, <3>4, Zenon
  <2>3. Worth(p)' + Spent(r, n, p) = U * T + R * (served' - L)
    <3>1. (U - n) * T + n * T = U * T
      BY <1>1, <2>1
    <3>2. (U - n) * T \in Nat /\ n * T \in Nat /\ R * (served' - L) \in Nat
      BY <2>12
    <3>3. Worth(p)' = (U - n) * T + R * (served' - L)
      BY <1>3, <1>4, <2>1
    <3>4. Spent(r, n, p) = n * T
      BY <1>4 DEF Spent, T
    <3> QED
      BY <3>1, <3>2, <3>3, <3>4
  <2>4. U * T <= C * T /\ U * T \in Nat /\ C * T \in Nat
    BY <1>1, <2>1, Monotone
  <2>5. R * (served' - L) <= R * (T - 1) /\ R * (served' - L) \in Nat
    BY <2>12, Monotone
  <2>6. Worth(p)' + Spent(r, n, p) <= Burst[p]
    BY <1>1, <2>3, <2>4, <2>5
  <2>7. U = C => Worth(p)' + Spent(r, n, p) >= F
    BY <1>1, <2>3, <2>4, <2>5
  <2>8. /\ Worth(p)' + Spent(r, n, p) <= u * T + R * (served' - l)
        /\ \/ U = C
           \/ Worth(p)' + Spent(r, n, p) = u * T + R * (served' - l)
    BY <2>1, <2>3
  <2>9. Worth(p)' + Spent(r, n, p) \in Nat /\ Worth(p) \in Nat
    BY <2>3, <2>4, <2>5, WorthType
  <2>10. CASE p \in tracked
    BY <1>2, <2>2, <2>6, <2>7, <2>8, <2>10 DEF F
  <2>11. CASE p \notin tracked
    <3>1. Worth(p)' + Spent(r, n, p) >= F
      BY <1>1, <2>2, <2>7, <2>8, <2>9, <2>11
    <3>2. Worth(p) = F
      BY <2>11 DEF Worth, F
    <3> QED
      BY <1>1, <1>2, <2>2, <2>6, <2>8, <2>9, <2>11, <3>1, <3>2 DEF F
  <2> QED
    BY <2>10, <2>11
<1>5. CASE p \in tracked' /\ p # who[r]
  <2>1. p \in tracked /\ bucket'[p] = bucket[p]
    BY <1>5, Sweep DEF Serves
  <2> DEFINE u == bucket[p].units
             l == bucket[p].last
  <2>2. u \in Nat /\ l \in Nat
    BY SettledFacts
  <2>3. Worth(p) = u * T + R * (served - l) /\ Worth(p)' = u * T + R * (served' - l)
    BY <1>3, <1>5, <2>1 DEF Worth, Holding
  <2> HIDE DEF u, l, R, T
  <2>4. R * (served' - l) = R * (served - l) + Earning(p)
    BY <1>1, <2>2, Earnings DEF Earning, R
  <2>5. u * T \in Nat /\ R * (served - l) \in Int /\ R * (served' - l) \in Int
    BY <1>1, <2>2
  <2>6. Worth(p)' = Worth(p) + Earning(p)
    BY <1>2, <2>3, <2>4, <2>5
  <2>7. Spent(r, n, p) = 0
    BY <1>5 DEF Spent
  <2> QED
    BY <1>2, <1>5, <2>6, <2>7, WorthType
<1>6. CASE p \notin tracked'
  <2>1. Worth(p)' = F
    BY <1>3, <1>6
  <2>2. Spent(r, n, p) = 0
    BY <1>6 DEF Spent, Serves
  <2>3. CASE p \notin tracked
    <3>1. Worth(p) = F
      BY <2>3 DEF Worth
    <3> QED
      BY <1>1, <1>2, <2>1, <2>2, <3>1
  <2>4. CASE p \in tracked
    <3> DEFINE u == bucket[p].units
               l == bucket[p].last
    <3>1. u * T + R * (served' - l) >= F /\ u \in Nat /\ l \in Nat
      BY <1>6, <2>4, EvictedBucket, SettledFacts
    <3>2. Worth(p) = u * T + R * (served - l)
      BY <2>4 DEF Worth, Holding
    <3> HIDE DEF u, l, R, T
    <3>3. R * (served' - l) = R * (served - l) + Earning(p)
      BY <1>1, <3>1, Earnings DEF Earning, R
    <3>4. u * T \in Nat /\ R * (served - l) \in Int /\ R * (served' - l) \in Int
      BY <1>1, <3>1
    <3>5. F <= Worth(p) + Earning(p)
      BY <1>1, <1>2, <3>1, <3>2, <3>3, <3>4
    <3> QED
      BY <1>1, <1>2, <2>1, <2>2, <3>5
  <2> QED
    BY <2>3, <2>4
<1> QED
  BY <1>2, <1>4, <1>5, <1>6

(* A refill order step is a step, and its admits come in order.            *)
LEMMA OrderedStep ==
  ASSUME [Next /\ InOrder]_vars
  PROVE  /\ [Next]_vars
         /\ \A r \in Request, n \in {0, Unit} : InOrder /\ Serves(r, n) /\ LimiterInv => Ordered(r)
<1>1. [Next]_vars
  OBVIOUS
<1>2. ASSUME NEW r \in Request, NEW n \in {0, Unit}, InOrder, Serves(r, n), LimiterInv PROVE Ordered(r)
  <2>1. who'[r] = None
    BY <1>2 DEF Serves, Answer, LimiterInv, TypeOK
  <2> QED
    BY <1>2, <2>1 DEF InOrder, Ordered
<1> QED
  BY <1>1, <1>2

(* A step answers a request, or leaves the store and the answers alone.    *)
LEMMA OrderedCases ==
  ASSUME LimiterInv, [Next /\ InOrder]_vars
  PROVE  \/ UNCHANGED <<tracked, bucket, served, fluid, admitted>>
         \/ \E r \in Request, n \in {0, Unit} : Serves(r, n) /\ Ordered(r) /\ (n = Unit <=> Admitted(r))
<1> USE DEF store, history
<1>1. CASE UNCHANGED vars
  BY <1>1 DEF vars
<1>2. CASE Tick
  BY <1>2 DEF Tick
<1>3. ASSUME NEW p \in Moving, NEW q \in Tier, Retier(p, q)
      PROVE  UNCHANGED <<tracked, bucket, served, fluid, admitted>>
  BY <1>3 DEF Retier
<1>4. ASSUME NEW r \in Request, NEW p \in Principal, Arrive(r, p)
      PROVE  UNCHANGED <<tracked, bucket, served, fluid, admitted>>
  BY <1>4 DEF Arrive
<1>5. ASSUME NEW r \in Request, Admit(r), InOrder
      PROVE  \E n \in {0, Unit} : Serves(r, n) /\ Ordered(r) /\ (n = Unit <=> Admitted(r))
  BY <1>5, AdmitServes, OrderedStep
<1> QED
  BY <1>1, <1>2, <1>3, <1>4, <1>5 DEF Next

(* FluidInv, for one principal.                                            *)
Covers(p) == fluid[p] <= Full(FirstTier[p]) /\ fluid[p] <= Worth(p)

(* The fluid invariant, principal by principal.                            *)
LEMMA FluidCovered == FluidInv <=> \A p \in Settled : Covers(p)
<1> SUFFICES ASSUME NEW p \in Settled
             PROVE  (/\ fluid[p] <= Full(FirstTier[p])
                     /\ p \in tracked =>
                          fluid[p] <= bucket[p].units * TicksPerMs + Rate[p] * (served - bucket[p].last))
                    <=> Covers(p)
  BY DEF FluidInv
<1> QED
  BY DEF Covers, Worth, Holding

(* The same of the next state.                                             *)
Valued == \A p \in Settled : Worth(p) \in Nat /\ Level[p] = Smaller(Worth(p), Burst[p])

(* And so it is after a step.                                              *)
LEMMA WorthNext == LimiterInv' => Valued'
<1>1. LimiterInv => Valued
  BY WorthType DEF Valued
<1> QED
  BY <1>1, PTL

(* Every step keeps the abstract buckets at what the stored ones are worth. *)
LEMMA FluidStep ==
  ASSUME LimiterInv, LimiterInv', FluidInv, [Next /\ InOrder]_vars
  PROVE  FluidInv'
<1>0. /\ (\A p \in Settled : Covers(p)') => FluidInv'
      /\ \A p \in Settled : Worth(p)' \in Nat
  <2>1. FluidInv' <=> (\A p \in Settled : Covers(p))'
    BY FluidCovered, PTL
  <2> QED
    BY <2>1, WorthNext DEF Valued
<1> SUFFICES ASSUME NEW p \in Settled PROVE Covers(p)'
  BY <1>0
<1>1. Covers(p)
  BY FluidCovered
<1>2. CASE UNCHANGED <<tracked, bucket, served, fluid, admitted>>
  BY <1>1, <1>2 DEF Covers, Worth, Holding, Rate
<1>3. ASSUME NEW r \in Request, NEW n \in {0, Unit}, Serves(r, n), Ordered(r) PROVE Covers(p)'
  <2> DEFINE F == Full(FirstTier[p])
             D == Earning(p)
             c == Spent(r, n, p)
             W == Worth(p)'
  <2>1. W + c >= F \/ W + c = Worth(p) + D
    BY <1>3, WorthStep
  <2>2. D \in Nat /\ c \in Nat
    BY <1>3, WorthStep
  <2>3. Worth(p) \in Nat /\ W \in Nat
    BY WorthType, <1>0
  <2>4. fluid[p] \in Int /\ F \in Nat
    BY SettledFacts
  <2>5. fluid'[p] = Smaller(fluid[p] + D, F) - c
    <3>1. fluid' = [q \in Settled |->
             Smaller(fluid[q] + Refill[tier[q]] * (served' - served), Full(tier[q]))
                - (IF q = who[r] THEN n * TicksPerMs ELSE 0)]
      BY <1>3 DEF Serves, Answer
    <3>2. Refill[tier[p]] = Rate[p] /\ tier[p] = FirstTier[p]
      BY SettledFacts
    <3> QED
      BY <3>1, <3>2 DEF Earning, Spent
  <2>6. fluid[p] <= Worth(p)
    BY <1>1 DEF Covers
  <2> HIDE DEF F, D, c, W
  <2>7. fluid'[p] <= F /\ fluid'[p] <= W
    BY <2>1, <2>2, <2>3, <2>4, <2>5, <2>6 DEF Smaller
  <2> QED
    BY <2>7 DEF Covers, F, W
<1> QED
  BY <1>2, <1>3, OrderedCases

(* Every abstract bucket is full at first.                                 *)
LEMMA FluidInit == Init => FluidInv
<1> SUFFICES ASSUME Init, NEW p \in Settled
             PROVE  fluid[p] <= Full(FirstTier[p]) /\ p \notin tracked
  BY DEF FluidInv
<1>1. fluid[p] = Full(FirstTier[p]) /\ tracked = {}
  BY DEF Init
<1>2. Full(FirstTier[p]) \in Nat
  BY Sizes DEF Settled
<1> QED
  BY <1>1, <1>2

(* Both invariants hold when requests come in order.                       *)
THEOREM OrderedInvariant == OrderedSpec => [](LimiterInv /\ FluidInv)
<1>1. [Next /\ InOrder]_vars => [Next]_vars
  OBVIOUS
<1>2. LimiterInv /\ [Next /\ InOrder]_vars => LimiterInv'
  BY <1>1, LimiterStep
<1>3. LimiterInv /\ LimiterInv' /\ FluidInv /\ [Next /\ InOrder]_vars => FluidInv'
  BY FluidStep
<1> QED
  BY <1>2, <1>3, LimiterInit, FluidInit, PTL DEF OrderedSpec

(* A caller is refused only if the ideal bucket holds less than a token    *)
(* and what an incomplete millisecond earns: what was rounded away and     *)
(* what other principals' sweeps dropped is never missing.                 *)
THEOREM RefusalsAreFair == OrderedSpec => RefusalIsFair
<1>1. ASSUME LimiterInv, LimiterInv', FluidInv', [Next /\ InOrder]_vars
      PROVE  [\A r \in Request : Refused(r) /\ who[r] \in Settled =>
                fluid'[who[r]] < Token + Refill[tier[who[r]]] * (TicksPerMs - 1)]_vars
  <2> SUFFICES ASSUME NEW r \in Request, Refused(r), who[r] \in Settled, vars' # vars
               PROVE  fluid'[who[r]] < Token + Refill[tier[who[r]]] * (TicksPerMs - 1)
    OBVIOUS
  <2> DEFINE p == who[r]
             U == Current(r).units
             L == Current(r).last
             T == TicksPerMs
             R == Rate[p]
  <2>1. Admit(r)
    BY DEF Admit
  <2>2. PICK n \in {0, Unit} : Serves(r, n) /\ (n = Unit <=> Admitted(r))
    BY <1>1, <2>1, AdmitServes
  <2>3. U < Unit /\ p \in tracked' /\ p \in Principal
    BY <1>1 DEF Refused, StoreBuckets, LimiterInv, TypeOK, Settled
  <2>4. Current(r) \in Bucket
    BY <1>1, <2>3, CurrentFacts
  <2>5. n = 0
    <3>1. ~Admitted(r)
      BY <2>3, <2>4, Sizes DEF Admitted, Bucket
    <3> QED
      BY <2>2, <3>1
  <2>6. Ordered(r)
    BY <1>1, <2>2, OrderedStep
  <2>7. /\ U \in Nat /\ L \in Nat /\ bucket'[p].units = U - n /\ bucket'[p].last = L
        /\ L <= served' /\ served' - L <= T - 1
    BY <1>1, <2>2, <2>3, <2>6, OwnBucket
  <2>8. fluid'[p] <= bucket'[p].units * T + R * (served' - bucket'[p].last)
    BY <1>1, <2>3 DEF FluidInv, Rate
  <2>9. /\ T \in Nat \ {0} /\ Unit \in Nat \ {0} /\ Token = Unit * T /\ R \in Nat
        /\ R = Refill[tier[p]] /\ served' \in Nat
    BY <1>1, <2>2, SettledFacts, Sizes, ServedAdvances
  <2>10. fluid'[p] \in Int
    BY <1>1 DEF LimiterInv, TypeOK
  <2> HIDE DEF p, U, L, T, R
  <2>11. fluid'[p] <= U * T + R * (served' - L)
    BY <2>5, <2>7, <2>8
  <2>12. U * T <= (Unit - 1) * T /\ U * T \in Nat /\ (Unit - 1) * T \in Nat
    <3>1. U \in Nat /\ Unit - 1 \in Nat /\ T \in Nat /\ U <= Unit - 1
      BY <2>3, <2>7, <2>9 DEF U
    <3> QED
      BY <3>1, Monotone
  <2>13. (Unit - 1) * T + T = Token
    BY <2>9
  <2>14. R * (served' - L) <= R * (T - 1) /\ R * (served' - L) \in Nat /\ R * (T - 1) \in Nat
    <3>1. served' - L \in Nat
      BY <2>7, <2>9, Difference, Zenon
    <3>2. T - 1 \in Nat
      BY <2>9
    <3>3. served' - L <= T - 1 /\ R \in Nat
      BY <2>7, <2>9, Zenon
    <3> QED
      BY <3>1, <3>2, <3>3, Monotone
  <2>15. fluid'[p] < Token + R * (T - 1)
    BY <2>9, <2>10, <2>11, <2>12, <2>13, <2>14
  <2> QED
    BY <2>9, <2>15 DEF p, T, R
<1> QED
  BY <1>1, OrderedInvariant, PTL DEF OrderedSpec, RefusalIsFair

-----------------------------------------------------------------------------
(***************************************************************************)
(* The store is a token bucket per principal: every step is a step of      *)
(* TokenBucket or leaves it alone.                                         *)
(***************************************************************************)

(* What the next request can find is bounded.                              *)
LEMMA LevelStep ==
  ASSUME LimiterInv, LimiterInv', NEW r \in Request, NEW n, Serves(r, n), Ordered(r), NEW p \in Settled
  PROVE  /\ Level'[p] \in Nat
         /\ Level'[p] + Spent(r, n, p) <= Bucketed!Earned(p, served')
<1> DEFINE W == Worth(p)
           V == Worth(p)'
           B == Burst[p]
           D == Earning(p)
           c == Spent(r, n, p)
<1>1. /\ D \in Nat /\ c \in Nat
      /\ V + c <= W + D
      /\ p = who[r] => V + c <= B
  BY WorthStep
<1>2. p # who[r] => c = 0
  BY DEF Spent
<1>3. W \in Nat /\ Level[p] = Smaller(W, B)
  BY WorthType
<1>4. V \in Nat /\ Level'[p] = Smaller(V, B)
  BY WorthNext DEF Valued, Smaller, Burst, Rate
<1>5. B \in Nat
  BY SettledFacts
<1>6. Bucketed!Earned(p, served') = Smaller(Level[p] + D, B)
  BY DEF Bucketed!Earned, Smaller, Earning
<1> HIDE DEF W, V, B, D, c
<1>7. Level'[p] \in Nat
  BY <1>4, <1>5 DEF Smaller
<1>8. Level'[p] + c <= Level[p] + D
  BY <1>1, <1>2, <1>3, <1>4, <1>5 DEF Smaller
<1>9. Level'[p] + c <= B
  BY <1>1, <1>2, <1>4, <1>5 DEF Smaller
<1> QED
  BY <1>6, <1>7, <1>8, <1>9 DEF Smaller, c

(* Rate limiting refines token buckets: no sequence of requests gains a    *)
(* principal more than its burst and what time has earned it.              *)
THEOREM TokenBucketsImplemented == OrderedSpec => ImplementsTokenBucket
<1>1. Init => Bucketed!Init
  <2> SUFFICES ASSUME Init PROVE Bucketed!Init
    OBVIOUS
  <2>1. LimiterInv
    BY LimiterInit
  <2>2. \A p \in Settled : Level[p] \in Nat /\ Level[p] <= Burst[p]
    BY <2>1, WorthType, SettledFacts DEF Smaller
  <2>3. Level = [p \in Settled |-> Level[p]]
    BY DEF Level
  <2>4. Level \in [Settled -> Nat]
    BY <2>2, <2>3
  <2> QED
    BY <2>2, <2>4 DEF Bucketed!Init, Init
<1>2. ASSUME LimiterInv, LimiterInv', [Next /\ InOrder]_vars
      PROVE  [Bucketed!Next]_(Bucketed!vars)
  <2>1. CASE UNCHANGED <<tracked, bucket, served, fluid, admitted>>
    BY <2>1 DEF Bucketed!vars, Level, Burst, Rate
  <2>2. ASSUME NEW r \in Request, NEW n \in {0, Unit}, Serves(r, n), Ordered(r)
        PROVE  Bucketed!Next
    <3>1. /\ served' \in Nat /\ served' >= served
      BY <1>2, <2>2, ServedAdvances
    <3>2. Level' = [p \in Settled |-> Level'[p]]
      BY DEF Level
    <3>3. \A p \in Settled : /\ Level'[p] \in Nat
                             /\ Level'[p] + Spent(r, n, p) <= Bucketed!Earned(p, served')
      BY <1>2, <2>2, LevelStep
    <3>4. Level' \in [Settled -> Nat]
      BY <3>2, <3>3
    <3>5. ASSUME NEW spent, \A p \in Settled : spent[p] = Spent(r, n, p)
          PROVE  Bucketed!Advance(spent)
      BY <3>1, <3>3, <3>4, <3>5 DEF Bucketed!Advance
    <3>6. admitted' = [p \in Settled |-> admitted[p] + IF p = who[r] /\ n # 0 THEN 1 ELSE 0]
      BY <2>2 DEF Serves
    <3>7. admitted \in [Settled -> Nat]
      BY <1>2 DEF LimiterInv, TypeOK
    <3>8. Unit # 0 /\ 0 * TicksPerMs = 0 /\ Unit * TicksPerMs = Token
      BY Sizes
    <3>9. CASE n = 0 \/ who[r] \notin Settled
      <4>1. Bucketed!Advance([p \in Settled |-> 0])
        BY <3>5, <3>8, <3>9 DEF Spent
      <4>2. admitted' = admitted
        BY <3>6, <3>7, <3>9
      <4> QED
        BY <4>1, <4>2 DEF Bucketed!Pass, Bucketed!Next
    <3>10. CASE n = Unit /\ who[r] \in Settled
      <4>1. Bucketed!Advance([p \in Settled |-> IF p = who[r] THEN Token ELSE 0])
        BY <3>5, <3>8, <3>10 DEF Spent
      <4>2. n # 0
        BY <3>8, <3>10
      <4>3. admitted' = [p \in Settled |-> IF p = who[r] THEN admitted[p] + 1 ELSE admitted[p]]
        <5>1. ASSUME NEW p \in Settled
              PROVE  admitted[p] + (IF p = who[r] /\ n # 0 THEN 1 ELSE 0)
                        = IF p = who[r] THEN admitted[p] + 1 ELSE admitted[p]
          BY <3>7, <4>2
        <5> QED
          BY <3>6, <5>1
      <4>4. admitted' = [admitted EXCEPT ![who[r]] = @ + 1]
        BY <3>7, <3>10, <4>3
      <4> QED
        BY <3>10, <4>1, <4>4 DEF Bucketed!Spend, Bucketed!Next
    <3> QED
      BY <3>9, <3>10
  <2> QED
    BY <1>2, <2>1, <2>2, OrderedCases
<1> QED
  BY <1>1, <1>2, OrderedInvariant, PTL DEF OrderedSpec, ImplementsTokenBucket, Bucketed!Spec

(* What a principal was given and what it may still spend came from its    *)
(* burst and from time.                                                    *)
Accounted(p) == admitted[p] * Token + Level[p] <= Burst[p] + Rate[p] * served
AccountInv == \A p \in Settled : Accounted(p)

(* Every step of a bucket keeps the account of its admissions.             *)
LEMMA AccountStep ==
  ASSUME LimiterInv, LimiterInv', AccountInv, [Next /\ InOrder]_vars
  PROVE  AccountInv'
<1> SUFFICES ASSUME NEW p \in Settled
             PROVE  admitted'[p] * Token + Level'[p] <= Burst[p] + Rate[p] * served'
  BY DEF AccountInv, Accounted, Burst, Rate
<1>1. admitted[p] * Token + Level[p] <= Burst[p] + Rate[p] * served
  BY DEF AccountInv, Accounted
<1>2. CASE UNCHANGED <<tracked, bucket, served, fluid, admitted>>
  <2>1. Level' = Level /\ admitted' = admitted /\ served' = served
    BY <1>2 DEF Level, Burst, Rate
  <2> QED
    BY <1>1, <2>1
<1>3. ASSUME NEW r \in Request, NEW n \in {0, Unit}, Serves(r, n), Ordered(r)
      PROVE  admitted'[p] * Token + Level'[p] <= Burst[p] + Rate[p] * served'
  <2> DEFINE a == admitted[p]
             k == Level[p]
             j == Level'[p]
             B == Burst[p]
             R == Rate[p]
             c == Spent(r, n, p)
             D == Earning(p)
  <2>1. /\ a \in Nat /\ Token \in Nat /\ R \in Nat /\ B \in Nat
        /\ served \in Nat /\ served' \in Nat /\ served <= served'
    BY <1>3, SettledFacts, Sizes, ServedAdvances DEF LimiterInv, TypeOK
  <2>2. D \in Nat /\ c \in Nat
    BY <1>3, WorthStep
  <2>3. Worth(p) \in Nat /\ k = Smaller(Worth(p), B)
    BY WorthType
  <2>4. j \in Nat /\ j + c <= Smaller(k + D, B)
    <3>1. Bucketed!Earned(p, served') = Smaller(k + D, B)
      BY DEF Bucketed!Earned, Smaller, Earning
    <3> QED
      BY <1>3, <3>1, LevelStep
  <2>5. admitted'[p] * Token = a * Token + c
    <3>1. admitted'[p] = a + IF p = who[r] /\ n # 0 THEN 1 ELSE 0
      BY <1>3 DEF Serves
    <3>2. CASE p = who[r] /\ n = Unit
      <4>1. admitted'[p] = a + 1 /\ c = Token
        BY <3>1, <3>2, Sizes DEF Spent
      <4>2. (a + 1) * Token = a * Token + Token
        BY <2>1
      <4> QED
        BY <4>1, <4>2
    <3>3. CASE p # who[r] \/ n = 0
      <4>1. admitted'[p] = a + 0 /\ c = 0
        BY <3>1, <3>3, Sizes DEF Spent
      <4> QED
        BY <2>1, <4>1
    <3> QED
      BY <3>2, <3>3
  <2>6. R * served' = R * served + D
    <3>1. R * (served' - 0) = R * (served - 0) + D
      BY <2>1, Earnings DEF Earning
    <3> QED
      BY <2>1, <3>1
  <2>7. a * Token \in Nat /\ R * served \in Nat
    BY <2>1
  <2> HIDE DEF a, k, j, B, R, c, D
  <2>8. k \in Nat /\ j + c <= k + D
    BY <2>1, <2>2, <2>3, <2>4 DEF Smaller
  <2>9. a * Token + k <= B + R * served
    BY <1>1 DEF a, k, B, R
  <2>10. a * Token + c + j <= B + (R * served + D)
    BY <2>1, <2>2, <2>4, <2>7, <2>8, <2>9
  <2>11. admitted'[p] * Token + j <= B + R * served'
    BY <2>5, <2>6, <2>10
  <2> QED
    BY <2>11 DEF j, B, R
<1> QED
  BY <1>2, <1>3, OrderedCases

(* What a principal is admitted for never exceeds its burst and what time  *)
(* has earned it, for every run of requests and evictions.                 *)
THEOREM AdmissionsAreLimited == OrderedSpec => []Bucketed!WithinRate
<1>1. Init => AccountInv
  <2> SUFFICES ASSUME Init, NEW p \in Settled PROVE Accounted(p)
    BY DEF AccountInv
  <2>1. admitted[p] = 0 /\ served = 0 /\ LimiterInv
    BY LimiterInit DEF Init
  <2>2. Level[p] \in Nat /\ Level[p] <= Burst[p] /\ Burst[p] \in Nat /\ Rate[p] \in Nat /\ Token \in Nat
    BY <2>1, WorthType, SettledFacts, Sizes DEF Smaller
  <2> QED
    BY <2>1, <2>2 DEF Accounted
<1>2. LimiterInv /\ LimiterInv' /\ AccountInv /\ [Next /\ InOrder]_vars => AccountInv'
  BY AccountStep
<1>3. LimiterInv /\ AccountInv => Bucketed!WithinRate
  <2> SUFFICES ASSUME LimiterInv, AccountInv, NEW p \in Settled
               PROVE  admitted[p] * Token <= Burst[p] + Rate[p] * served
    BY DEF Bucketed!WithinRate
  <2>1. admitted[p] * Token + Level[p] <= Burst[p] + Rate[p] * served
    BY DEF AccountInv, Accounted
  <2>2. /\ admitted[p] * Token \in Nat /\ Burst[p] \in Nat /\ Rate[p] * served \in Nat /\ Level[p] \in Nat
    <3>1. admitted[p] \in Nat /\ Token \in Nat /\ Rate[p] \in Nat /\ served \in Nat
      BY SettledFacts, Sizes DEF LimiterInv, TypeOK
    <3>2. Worth(p) \in Nat /\ Level[p] = Smaller(Worth(p), Burst[p]) /\ Burst[p] \in Nat
      BY WorthType, SettledFacts
    <3>3. Level[p] \in Nat
      BY <3>2 DEF Smaller
    <3> QED
      BY <3>1, <3>2, <3>3
  <2> QED
    BY <2>1, <2>2
<1> QED
  BY <1>1, <1>2, <1>3, OrderedInvariant, PTL DEF OrderedSpec
=============================================================================
