---------------------------- MODULE RateLimiter ----------------------------
(***************************************************************************)
(* The rate limiter of one replica: RateLimiter::admit over a bounded      *)
(* store of lazily refilled token buckets, called by concurrent requests.  *)
(*                                                                         *)
(* Policed reads the principal's tier at authentication and the clock      *)
(* before it waits for the store's lock, so requests can reach the store   *)
(* with instants and tiers out of order; under the lock, one admit is one  *)
(* step.  Units are thousandths of a token (Unit of them make a token) and *)
(* refill is counted in whole milliseconds of TicksPerMs instants each.    *)
(* The saturating u64 arithmetic is exact here: capacities and rates are   *)
(* u32, and what would saturate is capped at the capacity anyway.          *)
(***************************************************************************)
EXTENDS Integers, FiniteSets

CONSTANTS
    Principal,    \* principals that call
    Moving,       \* the ones an operator may move to another tier meanwhile
    Request,      \* requests in flight
    Tier,         \* rate-limit tier codes
    FirstTier,    \* the tier a principal starts in
    Capacity,     \* Quota.capacity of a tier, in tokens
    Refill,       \* Quota.refill_per_second: units per millisecond
    Unit,         \* TOKENS_PER_UNIT
    TicksPerMs,   \* resolution of Instant
    MaxBuckets,   \* RateLimitPolicy.max_buckets
    None,         \* no principal
    MaxClock      \* bound on the instants that are explored

ASSUME QuotaAssumption ==
    /\ Tier # {}
    /\ Capacity \in [Tier -> Nat \ {0}]
    /\ Refill \in [Tier -> Nat \ {0}]
    /\ FirstTier \in [Principal -> Tier]
ASSUME ScaleAssumption ==
    Unit \in Nat \ {0} /\ TicksPerMs \in Nat \ {0} /\ MaxBuckets \in Nat \ {0}
ASSUME NoneAssumption == None \notin Principal /\ MaxClock \in Nat
ASSUME MovingAssumption == Moving \subseteq Principal

(* The principals whose traffic is compared with an ideal bucket.          *)
Settled == Principal \ Moving

VARIABLES
    clock,     \* Instant::now
    tier,      \* the tier of each principal in the database
    who,       \* the principal of a request between Instant::now and the lock
    asked,     \* the tier it was authenticated with
    stamp,     \* the instant it read
    tracked,   \* principals with a bucket
    bucket,    \* and their buckets
    admitted,  \* admissions per settled principal
    served,    \* latest instant a request was answered at
    fluid      \* what its ideal bucket would hold, in units per TicksPerMs

request == <<who, asked, stamp>>
store == <<tracked, bucket>>
history == <<admitted, served, fluid>>
vars == <<clock, tier, request, store, history>>

CapacityUnits(q) == Capacity[q] * Unit
Token == Unit * TicksPerMs
Full(q) == CapacityUnits(q) * TicksPerMs

Bucket == [units : Nat, last : Nat, quota : Tier]

Smaller(m, n) == IF m < n THEN m ELSE n
Later(m, n) == IF m < n THEN n ELSE m

(* Whole milliseconds since the bucket was computed, none for an instant   *)
(* that is not later.                                                      *)
ElapsedMs(b, now) == Later(now - b.last, 0) \div TicksPerMs

Earned(b, now) == ElapsedMs(b, now) * Refill[b.quota]

(* Faults: a refill without the cap, and one that drops the remainder of a *)
(* millisecond.                                                            *)
RefilledUncapped(b, q, now) ==
    [units |-> b.units + ElapsedMs(b, now) * Refill[q],
     last |-> b.last + ElapsedMs(b, now) * TicksPerMs,
     quota |-> q]
RefilledToNow(b, q, now) ==
    [units |-> Smaller(b.units + ElapsedMs(b, now) * Refill[q], CapacityUnits(q)),
     last |-> Later(b.last, now),
     quota |-> q]

(* last advances by the whole milliseconds consumed.                       *)
Refilled(b, q, now) ==
    [units |-> Smaller(b.units + ElapsedMs(b, now) * Refill[q], CapacityUnits(q)),
     last |-> b.last + ElapsedMs(b, now) * TicksPerMs,
     quota |-> q]

(* Fault: a bucket with one token left counts as full.                     *)
HasTokenAt(b, now) == b.units + Earned(b, now) >= Unit

IsFullAt(b, now) == b.units + Earned(b, now) >= CapacityUnits(b.quota)

NewBucket(q, now) == [units |-> CapacityUnits(q), last |-> now, quota |-> q]

TypeOK ==
    /\ clock \in 0 .. MaxClock
    /\ tier \in [Principal -> Tier]
    /\ who \in [Request -> Principal \union {None}]
    /\ asked \in [Request -> Tier]
    /\ stamp \in [Request -> 0 .. clock]
    /\ tracked \subseteq Principal
    /\ bucket \in [Principal -> Bucket]
    /\ \A p \in tracked :
          /\ bucket[p].units <= CapacityUnits(bucket[p].quota)
          /\ bucket[p].last <= served
    /\ admitted \in [Settled -> Nat]
    /\ served \in 0 .. clock
    /\ fluid \in [Settled -> Int]

Init ==
    /\ clock = 0
    /\ tier = FirstTier
    /\ who = [r \in Request |-> None]
    /\ asked \in [Request -> {CHOOSE q \in Tier : TRUE}]
    /\ stamp = [r \in Request |-> 0]
    /\ tracked = {}
    /\ bucket = [p \in Principal |-> NewBucket(tier[p], 0)]
    /\ admitted = [p \in Settled |-> 0]
    /\ served = 0
    /\ fluid = [p \in Settled |-> Full(tier[p])]

-----------------------------------------------------------------------------
Tick ==
    /\ clock < MaxClock
    /\ clock' = clock + 1
    /\ UNCHANGED <<tier, request, store, history>>

(* An operator moves a principal to another tier.                          *)
Retier(p, q) ==
    /\ q # tier[p]
    /\ tier' = [tier EXCEPT ![p] = q]
    /\ UNCHANGED <<clock, request, store, history>>

(* Policed has authenticated the request and read the clock.               *)
Arrive(r, p) ==
    /\ who[r] = None
    /\ who' = [who EXCEPT ![r] = p]
    /\ asked' = [asked EXCEPT ![r] = tier[p]]
    /\ stamp' = [stamp EXCEPT ![r] = clock]
    /\ UNCHANGED <<clock, tier, store, history>>

(* The buckets left by the sweep, which runs only when a principal without *)
(* a bucket finds the store full: the ones that have not refilled by now.  *)
Kept(r) ==
    IF Cardinality(tracked) >= MaxBuckets /\ who[r] \notin tracked
    THEN {p \in tracked : ~IsFullAt(bucket[p], stamp[r])}
    ELSE tracked

(* Fault: the ceiling is off by one.                                       *)
NoRoomAbove(r) == Cardinality(Kept(r)) > MaxBuckets /\ who[r] \notin tracked

NoRoom(r) == Cardinality(Kept(r)) >= MaxBuckets /\ who[r] \notin tracked

(* The bucket of the request's principal, made if need be, refilled.       *)
Current(r) ==
    Refilled(IF who[r] \in tracked THEN bucket[who[r]] ELSE NewBucket(asked[r], stamp[r]),
             asked[r], stamp[r])

(* The answer to r reaches its caller, and the ideal buckets are brought   *)
(* up to the instant it was served at, less what was spent.                *)
Answer(r, spent) ==
    /\ who' = [who EXCEPT ![r] = None]
    /\ stamp' = [stamp EXCEPT ![r] = 0]
    /\ asked' = [asked EXCEPT ![r] = CHOOSE q \in Tier : TRUE]
    /\ served' = Later(served, stamp[r])
    /\ fluid' = [p \in Settled |->
         Smaller(fluid[p] + Refill[tier[p]] * (served' - served), Full(tier[p]))
            - (IF p = who[r] THEN spent ELSE 0)]
    /\ UNCHANGED <<clock, tier>>

(* Replace the store by the kept buckets and, when the request has one,    *)
(* its bucket; the contents of an absent bucket are irrelevant.            *)
StoreBuckets(kept, new) ==
    /\ tracked' = kept \union DOMAIN new
    /\ bucket' = [p \in Principal |->
         IF p \in DOMAIN new THEN new[p]
         ELSE IF p \in kept THEN bucket[p] ELSE NewBucket(FirstTier[p], 0)]

Saturated(r) ==
    /\ who[r] # None
    /\ NoRoom(r)
    /\ StoreBuckets(Kept(r), << >>)
    /\ Answer(r, 0)
    /\ UNCHANGED admitted

Refused(r) ==
    /\ who[r] # None
    /\ ~NoRoom(r)
    /\ Current(r).units < Unit
    /\ StoreBuckets(Kept(r), [p \in {who[r]} |-> Current(r)])
    /\ Answer(r, 0)
    /\ UNCHANGED admitted

Admitted(r) ==
    /\ who[r] # None
    /\ ~NoRoom(r)
    /\ Current(r).units >= Unit
    /\ StoreBuckets(Kept(r),
         [p \in {who[r]} |-> [Current(r) EXCEPT !.units = @ - Unit]])
    /\ Answer(r, Token)
    /\ admitted' = [p \in Settled |-> admitted[p] + IF p = who[r] THEN 1 ELSE 0]

Admit(r) == Saturated(r) \/ Refused(r) \/ Admitted(r)

Next ==
    \/ Tick
    \/ \E p \in Moving, q \in Tier : Retier(p, q)
    \/ \E r \in Request : Admit(r) \/ \E p \in Principal : Arrive(r, p)

Spec == Init /\ [][Next]_vars

(* A request of a settled principal does not reach the store after one     *)
(* that read the clock later: what the comparison with an ideal bucket     *)
(* needs.  The requests of a moving principal may come late.               *)
InOrder ==
    \A r \in Request : who[r] \in Settled /\ who'[r] = None => stamp[r] >= served
OrderedSpec == Init /\ [][Next /\ InOrder]_vars

-----------------------------------------------------------------------------
(***************************************************************************)
(* Properties.                                                             *)
(***************************************************************************)

(* The store never outgrows http.rate_limit_max_buckets, whatever order    *)
(* requests, sweeps and tier changes come in.                              *)
StoreBounded == Cardinality(tracked) <= MaxBuckets

(* A bucket exceeds an ideal one by less than a millisecond's refill: the  *)
(* remainder that last keeps when the bucket is capped.                    *)
Rate == [p \in Settled |-> Refill[FirstTier[p]]]
Burst == [p \in Settled |-> Full(FirstTier[p]) + Rate[p] * (TicksPerMs - 1)]
Level == [p \in Settled |->
            IF p \in tracked
            THEN Smaller(bucket[p].units * TicksPerMs
                            + Rate[p] * (served - bucket[p].last), Burst[p])
            ELSE Full(FirstTier[p])]

Bucketed == INSTANCE TokenBucket WITH Principal <- Settled, now <- served, level <- Level

(* Lazy refill, capping, the bounded store and eviction implement a token  *)
(* bucket per principal: no sequence of requests, of its own or of others, *)
(* gains a principal more than its burst and what time has earned it.      *)
ImplementsTokenBucket == Bucketed!Spec

(* A caller is refused only if the ideal bucket holds less than a token    *)
(* plus what an incomplete millisecond earns: rounding to milliseconds     *)
(* never costs more than that, however often the bucket is asked, and      *)
(* whatever the other principals and their sweeps do.                      *)
RefusalIsFair ==
    [][\A r \in Request : Refused(r) /\ who[r] \in Settled =>
          fluid'[who[r]] < Token + Refill[tier[who[r]]] * (TicksPerMs - 1)]_vars

(* Evicting a bucket is invisible to its principal: had it been kept, the  *)
(* next request would have found it full as well.                          *)
EvictionInvisible ==
    [][\A r \in Request : Admit(r) =>
          \A p \in (tracked \ tracked') \intersect Settled :
              Refilled(bucket[p], tier[p], stamp[r]).units = CapacityUnits(tier[p])]_vars

-----------------------------------------------------------------------------
(***************************************************************************)
(* The inductive invariants behind the properties.                         *)
(***************************************************************************)

(* A settled principal is known by its tier everywhere.                    *)
SettledTiers ==
    /\ \A p \in Settled :
          tier[p] = FirstTier[p] /\ (p \in tracked => bucket[p].quota = FirstTier[p])
    /\ \A r \in Request : who[r] \in Settled => asked[r] = FirstTier[who[r]]

LimiterInv ==
    /\ TypeOK
    /\ SettledTiers
    /\ IsFiniteSet(tracked)
    /\ StoreBounded

(* A bucket has lost nothing against the ideal one: what it holds, and     *)
(* what time has earned it since it was last brought up to date, covers    *)
(* the ideal bucket.                                                       *)
FluidInv ==
    \A p \in Settled :
        /\ fluid[p] <= Full(FirstTier[p])
        /\ p \in tracked =>
              fluid[p] <= bucket[p].units * TicksPerMs + Rate[p] * (served - bucket[p].last)
=============================================================================
