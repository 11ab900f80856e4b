------------------------------- MODULE RateLimits -------------------------------
(***************************************************************************)
(* The rate limiters: TokenBucket (governor.py) and DomainRateLimiter      *)
(* (crawler.py), whose callers wait, SlidingWindowLimiter and              *)
(* RedisWindowLimiter (app.py), whose callers are refused.  A behaviour is *)
(* about one of them.  Time goes by in ticks.  Buckets count fractions of  *)
(* a token: a tick brings one unit, and Token units make a token.          *)
(***************************************************************************)
EXTENDS Integers, Sequences, FiniteSets, FiniteSetsExt, SequencesExt

CONSTANTS
    Caller,        \* coroutines that wait for a token
    Token,         \* units of one token, the ticks that bring it
    Burst,         \* capacity of a bucket, in units
    Sizes,         \* what is asked for at once, in units
    Limit, Window  \* requests per window, ticks of a window

ASSUME RateAssumption ==
    /\ IsFiniteSet(Caller) /\ IsFiniteSet(Sizes) /\ Sizes \subseteq Nat
    /\ Token \in Nat \ {0} /\ Burst \in Nat /\ Limit \in Nat /\ Window \in Nat \ {0}

VARIABLES
    limiter,       \* which of them this is
    tokens, age,   \* of a bucket: units it holds, and ticks since last_refill, Burst at most
    asleep,        \* of a caller: ticks left to sleep, or -1
    wanted,        \* of a caller: the units it sleeps for
    stamps,        \* of the sliding window: ages of its entries, Window at most, oldest first
    clock, count,  \* of the fixed window: time within the bucket, counter of its key
    recent,        \* history: requests a window let through in the last i ticks
    level,         \* history: units a bucket granted, drained by one per tick
    late           \* history: units the domain granted to a caller after its sleep,
                   \* drained by two per tick

histories == <<recent, level, late>>
rateVars == <<limiter, tokens, age, asleep, wanted, stamps, clock, count, histories>>

RateInit ==
    /\ limiter \in {"bucket", "domain", "sliding", "fixed"}
    /\ tokens = Burst /\ age = 0
    /\ asleep = [c \in Caller |-> -1] /\ wanted = [c \in Caller |-> 0]
    /\ stamps = <<>> /\ clock = 0 /\ count = 0
    /\ recent = [i \in 1..Window |-> 0] /\ level = 0 /\ late = [c \in Caller |-> 0]

Granting == recent' = [i \in 1..Window |-> recent[i] + 1] /\ UNCHANGED <<level, late>>
Passing(n) == level' = level + n /\ UNCHANGED <<recent, late>>
PassingLate(c) ==
    IF limiter = "bucket" THEN Passing(wanted[c])
    ELSE late' = [late EXCEPT ![c] = @ + wanted[c]] /\ UNCHANGED <<recent, level>>
Refilled == Min({Burst, tokens + age})

Sleeps(c, n, ticks) ==
    /\ asleep' = [asleep EXCEPT ![c] = ticks] /\ wanted' = [wanted EXCEPT ![c] = n]
    /\ tokens' = Refilled /\ UNCHANGED histories

LockIsFree == \A d \in Caller : asleep[d] < 0

\* TokenBucket.acquire keeps its lock while it sleeps; DomainRateLimiter has none.
Acquire(c, n) ==
    /\ \/ limiter = "bucket" /\ LockIsFree
       \/ limiter = "domain" /\ n = Token /\ asleep[c] < 0
    /\ age' = 0
    /\ IF Refilled >= n
       THEN tokens' = Refilled - n /\ Passing(n) /\ UNCHANGED <<asleep, wanted>>
       ELSE Sleeps(c, n, n - Refilled)
    /\ UNCHANGED <<limiter, stamps, clock, count>>

\* Mutant of AgeAfterSleep: what was credited for the sleep is credited again.
AgeKept == age
AgeAfterSleep == IF limiter = "bucket" THEN 0 ELSE age

\* After its sleep only the TokenBucket counts the time anew.
Wakes(c) ==
    /\ asleep[c] = 0
    /\ asleep' = [asleep EXCEPT ![c] = -1]
    /\ tokens' = 0 /\ age' = AgeAfterSleep /\ PassingLate(c)
    /\ UNCHANGED <<limiter, wanted, stamps, clock, count>>

\* The old entries are the first of the deque and are popped.
Popped == Cardinality({i \in DOMAIN stamps : stamps[i] >= Window})
LiveStamps == SubSeq(stamps, Popped + 1, Len(stamps))

\* SlidingWindowLimiter.allow
SlidingAllow ==
    /\ limiter = "sliding"
    /\ IF Len(LiveStamps) >= Limit THEN stamps' = LiveStamps /\ UNCHANGED histories
       ELSE stamps' = Append(LiveStamps, 0) /\ Granting
    /\ UNCHANGED <<limiter, tokens, age, asleep, wanted, clock, count>>

\* RedisWindowLimiter.allow: refused requests count too, here only the first of them.
FixedAllow ==
    /\ limiter = "fixed" /\ count <= Limit
    /\ count' = count + 1
    /\ IF count' <= Limit THEN Granting ELSE UNCHANGED histories
    /\ UNCHANGED <<limiter, tokens, age, asleep, wanted, stamps, clock>>

\* A sleeper may oversleep; a new bucket of the fixed window is a new key.
RateTick ==
    /\ age' = Min({age + 1, Burst})
    /\ asleep' = [c \in Caller |-> IF asleep[c] > 0 THEN asleep[c] - 1 ELSE asleep[c]]
    /\ stamps' = [i \in DOMAIN stamps |-> Min({stamps[i] + 1, Window})]
    /\ clock' = IF limiter = "fixed" /\ clock + 1 < Window THEN clock + 1 ELSE 0
    /\ count' = IF clock' = 0 THEN 0 ELSE count
    /\ recent' = <<0>> \o Front(recent)
    /\ level' = Max({0, level - 1})
    /\ late' = [c \in Caller |-> Max({0, late[c] - 2})]
    /\ UNCHANGED <<limiter, tokens, wanted>>

RateNext ==
    \/ \E c \in Caller : Wakes(c) \/ \E n \in Sizes : Acquire(c, n)
    \/ SlidingAllow \/ FixedAllow \/ RateTick

RateSpec == RateInit /\ [][RateNext]_rateVars

(***************************************************************************)
(* Properties                                                              *)
(***************************************************************************)
(* Counters stay in their ranges, one caller at most holds the lock.       *)
RateTypeOK ==
    /\ tokens \in 0..Burst /\ age \in 0..Burst /\ count \in 0..Limit + 1
    /\ limiter = "bucket" => Cardinality({c \in Caller : asleep[c] >= 0}) <= 1

(***************************************************************************)
(* Over any stretch of time the token bucket lets through no more than one *)
(* burst and a unit per tick, however callers queue and oversleep.         *)
(***************************************************************************)
BucketRateHolds == limiter = "bucket" => level <= Max(Sizes \cup {Burst})

(***************************************************************************)
(* The limiter of the crawler has no lock, and what was credited for a     *)
(* sleep is credited once more.  Over any stretch of time those it lets    *)
(* through at once still get no more than a burst and a unit per tick; but *)
(* every caller that it makes wait gets up to two units per tick, twice    *)
(* the rate, and two tokens.                                               *)
(***************************************************************************)
DomainRateIsBounded ==
    limiter = "domain" => level <= Burst /\ \A c \in Caller : late[c] <= 2 * Token

(***************************************************************************)
(* No window of time, wherever it starts, has more requests than the limit *)
(* of the sliding window, nor more than twice that of the fixed one.       *)
(***************************************************************************)
WindowsHold ==
    /\ limiter = "sliding" => recent[Window] <= Limit
    /\ limiter = "fixed" => recent[Window] <= 2 * Limit

(***************************************************************************)
(* Each limiter keeps the rate that it can promise: the three above, and   *)
(* the types.                                                              *)
(***************************************************************************)
RatesHold == RateTypeOK /\ BucketRateHolds /\ DomainRateIsBounded /\ WindowsHold
=================================================================================
