---------------------------- MODULE Platform_proofs ----------------------------
(***************************************************************************)
(* Proofs about the services that agents and API share, for every number   *)
(* of callers and every limit: the governor, the rate limiters, the        *)
(* accounts, the executor, the pages of records, and the crawl of the      *)
(* canonical sentinel, which a worker runs on its own.  Each has a         *)
(* specification and an invariant of its own.                              *)
(***************************************************************************)
EXTENDS ResourceGovernor, RateLimits, Accounts, ActionExecutor, TenantRecords,
        SiteCrawl, FiniteSetTheorems, SequenceTheorems, WellFoundedInduction, TLAPS

(***************************************************************************)
(* The smaller of two numbers.                                             *)
(***************************************************************************)
LEMMA MinOfTwo ==
    ASSUME NEW m \in Nat, NEW n \in Nat
    PROVE  Min({m, n}) \in {m, n} /\ Min({m, n}) <= m /\ Min({m, n}) <= n
<1> DEFINE P(x) == x \in {m, n} /\ \A y \in {m, n} : x =< y
<1>1. \E x : P(x)
  <2>1. CASE m <= n
      BY <2>1
  <2>2. CASE n <= m
      BY <2>2
  <2> QED BY <2>1, <2>2
<1>2. P(CHOOSE x : P(x))
    BY <1>1
<1>3. Min({m, n}) = CHOOSE x : P(x)
    BY DEF Min
<1> QED BY <1>2, <1>3

(***************************************************************************)
(* The larger of two numbers.                                              *)
(***************************************************************************)
LEMMA MaxOfTwo ==
    ASSUME NEW m \in Nat, NEW n \in Nat
    PROVE  Max({m, n}) \in {m, n} /\ m <= Max({m, n}) /\ n <= Max({m, n})
<1> DEFINE P(x) == x \in {m, n} /\ \A y \in {m, n} : x >= y
<1>1. \E x : P(x)
  <2>1. CASE m <= n
      BY <2>1
  <2>2. CASE n <= m
      BY <2>2
  <2> QED BY <2>1, <2>2
<1>2. P(CHOOSE x : P(x))
    BY <1>1
<1>3. Max({m, n}) = CHOOSE x : P(x)
    BY DEF Max
<1> QED BY <1>2, <1>3

(***************************************************************************)
(* A counter goes down by some, and not below 0.                           *)
(***************************************************************************)
LEMMA Lowered ==
    ASSUME NEW n \in Nat, NEW d \in Nat
    PROVE  /\ Max({0, n - d}) \in Nat
           /\ n >= d => Max({0, n - d}) = n - d
           /\ n < d => Max({0, n - d}) = 0
<1> DEFINE P(x) == x \in {0, n - d} /\ \A y \in {0, n - d} : x >= y
<1>1. \E x : P(x)
  <2>1. CASE n < d
      BY <2>1
  <2>2. CASE n >= d
      BY <2>2
  <2> QED BY <2>1, <2>2
<1>2. P(CHOOSE x : P(x))
    BY <1>1
<1>3. Max({0, n - d}) = CHOOSE x : P(x)
    BY DEF Max
<1> QED BY <1>2, <1>3

(***************************************************************************)
(* A log of calls holds their ages, the oldest first and w at most, and r  *)
(* counts them: of its last r[i] entries, and of no other, less than i     *)
(* ticks have passed.                                                      *)
(***************************************************************************)
Counts(r, q, w) ==
    \A i \in 1..w : /\ r[i] \in 0..Len(q)
                    /\ \A k \in 1..Len(q) : q[k] < i <=> k > Len(q) - r[i]

\* What comes after a position of a sequence, and after none.
LEMMA RestOf ==
    ASSUME NEW S, NEW q \in Seq(S), NEW n \in Nat, n = Len(q), NEW k \in 0..n
    PROVE  /\ SubSeq(q, k + 1, n) \in Seq(S)
           /\ Len(SubSeq(q, k + 1, n)) = n - k
           /\ \A i \in 1..n - k : SubSeq(q, k + 1, n)[i] = q[k + i]
<1>0. k \in Nat /\ k <= n
  OBVIOUS
<1>1. \A i \in k + 1..n : q[i] \in S
  BY <1>0, ElementOfSeq
<1>2. /\ SubSeq(q, k + 1, n) \in Seq(S)
      /\ Len(SubSeq(q, k + 1, n)) = IF k + 1 <= n THEN n - (k + 1) + 1 ELSE 0
      /\ \A i \in 1..n - (k + 1) + 1 : SubSeq(q, k + 1, n)[i] = q[k + 1 + i - 1]
  BY <1>0, <1>1, SubSeqProperties
<1>3. Len(SubSeq(q, k + 1, n)) = n - k
  <2>1. CASE k + 1 <= n
    BY <1>0, <1>2, <2>1
  <2>2. CASE k = n
    BY <1>0, <1>2, <2>2
  <2> QED BY <1>0, <2>1, <2>2
<1>4. \A i \in 1..n - k : SubSeq(q, k + 1, n)[i] = q[k + i]
  <2> TAKE i \in 1..n - k
  <2>1. i \in 1..n - (k + 1) + 1 /\ k + 1 + i - 1 = k + i
    BY <1>0
  <2> QED BY <1>2, <2>1
<1> QED BY <1>2, <1>3, <1>4

\* The entries that are dropped are the first ones.
LEMMA OldestFirst ==
    ASSUME NEW w \in Nat \ {0}, NEW q \in Seq(0..w), NEW r, Counts(r, q, w)
    PROVE  Cardinality({k \in DOMAIN q : q[k] >= w}) = Len(q) - r[w]
<1>1. PICK n \in Nat : n = Len(q)
  OBVIOUS
<1>2. w \in 1..w
  OBVIOUS
<1>3. PICK d \in Nat : d = n - r[w] /\ r[w] = n - d /\ d <= n
  <2>1. r[w] \in 0..n
    BY <1>1, <1>2 DEF Counts
  <2>2. n - r[w] \in Nat /\ n - r[w] <= n /\ r[w] = n - (n - r[w])
    BY <2>1
  <2> QED BY <2>2
<1>4. ASSUME NEW k \in 1..n PROVE q[k] \in 0..w /\ (q[k] < w <=> k > n - r[w])
  BY <1>1, <1>2 DEF Counts
<1>5. ASSUME NEW k \in 1..n PROVE q[k] >= w <=> k <= d
  <2>1. n - r[w] = d
    BY <1>3
  <2> QED BY <1>4, <2>1
<1>6. {k \in DOMAIN q : q[k] >= w} = 1..d
  BY <1>1, <1>3, <1>5
<1>7. Cardinality(1..d) = d
  BY FS_Interval
<1> QED BY <1>1, <1>3, <1>6, <1>7

LEMMA FromTheEnd ==
    ASSUME NEW n \in Int, NEW m \in Int, NEW g \in Int, NEW k \in Int
    PROVE  (n - m) + k > n - g <=> k > m - g
OBVIOUS

\* What is left has what r counts, in the same places from its end.
LEMMA LeftOver ==
    ASSUME NEW w \in Nat \ {0}, NEW q \in Seq(0..w), NEW r, Counts(r, q, w),
           NEW n \in Nat, n = Len(q), NEW m \in 0..n, m = r[w],
           NEW live \in Seq(0..w), Len(live) = m,
           \A k \in 1..m : live[k] = q[(n - m) + k]
    PROVE  Counts(r, live, w)
<1>0. /\ w \in 1..w /\ m \in Nat /\ m <= n
      /\ \A k \in 1..n : q[k] \in 0..w
      /\ \A i \in 1..w : r[i] \in 0..n /\ \A k \in 1..n : q[k] < i <=> k > n - r[i]
  BY DEF Counts
<1>1. ASSUME NEW i \in 1..w, NEW g \in Nat, g = r[i] PROVE g <= m
  <2> SUFFICES ASSUME g > m PROVE FALSE
    BY <1>0
  <2>1. g <= n /\ \A k \in 1..n : q[k] < i <=> k > n - g
    BY <1>0, <1>1
  <2>2. PICK d \in 1..n : d = n - m
    BY <1>0, <2>1
  <2>3. q[d] < i
    BY <1>0, <2>1, <2>2
  <2>4. PICK a \in 0..w : a = q[d]
    BY <1>0
  <2>5. q[d] < w
    BY <2>3, <2>4
  <2>6. q[d] < w <=> d > n - m
    BY <1>0
  <2> QED BY <1>0, <2>2, <2>5, <2>6
<1>2. ASSUME NEW i \in 1..w PROVE r[i] \in 0..m /\ \A k \in 1..m : live[k] < i <=> k > m - r[i]
  <2>1. PICK g \in 0..n : g = r[i]
    BY <1>0
  <2>2. g \in Nat /\ g <= m
    BY <1>1, <2>1
  <2>3. ASSUME NEW k \in 1..m PROVE live[k] < i <=> k > m - g
    <3>1. (n - m) + k \in 1..n /\ live[k] = q[(n - m) + k]
      BY <1>0
    <3>2. q[(n - m) + k] < i <=> (n - m) + k > n - g
      BY <1>0, <2>1, <3>1
    <3>3. (n - m) + k > n - g <=> k > m - g
      <4>1. n \in Int /\ m \in Int /\ g \in Int /\ k \in Int
        OBVIOUS
      <4> QED BY <4>1, FromTheEnd, Zenon
    <3> QED BY <3>1, <3>2, <3>3
  <2> QED BY <2>1, <2>2, <2>3
<1> QED BY <1>2 DEF Counts

\* Dropping the first entries leaves what r counts.
LEMMA Dropped ==
    ASSUME NEW w \in Nat \ {0}, NEW q \in Seq(0..w), NEW r, Counts(r, q, w)
    PROVE  LET live == SubSeq(q, Cardinality({k \in DOMAIN q : q[k] >= w}) + 1, Len(q))
           IN  live \in Seq(0..w) /\ Len(live) = r[w] /\ Counts(r, live, w)
<1>1. Cardinality({k \in DOMAIN q : q[k] >= w}) = Len(q) - r[w]
  BY OldestFirst
<1>2. Len(q) \in Nat /\ r[w] \in 0..Len(q)
  BY DEF Counts
<1>3. PICK n \in Nat : n = Len(q)
  BY <1>2
<1>4. PICK m \in 0..n : m = r[w]
  BY <1>2, <1>3
<1>5. PICK d \in 0..n : d = n - m /\ m = n - d
  OBVIOUS
<1>6. PICK live : live = SubSeq(q, d + 1, n)
  OBVIOUS
<1>7. live \in Seq(0..w) /\ Len(live) = m /\ \A k \in 1..m : live[k] = q[(n - m) + k]
  <2>1. live \in Seq(0..w) /\ Len(live) = n - d /\ \A k \in 1..n - d : live[k] = q[d + k]
    <3>1. /\ SubSeq(q, d + 1, n) \in Seq(0..w)
          /\ Len(SubSeq(q, d + 1, n)) = n - d
          /\ \A k \in 1..n - d : SubSeq(q, d + 1, n)[k] = q[d + k]
      <4>1. n \in Nat /\ n = Len(q) /\ d \in 0..n /\ q \in Seq(0..w)
        BY <1>3
      <4>2. PICK S : S = 0..w
        OBVIOUS
      <4>3. q \in Seq(S)
        BY <4>2
      <4>4. /\ SubSeq(q, d + 1, n) \in Seq(S)
            /\ Len(SubSeq(q, d + 1, n)) = n - d
            /\ \A k \in 1..n - d : SubSeq(q, d + 1, n)[k] = q[d + k]
        BY <4>1, <4>3, RestOf, SMTT(30)
      <4> QED BY <4>2, <4>4
    <3> QED BY <1>6, <3>1
  <2> QED BY <1>5, <2>1
<1>8. Counts(r, live, w)
  BY <1>3, <1>4, <1>7, LeftOver
<1> QED BY <1>1, <1>3, <1>4, <1>5, <1>6, <1>7, <1>8

\* A longer time has no fewer calls.
LEMMA LongerCountsMore ==
    ASSUME NEW w \in Nat \ {0}, NEW q \in Seq(0..w), NEW r, Counts(r, q, w), NEW i \in 1..w
    PROVE  r[i] <= r[w]
<1>1. PICK n \in Nat : n = Len(q)
  OBVIOUS
<1>2. PICK g \in 0..n, m \in 0..n : g = r[i] /\ m = r[w]
  BY <1>1 DEF Counts
<1> SUFFICES ASSUME g > m PROVE FALSE
  BY <1>2
<1>3. PICK d \in 1..n : d = n - m
  BY <1>2
<1>4. q[d] < i /\ ~(q[d] < w)
  BY <1>1, <1>2, <1>3 DEF Counts
<1>5. q[d] \in 0..w
  BY <1>1
<1> QED BY <1>4, <1>5

\* One call more.
LEMMA Logged ==
    ASSUME NEW w \in Nat \ {0}, NEW q \in Seq(0..w), NEW r, Counts(r, q, w),
           NEW x, \A i \in 1..w : x[i] = r[i] + 1
    PROVE  /\ Append(q, 0) \in Seq(0..w) /\ Len(Append(q, 0)) = Len(q) + 1
           /\ Counts(x, Append(q, 0), w)
<1>0. 0 \in 0..w
  OBVIOUS
<1> PICK p, n : p = Append(q, 0) /\ n = Len(q)
  OBVIOUS
<1>1. /\ p \in Seq(0..w) /\ Len(p) = n + 1 /\ p[n + 1] = 0 /\ n \in Nat
      /\ \A k \in 1..n : p[k] = q[k]
  BY <1>0, AppendProperties
<1>2. ASSUME NEW i \in 1..w
      PROVE  /\ x[i] \in 0..n + 1
             /\ \A k \in 1..n + 1 : p[k] < i <=> k > n + 1 - x[i]
  <2>1. r[i] \in 0..n /\ x[i] = r[i] + 1
    BY DEF Counts
  <2>2. ASSUME NEW k \in 1..n + 1 PROVE p[k] < i <=> k > n + 1 - x[i]
    <3>1. CASE k = n + 1
      BY <1>1, <2>1, <3>1
    <3>2. CASE k \in 1..n
      BY <1>1, <2>1, <3>2 DEF Counts
    <3> QED BY <1>1, <3>1, <3>2
  <2> QED BY <1>1, <2>1, <2>2
<1> QED BY <1>1, <1>2 DEF Counts

\* A tick moves the counts on by one place.
LEMMA Shifted ==
    ASSUME NEW w \in Nat \ {0}, NEW r \in Seq(Nat), Len(r) = w
    PROVE  /\ <<0>> \o Front(r) \in Seq(Nat)
           /\ Len(<<0>> \o Front(r)) = w
           /\ (<<0>> \o Front(r))[1] = 0
           /\ \A i \in 1..w - 1 : (<<0>> \o Front(r))[i + 1] = r[i]
<1>1. Front(r) \in Seq(Nat) /\ Len(Front(r)) = w - 1 /\ \A i \in 1..w - 1 : Front(r)[i] = r[i]
  BY SubSeqProperties DEF Front
<1>2. <<0>> \in Seq(Nat) /\ Len(<<0>>) = 1 /\ <<0>>[1] = 0
  OBVIOUS
<1> QED BY <1>1, <1>2, ConcatProperties

\* An entry of a log gets older, up to w.
LEMMA Older ==
    ASSUME NEW w \in Nat \ {0}, NEW a \in 0..w, NEW b, b = Min({a + 1, w})
    PROVE  b \in 0..w /\ b <= a + 1 /\ b \in {a + 1, w}
<1>1. a + 1 \in Nat /\ w \in Nat
  OBVIOUS
<1>2. b \in {a + 1, w} /\ b <= a + 1 /\ b <= w
  BY <1>1, MinOfTwo, Zenon
<1> QED BY <1>1, <1>2

\* Every entry gets older, in its place, and their counts move on.
LEMMA Ticked ==
    ASSUME NEW w \in Nat \ {0}, NEW q \in Seq(0..w), NEW r, Counts(r, q, w),
           NEW x, x[1] = 0, \A i \in 1..w - 1 : x[i + 1] = r[i],
           NEW n \in Nat, n = Len(q), NEW p, Len(p) = n,
           \A k \in 1..n : p[k] \in 0..w /\ p[k] <= q[k] + 1 /\ p[k] \in {q[k] + 1, w}
    PROVE  Counts(x, p, w)
<1>1. ASSUME NEW k \in 1..n
      PROVE  \E a \in 0..w, b \in 1..w : /\ q[k] = a /\ p[k] = b
                                         /\ b \in {a + 1, w} /\ b <= a + 1
  <2>1. PICK a \in 0..w : q[k] = a
    OBVIOUS
  <2>2. PICK b \in 0..w : p[k] = b
    OBVIOUS
  <2>3. b \in {a + 1, w} /\ b <= a + 1
    BY <2>1, <2>2
  <2>4. b \in 1..w
    BY <2>3
  <2> QED BY <2>1, <2>2, <2>3, <2>4
<1>2. ASSUME NEW i \in 1..w
      PROVE  /\ x[i] \in 0..n
             /\ \A k \in 1..n : p[k] < i <=> k > n - x[i]
  <2>1. CASE i = 1
    <3>1. x[i] = 0
      BY <2>1
    <3>2. ASSUME NEW k \in 1..n PROVE ~(p[k] < i) /\ ~(k > n - 0)
      BY <1>1, <2>1
    <3> QED BY <3>1, <3>2
  <2>2. CASE i > 1
    <3>1. PICK j \in 1..w - 1 : i = j + 1 /\ j \in 1..w
      <4>1. i - 1 \in 1..w - 1 /\ i = (i - 1) + 1 /\ i - 1 \in 1..w
        BY <2>2
      <4> QED BY <4>1
    <3>2. /\ x[i] = r[j] /\ r[j] \in 0..n
          /\ \A k \in 1..n : q[k] < j <=> k > n - r[j]
      BY <3>1 DEF Counts
    <3>3. ASSUME NEW k \in 1..n PROVE p[k] < i <=> q[k] < j
      <4>1. PICK a \in 0..w, b \in 1..w :
               q[k] = a /\ p[k] = b /\ b \in {a + 1, w} /\ b <= a + 1
        BY <1>1
      <4>2. b < j + 1 <=> a < j
        BY <3>1, <4>1
      <4> QED BY <3>1, <4>1, <4>2
    <3> QED BY <3>2, <3>3
  <2> QED BY <2>1, <2>2
<1> QED BY <1>2 DEF Counts

(***************************************************************************)
(* The governor.  The slots that are taken are counted.  A breaker is open *)
(* only while its count is at the threshold; a count at the threshold with *)
(* the breaker half open means that the recovery period is over, since the *)
(* next failure opens it again and stamps the time.                        *)
(***************************************************************************)
Holding(a) == {c \in Call : AgentOf[c] = a /\ phase[c] # "idle"}

CallsTyped ==
    /\ active \in [Governed -> Nat]
    /\ phase \in [Call -> {"idle", "holds", "reported"}]
SlotsCounted == \A a \in Governed : active[a] = Cardinality(Holding(a)) /\ active[a] <= Slots[a]

BreakersTyped ==
    /\ breaker \in [Service -> {"closed", "open", "half_open"}]
    /\ failures \in [Service -> 0..Threshold]
    /\ sinceFailure \in [Service -> 0..Recovery + 1]
    /\ lastVerdict \in [Service -> {"granted", "no_slot", "no_quota", "open"}]
    /\ \A s \in Service : charged[s] \in Seq(Nat) /\ Len(charged[s]) = QuotaWindow
    /\ DOMAIN charged = Service
OpenAtThreshold ==
    \A s \in Service :
        /\ breaker[s] = "open" => failures[s] >= Threshold
        /\ failures[s] >= Threshold => breaker[s] = "open" \/ sinceFailure[s] > Recovery

SlotInv == CallsTyped /\ SlotsCounted
BreakerInv == BreakersTyped /\ OpenAtThreshold

(***************************************************************************)
(* The calls that hold a slot are finitely many.                           *)
(***************************************************************************)
LEMMA HoldingFinite ==
    \A a : IsFiniteSet(Holding(a)) /\ Cardinality(Holding(a)) \in Nat
<1> TAKE a
<1>1. Holding(a) \subseteq Call
    BY DEF Holding
<1> QED BY <1>1, GovernorAssumption, FS_Subset, FS_CardinalityType

(***************************************************************************)
(* One call more among those that hold a slot.                             *)
(***************************************************************************)
LEMMA OneMore ==
    ASSUME CallsTyped, NEW c \in Call, phase[c] = "idle",
           phase' = [phase EXCEPT ![c] = "holds"], NEW a \in Governed
    PROVE  Cardinality(Holding(a)') = Cardinality(Holding(a)) + (IF a = AgentOf[c] THEN 1 ELSE 0)
<1>1. CASE a = AgentOf[c]
  <2>1. Holding(a)' = Holding(a) \cup {c} /\ c \notin Holding(a)
      BY <1>1 DEF Holding, CallsTyped
  <2> QED BY <1>1, <2>1, HoldingFinite, FS_AddElement
<1>2. CASE a # AgentOf[c]
  <2>1. Holding(a)' = Holding(a)
      BY <1>2 DEF Holding, CallsTyped
  <2> QED BY <1>2, <2>1, HoldingFinite
<1> QED BY <1>1, <1>2

(***************************************************************************)
(* One call less among those that hold a slot.                             *)
(***************************************************************************)
LEMMA OneLess ==
    ASSUME CallsTyped, NEW c \in Call, phase[c] # "idle",
           phase' = [phase EXCEPT ![c] = "idle"], NEW a \in Governed
    PROVE  /\ a = AgentOf[c] => /\ Cardinality(Holding(a)) > 0
                                /\ Cardinality(Holding(a)') = Cardinality(Holding(a)) - 1
           /\ a # AgentOf[c] => Holding(a)' = Holding(a)
<1>1. CASE a = AgentOf[c]
  <2>1. Holding(a)' = Holding(a) \ {c} /\ c \in Holding(a)
      BY <1>1 DEF Holding, CallsTyped
  <2>2. Cardinality(Holding(a) \ {c}) = Cardinality(Holding(a)) - 1 /\ IsFiniteSet(Holding(a) \ {c})
      BY <2>1, HoldingFinite, FS_RemoveElement
  <2>3. Cardinality(Holding(a) \ {c}) \in Nat
      BY <2>2, FS_CardinalityType
  <2> QED BY <1>1, <2>1, <2>2, <2>3, HoldingFinite
<1>2. CASE a # AgentOf[c]
    BY <1>2 DEF Holding, CallsTyped
<1> QED BY <1>1, <1>2

(***************************************************************************)
(* A call that only reports keeps its slot.                                *)
(***************************************************************************)
LEMMA SameHolders ==
    ASSUME NEW a, \A c \in Call : phase'[c] # "idle" <=> phase[c] # "idle"
    PROVE  Holding(a)' = Holding(a)
BY DEF Holding

(***************************************************************************)
(* A step that leaves the slots alone.                                     *)
(***************************************************************************)
LEMMA SlotKept ==
    ASSUME SlotInv, active' = active, CallsTyped',
           \A c \in Call : phase'[c] # "idle" <=> phase[c] # "idle"
    PROVE  SlotInv'
BY SameHolders DEF SlotInv, SlotsCounted

(***************************************************************************)
(* acquire takes a slot only below the limit of the agent.                 *)
(***************************************************************************)
LEMMA SlotTaken ==
    ASSUME SlotInv, NEW c \in Call, phase[c] = "idle",
           active[AgentOf[c]] < Slots[AgentOf[c]],
           active' = [active EXCEPT ![AgentOf[c]] = @ + 1],
           phase' = [phase EXCEPT ![c] = "holds"]
    PROVE  SlotInv'
<1>1. CallsTyped'
    BY DEF SlotInv, CallsTyped, Governed
<1>2. \A a \in Governed : active'[a] = Cardinality(Holding(a)') /\ active'[a] <= Slots[a]
  <2> TAKE a \in Governed
  <2>1. Cardinality(Holding(a)') = Cardinality(Holding(a)) + (IF a = AgentOf[c] THEN 1 ELSE 0)
      BY OneMore DEF SlotInv
  <2>2. /\ active[a] = Cardinality(Holding(a)) /\ active[a] <= Slots[a]
        /\ active[a] \in Nat /\ Slots[a] \in Nat
      BY GovernorAssumption DEF SlotInv, SlotsCounted, CallsTyped
  <2>3. active'[a] = active[a] + (IF a = AgentOf[c] THEN 1 ELSE 0)
      BY DEF SlotInv, CallsTyped
  <2> QED BY <2>1, <2>2, <2>3
<1> QED BY <1>1, <1>2 DEF SlotInv, SlotsCounted

(***************************************************************************)
(* release gives back a slot that was taken, so that it never meets the 0. *)
(***************************************************************************)
LEMMA SlotGivenBack ==
    ASSUME SlotInv, NEW c \in Call, Release(c)
    PROVE  SlotInv'
<1>1. CallsTyped'
  <2>1. Max({0, active[AgentOf[c]] - 1}) \in Nat
      BY Lowered DEF SlotInv, CallsTyped, Governed
  <2> QED BY <2>1 DEF SlotInv, CallsTyped, Release
<1>2. \A a \in Governed : active'[a] = Cardinality(Holding(a)') /\ active'[a] <= Slots[a]
  <2> TAKE a \in Governed
  <2>1. /\ active[a] = Cardinality(Holding(a)) /\ active[a] <= Slots[a]
        /\ active[a] \in Nat /\ Slots[a] \in Nat
      BY GovernorAssumption DEF SlotInv, SlotsCounted, CallsTyped
  <2>2. phase[c] # "idle" /\ phase' = [phase EXCEPT ![c] = "idle"]
      BY DEF Release
  <2>3. CASE a = AgentOf[c]
    <3>1. active[a] > 0 /\ Cardinality(Holding(a)') = active[a] - 1
        BY <2>1, <2>2, <2>3, OneLess DEF SlotInv
    <3>2. Max({0, active[a] - 1}) = active[a] - 1
      <4>1. active[a] \in Nat /\ 1 \in Nat /\ active[a] >= 1
        BY <2>1, <3>1
      <4> QED BY <4>1, Lowered
    <3>3. active'[a] = Max({0, active[a] - 1})
        BY <2>3 DEF Release, SlotInv, CallsTyped
    <3> QED BY <2>1, <3>1, <3>2, <3>3
  <2>4. CASE a # AgentOf[c]
    <3>1. Holding(a)' = Holding(a)
        BY <2>2, <2>4, OneLess DEF SlotInv
    <3>2. active'[a] = active[a]
        BY <2>4 DEF Release, SlotInv, CallsTyped
    <3> QED BY <2>1, <3>1, <3>2
  <2> QED BY <2>3, <2>4
<1> QED BY <1>1, <1>2 DEF SlotInv, SlotsCounted

(***************************************************************************)
(* Every step keeps the count of the slots.                                *)
(***************************************************************************)
LEMMA SlotStep == SlotInv /\ [GovernorNext]_governorVars => SlotInv'
<1> SUFFICES ASSUME SlotInv, [GovernorNext]_governorVars PROVE SlotInv'
    OBVIOUS
<1>1. CASE UNCHANGED <<active, phase>>
  <2>1. CallsTyped'
      BY <1>1 DEF SlotInv, CallsTyped
  <2> QED BY <1>1, <2>1, SlotKept
<1>2. ASSUME NEW c \in Call, AcquireSlot(c) PROVE SlotInv'
  <2>1. CASE NoSlot(c) \/ NoQuota(c)
      BY <1>1, <2>1 DEF NoSlot, NoQuota
  <2>2. CASE BreakerOrSlot(c)
    <3>1. CASE Open(ApiOf[c])
        BY <1>1, <2>2, <3>1 DEF BreakerOrSlot
    <3>2. CASE ~Open(ApiOf[c])
        BY <1>2, <2>2, <3>2, SlotTaken DEF BreakerOrSlot, AcquireSlot
    <3> QED BY <3>1, <3>2
  <2> QED BY <1>2, <2>1, <2>2 DEF AcquireSlot
<1>3. ASSUME NEW c \in Call, ApiSucceeded(c) \/ ApiFailed(c) PROVE SlotInv'
  <2>1. active' = active /\ phase[c] = "holds" /\ phase' = [phase EXCEPT ![c] = "reported"]
      BY <1>3 DEF ApiSucceeded, ApiFailed
  <2>2. CallsTyped' /\ \A d \in Call : phase'[d] # "idle" <=> phase[d] # "idle"
      BY <2>1 DEF SlotInv, CallsTyped
  <2> QED BY <2>1, <2>2, SlotKept
<1>4. ASSUME NEW c \in Call, Release(c) PROVE SlotInv'
    BY <1>4, SlotGivenBack
<1>5. CASE GovernorTick
    BY <1>1, <1>5 DEF GovernorTick
<1> QED BY <1>1, <1>2, <1>3, <1>4, <1>5 DEF GovernorNext, governorVars

(***************************************************************************)
(* Initially no slot is taken.                                             *)
(***************************************************************************)
LEMMA SlotInit == GovernorInit => SlotInv
<1> SUFFICES ASSUME GovernorInit PROVE SlotInv
    OBVIOUS
<1>1. CallsTyped
    BY DEF GovernorInit, CallsTyped
<1>2. \A a \in Governed : Holding(a) = {}
    BY DEF GovernorInit, Holding
<1>3. \A a \in Governed : active[a] = 0 /\ Slots[a] \in Nat
    BY GovernorAssumption DEF GovernorInit
<1> QED BY <1>1, <1>2, <1>3, FS_EmptySet DEF SlotInv, SlotsCounted

(***************************************************************************)
(* acquire lets a breaker at most become half open, after its recovery.    *)
(***************************************************************************)
LEMMA BreakerAcquire ==
    ASSUME BreakerInv, NEW c \in Call, AcquireSlot(c)
    PROVE  BreakerInv'
<1> USE GovernorAssumption DEF BreakerInv, BreakersTyped, OpenAtThreshold, AcquireSlot
<1>1. CASE NoSlot(c) \/ NoQuota(c)
    BY <1>1 DEF NoSlot, NoQuota, Service
<1>2. CASE BreakerOrSlot(c)
  <2> DEFINE s == ApiOf[c]
  <2>1. s \in Service
      BY DEF Service
  <2>2. CASE Open(s)
      BY <1>2, <2>1, <2>2 DEF BreakerOrSlot
  <2>3. CASE ~Open(s)
    <3>1. /\ breaker' = [breaker EXCEPT ![s] = IF @ = "open" THEN "half_open" ELSE @]
          /\ lastVerdict' = [lastVerdict EXCEPT ![s] = "granted"]
          /\ charged' = [charged EXCEPT ![s] = [i \in 1..QuotaWindow |-> charged[s][i] + 1]]
          /\ failures' = failures /\ sinceFailure' = sinceFailure
        BY <1>2, <2>3 DEF BreakerOrSlot
    <3>2. charged'[s] = [i \in 1..QuotaWindow |-> charged[s][i] + 1]
        BY <2>1, <3>1
    <3>3. charged'[s] \in Seq(Nat) /\ Len(charged'[s]) = QuotaWindow
      <4>1. \A i \in 1..QuotaWindow : charged[s][i] + 1 \in Nat
          BY <2>1
      <4> QED BY <3>2, <4>1
    <3>4. \A t \in Service : charged'[t] \in Seq(Nat) /\ Len(charged'[t]) = QuotaWindow
        BY <3>1, <3>3
    <3>5. /\ DOMAIN charged' = Service
          /\ breaker' \in [Service -> {"closed", "open", "half_open"}]
          /\ lastVerdict' \in [Service -> {"granted", "no_slot", "no_quota", "open"}]
        BY <3>1
    <3>6. \A t \in Service : /\ breaker'[t] = "open" => failures[t] >= Threshold
                             /\ failures[t] >= Threshold
                                  => breaker'[t] = "open" \/ sinceFailure[t] > Recovery
        BY <2>1, <2>3, <3>1 DEF Open
    <3> QED BY <3>1, <3>4, <3>5, <3>6
  <2> QED BY <2>2, <2>3
<1> QED BY <1>1, <1>2

(***************************************************************************)
(* A failure at the threshold opens the breaker and stamps the time; a     *)
(* success closes it and clears the count.                                 *)
(***************************************************************************)
LEMMA BreakerReport ==
    ASSUME BreakerInv, NEW c \in Call, ApiSucceeded(c) \/ ApiFailed(c)
    PROVE  BreakerInv'
<1> USE GovernorAssumption DEF BreakerInv, BreakersTyped, OpenAtThreshold
<1> DEFINE s == ApiOf[c]
<1>1. s \in Service
    BY DEF Service
<1>2. CASE ApiSucceeded(c)
    BY <1>1, <1>2 DEF ApiSucceeded
<1>3. CASE ApiFailed(c)
  <2> DEFINE n == Min({Threshold, failures[s] + 1})
  <2> HIDE DEF n
  <2>0. Threshold \in Nat /\ failures[s] + 1 \in Nat /\ failures[s] \in 0..Threshold
      BY <1>1
  <2>1. n \in 0..Threshold /\ (failures[s] >= Threshold => n >= Threshold)
    <3>1. n \in {Threshold, failures[s] + 1} /\ n <= Threshold
        BY <2>0, MinOfTwo, Zenon DEF n
    <3> QED BY <2>0, <3>1
  <2>2. /\ failures' = [failures EXCEPT ![s] = n]
        /\ sinceFailure' = [sinceFailure EXCEPT ![s] = 0]
        /\ breaker' = [breaker EXCEPT ![s] = IF n >= Threshold THEN "open" ELSE @]
        /\ charged' = charged /\ lastVerdict' = lastVerdict
      BY <1>3 DEF ApiFailed, n
  <2>3. breaker[s] = "open" => n >= Threshold
      BY <1>1, <2>1
  <2>4. BreakersTyped'
      BY <1>1, <2>1, <2>2
  <2>5. OpenAtThreshold'
      BY <1>1, <2>1, <2>2, <2>3
  <2> QED BY <2>4, <2>5
<1> QED BY <1>2, <1>3

(***************************************************************************)
(* Time only takes a breaker out of its recovery period.                   *)
(***************************************************************************)
LEMMA BreakerTick ==
    ASSUME BreakerInv, GovernorTick
    PROVE  BreakerInv'
<1> USE GovernorAssumption DEF BreakerInv, BreakersTyped, OpenAtThreshold
<1>1. \A s \in Service : /\ sinceFailure'[s] \in 0..Recovery + 1
                         /\ sinceFailure[s] > Recovery => sinceFailure'[s] > Recovery
  <2> TAKE s \in Service
  <2>1. sinceFailure[s] + 1 \in Nat /\ Recovery + 1 \in Nat
      OBVIOUS
  <2>2. sinceFailure'[s] = Min({sinceFailure[s] + 1, Recovery + 1})
      BY DEF GovernorTick
  <2>3. /\ sinceFailure'[s] \in {sinceFailure[s] + 1, Recovery + 1}
        /\ sinceFailure'[s] <= Recovery + 1
    <3>1. /\ Min({sinceFailure[s] + 1, Recovery + 1}) \in {sinceFailure[s] + 1, Recovery + 1}
          /\ Min({sinceFailure[s] + 1, Recovery + 1}) <= Recovery + 1
        BY <2>1, MinOfTwo, Zenon
    <3> QED BY <2>2, <3>1
  <2>4. sinceFailure[s] \in 0..Recovery + 1
      OBVIOUS
  <2>5. CASE sinceFailure'[s] = sinceFailure[s] + 1
      BY <2>3, <2>4, <2>5
  <2>6. CASE sinceFailure'[s] = Recovery + 1
      BY <2>6
  <2> QED BY <2>3, <2>5, <2>6
<1>2. sinceFailure' \in [Service -> 0..Recovery + 1]
    BY <1>1 DEF GovernorTick
<1>3. DOMAIN charged' = Service
      /\ \A s \in Service : charged'[s] \in Seq(Nat) /\ Len(charged'[s]) = QuotaWindow
    BY Shifted DEF GovernorTick
<1>4. breaker' = breaker /\ failures' = failures /\ lastVerdict' = lastVerdict
    BY DEF GovernorTick
<1> QED BY <1>1, <1>2, <1>3, <1>4

(***************************************************************************)
(* Every step keeps breakers and counts together.                          *)
(***************************************************************************)
LEMMA BreakerStep == BreakerInv /\ [GovernorNext]_governorVars => BreakerInv'
<1> SUFFICES ASSUME BreakerInv, [GovernorNext]_governorVars PROVE BreakerInv'
    OBVIOUS
<1>1. CASE UNCHANGED <<breaker, failures, sinceFailure, charged, lastVerdict>>
    BY <1>1 DEF BreakerInv, BreakersTyped, OpenAtThreshold
<1>2. ASSUME NEW c \in Call, Release(c) PROVE BreakerInv'
    BY <1>1, <1>2 DEF Release
<1> QED BY <1>1, <1>2, BreakerAcquire, BreakerReport, BreakerTick DEF GovernorNext, governorVars

(***************************************************************************)
(* Initially no API has failed.                                            *)
(***************************************************************************)
LEMMA BreakerInit == GovernorInit => BreakerInv
<1> SUFFICES ASSUME GovernorInit PROVE BreakerInv
    OBVIOUS
<1>1. [i \in 1..QuotaWindow |-> 0] \in Seq(Nat) /\ Len([i \in 1..QuotaWindow |-> 0]) = QuotaWindow
    BY GovernorAssumption
<1> QED BY <1>1, GovernorAssumption DEF GovernorInit, BreakerInv, BreakersTyped, OpenAtThreshold

(***************************************************************************)
(* No call gets a slot from an API that is failing, and the breaker        *)
(* refuses none otherwise (acquire, record_api_success and _failure).      *)
(***************************************************************************)
LEMMA StepFollowsFailures ==
    ASSUME BreakerInv, [GovernorNext]_governorVars, NEW s \in Service
    PROVE  LET failing == failures[s] >= Threshold /\ sinceFailure[s] <= Recovery
           IN  /\ failing => charged'[s][1] <= charged[s][1]
               /\ (lastVerdict[s] # "open" /\ lastVerdict'[s] = "open") => failing
<1> DEFINE failing == failures[s] >= Threshold /\ sinceFailure[s] <= Recovery
<1>1. failing <=> Open(s)
    BY GovernorAssumption DEF BreakerInv, BreakersTyped, OpenAtThreshold, Open
<1>2. charged[s][1] \in Nat
    BY GovernorAssumption DEF BreakerInv, BreakersTyped
<1>3. CASE charged'[s] = charged[s] /\ (lastVerdict'[s] = "open" => lastVerdict[s] = "open")
    BY <1>2, <1>3
<1>4. ASSUME NEW c \in Call, AcquireSlot(c)
      PROVE  /\ failing => charged'[s][1] <= charged[s][1]
             /\ (lastVerdict[s] # "open" /\ lastVerdict'[s] = "open") => failing
  <2>1. CASE NoSlot(c) \/ NoQuota(c)
    <3>1. charged' = charged /\ (lastVerdict'[s] = "open" => lastVerdict[s] = "open")
        BY <2>1 DEF NoSlot, NoQuota, BreakerInv, BreakersTyped
    <3> QED BY <1>3, <3>1
  <2>2. CASE BreakerOrSlot(c) /\ Open(ApiOf[c])
    <3>1. charged' = charged /\ lastVerdict' = [lastVerdict EXCEPT ![ApiOf[c]] = "open"]
        BY <2>2 DEF BreakerOrSlot
    <3>2. CASE s = ApiOf[c]
        BY <1>1, <1>2, <2>2, <3>1, <3>2
    <3>3. CASE s # ApiOf[c]
        BY <1>3, <3>1, <3>3 DEF BreakerInv, BreakersTyped
    <3> QED BY <3>2, <3>3
  <2>3. CASE BreakerOrSlot(c) /\ ~Open(ApiOf[c])
    <3>1. /\ charged' = [charged EXCEPT ![ApiOf[c]] = [i \in 1..QuotaWindow |-> @[i] + 1]]
          /\ lastVerdict' = [lastVerdict EXCEPT ![ApiOf[c]] = "granted"]
        BY <2>3 DEF BreakerOrSlot
    <3>2. CASE s = ApiOf[c]
        BY <1>1, <2>3, <3>1, <3>2 DEF BreakerInv, BreakersTyped
    <3>3. CASE s # ApiOf[c]
        BY <1>3, <3>1, <3>3 DEF BreakerInv, BreakersTyped
    <3> QED BY <3>2, <3>3
  <2> QED BY <1>4, <2>1, <2>2, <2>3 DEF AcquireSlot
<1>5. CASE GovernorTick
  <2>1. charged'[s][1] = 0 /\ lastVerdict' = lastVerdict
      BY <1>5, GovernorAssumption, Shifted DEF GovernorTick, BreakerInv, BreakersTyped
  <2> QED BY <1>2, <2>1
<1>6. ASSUME NEW c \in Call, ApiSucceeded(c) \/ ApiFailed(c) \/ Release(c)
      PROVE  charged' = charged /\ lastVerdict' = lastVerdict
    BY <1>6 DEF ApiSucceeded, ApiFailed, Release
<1>7. CASE UNCHANGED governorVars
    BY <1>3, <1>7 DEF governorVars
<1> QED BY <1>3, <1>4, <1>5, <1>6, <1>7 DEF GovernorNext

(***************************************************************************)
(* A breaker shuts an API while it fails and never for good, for every     *)
(* threshold and recovery period and whatever reports come late.           *)
(***************************************************************************)
THEOREM BreakerIsHonest == GovernorSpec => BreakerFollowsFailures
<1>1. BreakerInv /\ [GovernorNext]_governorVars =>
        [\A s \in Service :
          LET failing == failures[s] >= Threshold /\ sinceFailure[s] <= Recovery
          IN  /\ failing => charged'[s][1] <= charged[s][1]
              /\ (lastVerdict[s] # "open" /\ lastVerdict'[s] = "open") => failing]_governorVars
    BY StepFollowsFailures
<1> QED BY <1>1, BreakerInit, BreakerStep, PTL DEF GovernorSpec, BreakerFollowsFailures

(***************************************************************************)
(* The quota.  The entries of an API are a log of all its calls, and those *)
(* under the quota are some of them: one is let through only while all of  *)
(* them together are fewer than the limit.                                 *)
(***************************************************************************)
UsageAtMost(s) == Max({Quota[s], MaxUsage})
ASumOf(sums) == sums \in Seq(Nat) /\ Len(sums) = QuotaWindow

QuotaInv ==
    /\ usage \in [Service -> Seq(0..QuotaWindow)]
    /\ DOMAIN charged = Service /\ DOMAIN metered = Service
    /\ \A s \in Service :
          /\ ASumOf(charged[s]) /\ ASumOf(metered[s])
          /\ Counts(charged[s], usage[s], QuotaWindow)
          /\ Len(usage[s]) <= UsageAtMost(s)
          /\ \A i \in 1..QuotaWindow : metered[s][i] <= charged[s][i] /\ metered[s][i] <= Quota[s]

LEMMA SumIsNat ==
    ASSUME NEW sums, ASumOf(sums), NEW i \in 1..QuotaWindow
    PROVE  sums[i] \in Nat
BY DEF ASumOf

LEMMA UsageBound ==
    ASSUME NEW s \in Service
    PROVE  /\ UsageAtMost(s) \in Nat /\ Quota[s] \in Nat /\ MaxUsage \in Nat
           /\ Quota[s] <= UsageAtMost(s) /\ MaxUsage <= UsageAtMost(s)
<1>1. PICK a, b : a = Quota[s] /\ b = MaxUsage /\ a \in Nat /\ b \in Nat
  BY GovernorAssumption
<1>2. Max({a, b}) \in {a, b} /\ a <= Max({a, b}) /\ b <= Max({a, b})
  BY <1>1, MaxOfTwo, Zenon
<1> QED BY <1>1, <1>2 DEF UsageAtMost

LEMMA LiveIs ==
    ASSUME QuotaInv, NEW s \in Service
    PROVE  /\ Live(s) \in Seq(0..QuotaWindow) /\ Len(Live(s)) = charged[s][QuotaWindow]
           /\ Counts(charged[s], Live(s), QuotaWindow)
           /\ Len(Live(s)) <= UsageAtMost(s)
<1>1. QuotaWindow \in Nat \ {0} /\ UsageAtMost(s) \in Nat /\ QuotaWindow \in 1..QuotaWindow
  BY GovernorAssumption, UsageBound
<1>2. usage[s] \in Seq(0..QuotaWindow) /\ Counts(charged[s], usage[s], QuotaWindow)
  BY DEF QuotaInv
<1>3. /\ Live(s) \in Seq(0..QuotaWindow) /\ Len(Live(s)) = charged[s][QuotaWindow]
      /\ Counts(charged[s], Live(s), QuotaWindow)
  <2>1. PICK w, q, r : w = QuotaWindow /\ q = usage[s] /\ r = charged[s]
    OBVIOUS
  <2>2. PICK live : live = SubSeq(q, Cardinality({k \in DOMAIN q : q[k] >= w}) + 1, Len(q))
    OBVIOUS
  <2>3. w \in Nat \ {0} /\ q \in Seq(0..w) /\ Counts(r, q, w)
    BY <1>1, <1>2, <2>1
  <2>4. live \in Seq(0..w) /\ Len(live) = r[w] /\ Counts(r, live, w)
    BY <2>2, <2>3, Dropped, Zenon
  <2>5. live = Live(s)
    BY <2>1, <2>2, Zenon DEF Live, Expired
  <2> QED BY <2>1, <2>4, <2>5
<1>4. charged[s][QuotaWindow] \in 0..Len(usage[s]) /\ Len(usage[s]) <= UsageAtMost(s)
  BY <1>1 DEF QuotaInv, Counts
<1> QED BY <1>1, <1>3, <1>4

\* What a call finds after its check, with a quota or without.
LEMMA CheckedIs ==
    ASSUME QuotaInv, NEW c \in Call
    PROVE  /\ Checked(c) \in Seq(0..QuotaWindow) /\ Len(Checked(c)) <= UsageAtMost(ApiOf[c])
           /\ Counts(charged[ApiOf[c]], Checked(c), QuotaWindow)
           /\ MayPass(c) => Len(Checked(c)) < UsageAtMost(ApiOf[c])
           /\ MayPass(c) /\ c \in Metered => charged[ApiOf[c]][QuotaWindow] < Quota[ApiOf[c]]
<1> DEFINE s == ApiOf[c]
<1>1. s \in Service /\ UsageAtMost(s) \in Nat /\ Quota[s] \in Nat /\ MaxUsage \in Nat
      /\ Quota[s] <= UsageAtMost(s) /\ MaxUsage <= UsageAtMost(s)
  BY UsageBound DEF Service
<1> HIDE DEF s
<1>2. CASE c \in Metered
  <2>1. Checked(c) = Live(s) /\ (MayPass(c) <=> Len(Live(s)) < Quota[s])
    BY <1>2 DEF Checked, MayPass, QuotaLeft, s
  <2>2. /\ Live(s) \in Seq(0..QuotaWindow) /\ Len(Live(s)) = charged[s][QuotaWindow]
        /\ Counts(charged[s], Live(s), QuotaWindow) /\ Len(Live(s)) <= UsageAtMost(s)
        /\ Len(Live(s)) \in Nat
    BY <1>1, LiveIs
  <2> QED BY <1>1, <2>1, <2>2 DEF s
<1>3. CASE c \notin Metered
  <2>1. Checked(c) = usage[s] /\ (MayPass(c) <=> Len(usage[s]) < MaxUsage)
    BY <1>3 DEF Checked, MayPass, s
  <2>2. /\ usage[s] \in Seq(0..QuotaWindow) /\ Len(usage[s]) <= UsageAtMost(s)
        /\ Counts(charged[s], usage[s], QuotaWindow) /\ Len(usage[s]) \in Nat
    BY <1>1 DEF QuotaInv
  <2> QED BY <1>1, <1>3, <2>1, <2>2 DEF s
<1> QED BY <1>2, <1>3

\* One unit more in every window.
Plus(sums) == [i \in 1..QuotaWindow |-> sums[i] + 1]

LEMMA PlusIs ==
    ASSUME NEW sums, ASumOf(sums)
    PROVE  ASumOf(Plus(sums)) /\ \A i \in 1..QuotaWindow : Plus(sums)[i] = sums[i] + 1
<1>1. QuotaWindow \in Nat
  BY GovernorAssumption
<1>2. \A i \in 1..QuotaWindow : sums[i] + 1 \in Nat
  BY <1>1 DEF ASumOf
<1> QED BY <1>1, <1>2 DEF ASumOf, Plus

\* The entries that are old go, or one comes; a call with a quota comes while there is some left.
LEMMA QuotaAcquire ==
    ASSUME QuotaInv, NEW c \in Call, AcquireSlot(c) PROVE QuotaInv'
<1> DEFINE s == ApiOf[c]
<1>0. s \in Service
  BY DEF Service
<1>1. CASE usage' = usage /\ charged' = charged /\ metered' = metered
  BY <1>1 DEF QuotaInv, Counts
<1>2. CASE usage' = [usage EXCEPT ![s] = Checked(c)] /\ charged' = charged /\ metered' = metered
  <2>1. PICK live : live = Checked(c)
    OBVIOUS
  <2>2. /\ live \in Seq(0..QuotaWindow) /\ Len(live) <= UsageAtMost(s)
        /\ Counts(charged[s], live, QuotaWindow)
    BY <1>0, <2>1, CheckedIs
  <2>3. /\ usage' = [usage EXCEPT ![s] = live]
        /\ \A t \in Service : usage'[t] = IF t = s THEN live ELSE usage[t]
    BY <1>2, <2>1 DEF QuotaInv
  <2>4. \A t \in Service : Counts(charged'[t], usage'[t], QuotaWindow)
    BY <1>2, <2>2, <2>3 DEF QuotaInv
  <2>5. \A t \in Service : Counts(charged[t], usage[t], QuotaWindow)'
    BY <2>4 DEF Counts
  <2> HIDE DEF s
  <2> QED BY <1>2, <2>2, <2>3, <2>5 DEF QuotaInv
<1>3. CASE /\ MayPass(c)
           /\ usage' = [usage EXCEPT ![s] = Append(Checked(c), 0)]
           /\ charged' = [charged EXCEPT ![s] = Plus(charged[s])]
           /\ metered' = IF c \in Metered THEN [metered EXCEPT ![s] = Plus(metered[s])] ELSE metered
  <2>1. PICK more, sums, under :
           /\ more = Append(Checked(c), 0) /\ sums = Plus(charged[s])
           /\ under = IF c \in Metered THEN Plus(metered[s]) ELSE metered[s]
    OBVIOUS
  <2>2. /\ QuotaWindow \in Nat \ {0} /\ UsageAtMost(s) \in Nat /\ Quota[s] \in Nat
        /\ QuotaWindow \in 1..QuotaWindow
    BY <1>0, GovernorAssumption, UsageBound
  <2>3. /\ ASumOf(sums) /\ ASumOf(under)
        /\ \A i \in 1..QuotaWindow : sums[i] = charged[s][i] + 1
        /\ \A i \in 1..QuotaWindow : under[i] = IF c \in Metered THEN metered[s][i] + 1 ELSE metered[s][i]
    BY <1>0, <2>1, PlusIs DEF QuotaInv
  <2>4. more \in Seq(0..QuotaWindow) /\ Len(more) <= UsageAtMost(s) /\ Counts(sums, more, QuotaWindow)
    <3>1. PICK w, q, r : w = QuotaWindow /\ q = Checked(c) /\ r = charged[s]
      OBVIOUS
    <3>2. /\ w \in Nat \ {0} /\ q \in Seq(0..w) /\ Counts(r, q, w) /\ more = Append(q, 0)
          /\ Len(q) < UsageAtMost(s)
      BY <1>3, <2>1, <2>2, <3>1, CheckedIs
    <3>3. \A i \in 1..w : sums[i] = r[i] + 1
      BY <2>3, <3>1
    <3>4. more \in Seq(0..w) /\ Len(more) = Len(q) + 1 /\ Counts(sums, more, w)
      BY <3>2, <3>3, Logged
    <3>5. Len(q) \in Nat
      BY <3>2
    <3> QED BY <2>2, <3>1, <3>2, <3>4, <3>5
  <2>5. \A i \in 1..QuotaWindow : under[i] <= sums[i] /\ under[i] <= Quota[s]
    <3> TAKE i \in 1..QuotaWindow
    <3>1. /\ charged[s][i] \in Nat /\ metered[s][i] \in Nat
          /\ metered[s][i] <= charged[s][i] /\ metered[s][i] <= Quota[s]
      <4>1. ASumOf(charged[s]) /\ ASumOf(metered[s])
        BY <1>0 DEF QuotaInv
      <4>2. charged[s][i] \in Nat /\ metered[s][i] \in Nat
        BY <2>2, <4>1, SumIsNat
      <4> QED BY <1>0, <4>2 DEF QuotaInv
    <3>2. CASE c \in Metered
      <4>1. charged[s][QuotaWindow] < Quota[s] /\ charged[s][QuotaWindow] \in Nat
        <5>1. ASumOf(charged[s])
          BY <1>0 DEF QuotaInv
        <5>2. charged[s][QuotaWindow] \in Nat
          BY <2>2, <5>1, SumIsNat
        <5>3. charged[s][QuotaWindow] < Quota[s]
          BY <1>3, <3>2, <5>2, CheckedIs
        <5> QED BY <5>2, <5>3
      <4>2. charged[s][i] <= charged[s][QuotaWindow]
        <5>1. PICK w, q, r : w = QuotaWindow /\ q = usage[s] /\ r = charged[s]
          OBVIOUS
        <5>2. Counts(r, q, w) /\ w \in Nat \ {0} /\ q \in Seq(0..w) /\ i \in 1..w /\ w \in 1..w
          BY <1>0, <2>2, <5>1 DEF QuotaInv
        <5>3. r[i] <= r[w]
          BY <5>2, LongerCountsMore
        <5> QED BY <5>1, <5>3
      <4> QED BY <2>2, <2>3, <3>1, <3>2, <4>1, <4>2
    <3>3. CASE c \notin Metered
      BY <2>2, <2>3, <3>1, <3>3
    <3> QED BY <3>2, <3>3
  <2>6. /\ usage' = [usage EXCEPT ![s] = more] /\ charged' = [charged EXCEPT ![s] = sums]
        /\ DOMAIN metered' = Service
        /\ \A t \in Service : /\ usage'[t] = IF t = s THEN more ELSE usage[t]
                              /\ charged'[t] = IF t = s THEN sums ELSE charged[t]
                              /\ metered'[t] = IF t = s THEN under ELSE metered[t]
    BY <1>3, <2>1 DEF QuotaInv
  <2>7. \A t \in Service : Counts(charged'[t], usage'[t], QuotaWindow)
    BY <2>4, <2>6 DEF QuotaInv
  <2>8. \A t \in Service : Counts(charged[t], usage[t], QuotaWindow)'
    BY <2>7 DEF Counts
  <2>9. \A t \in Service : ASumOf(charged[t])' /\ ASumOf(metered[t])'
    BY <2>3, <2>6 DEF QuotaInv, ASumOf
  <2>10. usage' \in [Service -> Seq(0..QuotaWindow)] /\ DOMAIN charged' = Service
    BY <2>4, <2>6 DEF QuotaInv
  <2>11. \A t \in Service : Len(usage'[t]) <= UsageAtMost(t)
    BY <2>4, <2>6 DEF QuotaInv
  <2>12. \A t \in Service : \A i \in 1..QuotaWindow :
            metered'[t][i] <= charged'[t][i] /\ metered'[t][i] <= Quota[t]
    BY <2>5, <2>6 DEF QuotaInv
  <2>13. \A t \in Service : UsageAtMost(t)' = UsageAtMost(t)
    BY DEF UsageAtMost
  <2> QED BY <2>6, <2>8, <2>9, <2>10, <2>11, <2>12, <2>13 DEF QuotaInv
<1>4. NoSlot(c) => usage' = usage /\ charged' = charged /\ metered' = metered
  BY DEF NoSlot
<1>5. NoQuota(c) => usage' = [usage EXCEPT ![s] = Checked(c)] /\ charged' = charged /\ metered' = metered
  BY DEF NoQuota, Checked
<1>6. BreakerOrSlot(c) =>
         \/ /\ usage' = [usage EXCEPT ![s] = Checked(c)] /\ charged' = charged /\ metered' = metered
         \/ /\ MayPass(c)
            /\ usage' = [usage EXCEPT ![s] = Append(Checked(c), 0)]
            /\ charged' = [charged EXCEPT ![s] = Plus(charged[s])]
            /\ metered' = IF c \in Metered THEN [metered EXCEPT ![s] = Plus(metered[s])] ELSE metered
  BY DEF BreakerOrSlot, Plus
<1> QED BY <1>1, <1>2, <1>3, <1>4, <1>5, <1>6 DEF AcquireSlot

LEMMA QuotaTick ==
    ASSUME QuotaInv, GovernorTick PROVE QuotaInv'
<1>1. ASSUME NEW s \in Service
      PROVE  /\ usage'[s] \in Seq(0..QuotaWindow)
             /\ ASumOf(charged'[s]) /\ ASumOf(metered'[s])
             /\ Counts(charged'[s], usage'[s], QuotaWindow)
             /\ Len(usage'[s]) <= UsageAtMost(s)
             /\ \A i \in 1..QuotaWindow :
                   metered'[s][i] <= charged'[s][i] /\ metered'[s][i] <= Quota[s]
  <2>1. PICK q, p, r, x, m, y :
           /\ q = usage[s] /\ p = [k \in DOMAIN q |-> Min({q[k] + 1, QuotaWindow})]
           /\ r = charged[s] /\ x = <<0>> \o Front(r)
           /\ m = metered[s] /\ y = <<0>> \o Front(m)
    OBVIOUS
  <2>2. usage'[s] = p /\ charged'[s] = x /\ metered'[s] = y
    BY <2>1 DEF GovernorTick
  <2>3. /\ q \in Seq(0..QuotaWindow) /\ r \in Seq(Nat) /\ Len(r) = QuotaWindow
        /\ m \in Seq(Nat) /\ Len(m) = QuotaWindow
        /\ Counts(r, q, QuotaWindow) /\ QuotaWindow \in Nat \ {0}
        /\ Len(q) <= UsageAtMost(s) /\ Quota[s] \in Nat
        /\ \A i \in 1..QuotaWindow : m[i] <= r[i] /\ m[i] <= Quota[s]
    BY <2>1, GovernorAssumption DEF QuotaInv, ASumOf
  <2>4. /\ x \in Seq(Nat) /\ Len(x) = QuotaWindow /\ x[1] = 0
        /\ \A i \in 1..QuotaWindow - 1 : x[i + 1] = r[i]
    BY <2>1, <2>3, Shifted
  <2>5. PICK n \in Nat : n = Len(q)
    BY <2>3
  <2>6. /\ p \in Seq(0..QuotaWindow) /\ Len(p) = n
        /\ \A k \in 1..n : /\ p[k] \in 0..QuotaWindow /\ p[k] <= q[k] + 1
                          /\ p[k] \in {q[k] + 1, QuotaWindow}
    <3>1. PICK w : w = QuotaWindow
      OBVIOUS
    <3>2. w \in Nat \ {0} /\ q \in Seq(0..w) /\ n \in Nat /\ n = Len(q)
      BY <2>3, <2>5, <3>1
    <3>3. p = [k \in DOMAIN q |-> Min({q[k] + 1, w})]
      BY <2>1, <3>1
    <3>4. /\ p \in Seq(0..w) /\ Len(p) = n
          /\ \A k \in 1..n : p[k] \in 0..w /\ p[k] <= q[k] + 1 /\ p[k] \in {q[k] + 1, w}
      <4>1. DOMAIN q = 1..n /\ \A k \in 1..n : q[k] \in 0..w
        BY <3>2
      <4>2. p = [k \in 1..n |-> p[k]] /\ \A k \in 1..n : p[k] = Min({q[k] + 1, w})
        BY <3>3, <4>1
      <4>3. \A k \in 1..n : p[k] \in 0..w /\ p[k] <= q[k] + 1 /\ p[k] \in {q[k] + 1, w}
        BY <3>2, <4>1, <4>2, Older
      <4>4. p \in [1..n -> 0..w]
        BY <4>2, <4>3
      <4>5. p \in Seq(0..w) /\ Len(p) = n
        BY <3>2, <4>4
      <4> QED BY <4>3, <4>5
    <3> QED BY <3>1, <3>4
  <2>7. Counts(x, p, QuotaWindow)
    BY <2>3, <2>4, <2>5, <2>6, Ticked
  <2>8. /\ y \in Seq(Nat) /\ Len(y) = QuotaWindow /\ y[1] = 0
        /\ \A i \in 1..QuotaWindow - 1 : y[i + 1] = m[i]
    BY <2>1, <2>3, Shifted
  <2>9. \A i \in 1..QuotaWindow : y[i] <= x[i] /\ y[i] <= Quota[s]
    <3> TAKE i \in 1..QuotaWindow
    <3>1. CASE i = 1
      BY <2>3, <2>4, <2>8, <3>1
    <3>2. CASE i > 1
      <4>1. PICK j \in 1..QuotaWindow - 1 : i = j + 1 /\ j \in 1..QuotaWindow
        <5>1. i - 1 \in 1..QuotaWindow - 1 /\ i = (i - 1) + 1 /\ i - 1 \in 1..QuotaWindow
          BY <2>3, <3>2
        <5> QED BY <5>1
      <4> QED BY <2>3, <2>4, <2>8, <4>1
    <3> QED BY <2>3, <3>1, <3>2
  <2> QED BY <2>2, <2>3, <2>4, <2>5, <2>6, <2>7, <2>8, <2>9 DEF ASumOf
<1>2. /\ DOMAIN usage' = Service /\ DOMAIN charged' = Service /\ DOMAIN metered' = Service
      /\ usage' = [s \in Service |-> usage'[s]]
  BY DEF GovernorTick
<1>3. \A s \in Service : Counts(charged[s], usage[s], QuotaWindow)'
  BY <1>1 DEF Counts
<1>4. \A s \in Service : /\ UsageAtMost(s)' = UsageAtMost(s)
                         /\ ASumOf(charged[s])' /\ ASumOf(metered[s])'
  BY <1>1 DEF UsageAtMost, ASumOf
<1> QED BY <1>1, <1>2, <1>3, <1>4 DEF QuotaInv

LEMMA QuotaStep == QuotaInv /\ [GovernorNext]_governorVars => QuotaInv'
<1> SUFFICES ASSUME QuotaInv, [GovernorNext]_governorVars PROVE QuotaInv'
    OBVIOUS
<1>1. CASE UNCHANGED <<usage, charged, metered>>
  BY <1>1 DEF QuotaInv, Counts, ASumOf, UsageAtMost
<1>2. ASSUME NEW c \in Call, ApiSucceeded(c) \/ ApiFailed(c) \/ Release(c) PROVE QuotaInv'
  BY <1>1, <1>2 DEF ApiSucceeded, ApiFailed, Release
<1> QED BY <1>1, <1>2, QuotaAcquire, QuotaTick DEF GovernorNext, governorVars

LEMMA QuotaStart == GovernorInit => QuotaInv
<1> SUFFICES ASSUME GovernorInit PROVE QuotaInv
    OBVIOUS
<1>1. PICK z, e : z = [i \in 1..QuotaWindow |-> 0] /\ e = <<>>
  OBVIOUS
<1>2. ASumOf(z) /\ \A i \in 1..QuotaWindow : z[i] = 0
  BY <1>1, GovernorAssumption DEF ASumOf
<1>3. Len(e) = 0 /\ e \in Seq(0..QuotaWindow)
  BY <1>1
<1>4. Counts(z, e, QuotaWindow)
  BY <1>2, <1>3 DEF Counts
<1>5. /\ usage = [s \in Service |-> e]
      /\ charged = [s \in Service |-> z] /\ metered = [s \in Service |-> z]
  BY <1>1 DEF GovernorInit
<1>6. \A s \in Service : UsageAtMost(s) \in Nat /\ Quota[s] \in Nat
  BY UsageBound
<1> QED BY <1>2, <1>3, <1>4, <1>5, <1>6 DEF QuotaInv

(***************************************************************************)
(* The limits of the governor hold for any calls, agents and APIs: the     *)
(* slots are those of the calls in progress, and no window of time, where- *)
(* ever it starts, has more calls of an API under its quota than the limit *)
(* (acquire), whatever calls without a quota are recorded among them.      *)
(***************************************************************************)
THEOREM GovernorKeepsLimits == GovernorSpec => []LimitsHold
<1>1. SlotInv /\ BreakerInv /\ QuotaInv => GovernorTypeOK
  BY DEF SlotInv, CallsTyped, BreakerInv, BreakersTyped, QuotaInv, GovernorTypeOK, UsageAtMost
<1>2. SlotInv => SlotsAreHeld
  BY DEF SlotInv, SlotsCounted, SlotsAreHeld, Holding
<1>3. QuotaInv => QuotaHolds
  <2>1. QuotaWindow \in 1..QuotaWindow
    BY GovernorAssumption
  <2> QED BY <2>1 DEF QuotaInv, QuotaHolds
<1> QED BY <1>1, <1>2, <1>3, SlotInit, SlotStep, BreakerInit, BreakerStep, QuotaStart, QuotaStep,
           PTL DEF GovernorSpec, LimitsHold

(***************************************************************************)
(* The rate limiters.  A behaviour is about one of them, and each has an   *)
(* invariant of its own.  The bucket: what was granted and what may be     *)
(* granted at once make a burst, and the sleeper's tokens come while it    *)
(* sleeps.  The crawler: what it granted at once and what it would grant   *)
(* make a burst; what a sleeper was granted, and what is credited to it    *)
(* for its sleep, leave room for the time it still sleeps.  A sliding      *)
(* window: its stamps are a log of what was granted.  A fixed window: what *)
(* was granted since its bucket began is its counter, and what was granted *)
(* before is from one bucket, or older.                                    *)
(***************************************************************************)
BurstAtMost == Max(Sizes \cup {Burst})
Admitted == IF count <= Limit THEN count ELSE Limit

RatesTyped ==
    /\ limiter \in {"bucket", "domain", "sliding", "fixed"}
    /\ tokens \in 0..Burst /\ age \in 0..Burst
    /\ asleep \in [Caller -> Int] /\ wanted \in [Caller -> Nat]
    /\ clock \in 0..Window - 1 /\ count \in 0..Limit + 1
    /\ recent \in Seq(Nat) /\ Len(recent) = Window /\ level \in Nat
    /\ late \in [Caller -> Nat]
    /\ limiter \in {"sliding", "fixed"} => \A c \in Caller : asleep[c] < 0

BucketInv ==
    limiter = "bucket" =>
        /\ level <= BurstAtMost
        /\ LockIsFree => level + Refilled <= BurstAtMost
        /\ \A c \in Caller : asleep[c] >= 0 =>
              /\ wanted[c] <= BurstAtMost
              /\ (level - asleep[c]) + wanted[c] <= BurstAtMost
        /\ \A c, d \in Caller : asleep[c] >= 0 /\ asleep[d] >= 0 => c = d

WaiterInv(c) ==
    /\ asleep[c] <= Token
    /\ asleep[c] >= 0 => wanted[c] = Token /\ (late[c] = 0 \/ late[c] + age <= Token + asleep[c])
    /\ asleep[c] < 0 => late[c] <= Token \/ late[c] + Refilled <= 2 * Token

DomainInv ==
    limiter = "domain" => level + Refilled <= Burst /\ \A c \in Caller : WaiterInv(c)

SlidingInv ==
    limiter = "sliding" =>
        /\ stamps \in Seq(0..Window) /\ Len(stamps) <= Limit
        /\ Counts(recent, stamps, Window)

FixedInv ==
    limiter = "fixed" =>
        /\ recent[clock + 1] = Admitted
        /\ \A i, j \in 1..Window : i <= j => recent[i] <= recent[j]
        /\ \A i \in clock + 1..Window : recent[i] <= recent[clock + 1] + Limit

\* A finite set of numbers has a largest one: one without has a smaller one without.
LEMMA LastExists ==
    ASSUME NEW S, IsFiniteSet(S), S # {}, S \subseteq Nat
    PROVE  \E i \in S : \A j \in S : j <= i
<1> DEFINE Endless(T) == IsFiniteSet(T) /\ T # {} /\ T \subseteq Nat /\ ~\E i \in T : \A j \in T : j <= i
           Ns == {n \in Nat : \E T : Endless(T) /\ Cardinality(T) = n}
<1> SUFFICES ASSUME Endless(S) PROVE FALSE
  OBVIOUS
<1>1. Cardinality(S) \in Ns
  BY FS_CardinalityType
<1>2. PICK n \in Ns : \A m \in Ns : n <= m
  <2>1. Ns \in SUBSET Nat /\ Ns # {}
    BY <1>1
  <2>2. PICK i \in Ns : \A j \in Ns : ~ (<<j, i>> \in OpToRel(<, Nat))
    BY <2>1, NatLessThanWellFounded, WFMin
  <2>3. \A j \in Ns : ~ (j < i)
    BY <2>2 DEF OpToRel
  <2> QED BY <2>3
<1>3. PICK T : Endless(T) /\ Cardinality(T) = n
  BY <1>2
<1>4. PICK t \in T : t \in Nat
  BY <1>3
<1>5. /\ IsFiniteSet(T \ {t}) /\ T \ {t} \subseteq Nat
      /\ Cardinality(T \ {t}) = n - 1
  BY <1>3, <1>4, FS_RemoveElement
<1>6. ~Endless(T \ {t})
  <2>1. Endless(T \ {t}) => n - 1 \in Ns
    BY <1>5, FS_CardinalityType
  <2> QED BY <1>2, <2>1
<1>7. CASE T \ {t} = {}
  <2>1. \A j \in T : j <= t
    BY <1>4, <1>7
  <2> QED BY <1>3, <1>4, <2>1
<1>8. CASE T \ {t} # {}
  <2>1. PICK u \in T \ {t} : \A j \in T \ {t} : j <= u
    BY <1>5, <1>6, <1>8
  <2>2. u \in Nat /\ u \in T
    BY <1>5
  <2>3. CASE t <= u
    <3>1. \A j \in T : j <= u
      BY <2>1, <2>3
    <3> QED BY <1>3, <2>2, <3>1
  <2>4. CASE u <= t
    <3>1. \A j \in T \ {t} : j <= t
      BY <1>3, <1>4, <2>1, <2>2, <2>4
    <3>2. \A j \in T : j <= t
      BY <1>4, <3>1
    <3> QED BY <1>3, <1>4, <3>2
  <2> QED BY <1>4, <2>2, <2>3, <2>4
<1> QED BY <1>7, <1>8

LEMMA BurstIs ==
    BurstAtMost \in Nat /\ Burst <= BurstAtMost /\ \A n \in Sizes : n <= BurstAtMost
<1> DEFINE S == Sizes \cup {Burst}
           P(x) == x \in S /\ \A y \in S : x >= y
<1>1. IsFiniteSet(S) /\ S # {} /\ S \subseteq Nat
  BY RateAssumption, FS_AddElement
<1>2. PICK i \in S : \A j \in S : j <= i
  BY <1>1, LastExists
<1>3. P(i)
  BY <1>1, <1>2
<1>4. P(CHOOSE x : P(x))
  BY <1>3
<1>5. BurstAtMost = CHOOSE x : P(x)
  BY DEF Max, BurstAtMost
<1> QED BY <1>1, <1>4, <1>5

\* The tokens a caller finds, and those it would find a tick later.
LEMMA Refills ==
    ASSUME NEW b \in Nat, NEW t \in 0..b, NEW a \in 0..b
    PROVE  /\ Min({b, t + a}) \in 0..b
           /\ t <= Min({b, t + a}) /\ Min({b, a}) <= Min({b, t + a})
           /\ Min({a + 1, b}) \in 0..b
           /\ Min({b, t + Min({a + 1, b})}) <= Min({b, t + a}) + 1
           /\ Min({b, t + Min({a + 1, b})}) <= b
<1> PICK r, s, u, v : r = Min({b, t + a}) /\ s = Min({b, a})
                      /\ u = Min({a + 1, b}) /\ v = Min({b, t + u})
  OBVIOUS
<1>1. t + a \in Nat /\ a + 1 \in Nat /\ a \in Nat /\ t \in Nat
  OBVIOUS
<1>2. r \in {b, t + a} /\ r <= b /\ r <= t + a
  BY <1>1, MinOfTwo, Zenon
<1>3. s \in {b, a} /\ s <= b /\ s <= a
  BY <1>1, MinOfTwo, Zenon
<1>4. u \in {a + 1, b} /\ u <= b /\ u <= a + 1
  BY <1>1, MinOfTwo, Zenon
<1>5. t + u \in Nat /\ u \in 0..b
  BY <1>1, <1>4
<1>6. v \in {b, t + u} /\ v <= b /\ v <= t + u
  BY <1>5, MinOfTwo, Zenon
<1>7. r \in 0..b /\ t <= r /\ s <= r /\ v <= r + 1
  BY <1>1, <1>2, <1>3, <1>4, <1>5, <1>6
<1> QED BY <1>5, <1>6, <1>7

\* A bucket that is empty when its time starts anew.
LEMMA FullBucket ==
    ASSUME NEW b \in Nat, NEW t \in 0..b
    PROVE  Min({b, t + 0}) = t
<1>1. t + 0 \in Nat
  OBVIOUS
<1>2. Min({b, t + 0}) \in {b, t + 0} /\ Min({b, t + 0}) <= b /\ Min({b, t + 0}) <= t + 0
  BY <1>1, MinOfTwo
<1> QED BY <1>2

LEMMA RefilledIs == RatesTyped => Refilled \in 0..Burst /\ tokens <= Refilled
BY RateAssumption, Refills DEF RatesTyped, Refilled

\* What a grant does to what a window let through lately.
LEMMA RecentGrows ==
    ASSUME RatesTyped, Granting
    PROVE  /\ recent' \in Seq(Nat) /\ Len(recent') = Window /\ level' = level /\ late' = late
           /\ \A i \in 1..Window : recent'[i] = recent[i] + 1
<1>1. \A i \in 1..Window : recent[i] \in Nat
  BY DEF RatesTyped
<1>2. recent' = [i \in 1..Window |-> recent[i] + 1] /\ level' = level /\ late' = late
  BY DEF Granting
<1>3. \A i \in 1..Window : recent'[i] = recent[i] + 1 /\ recent[i] + 1 \in Nat
  BY <1>1, <1>2
<1>4. Window \in Nat
  BY RateAssumption
<1> QED BY <1>2, <1>3, <1>4

(***************************************************************************)
(* The steps, one by one, and the types.                                   *)
(***************************************************************************)
LEMMA TypedStep == RatesTyped /\ [RateNext]_rateVars => RatesTyped'
<1> SUFFICES ASSUME RatesTyped, [RateNext]_rateVars PROVE RatesTyped'
  OBVIOUS
<1>0. /\ Burst \in Nat /\ Limit \in Nat /\ Window \in Nat \ {0} /\ Sizes \subseteq Nat
      /\ Refilled \in 0..Burst
  BY RateAssumption, RefilledIs
<1>1. ASSUME NEW c \in Caller, NEW n \in Sizes, Acquire(c, n) PROVE RatesTyped'
  <2>0. n \in Nat
    BY <1>0
  <2>1. /\ limiter' = limiter /\ limiter \in {"bucket", "domain"}
        /\ age' = 0 /\ clock' = clock /\ count' = count
    BY <1>1 DEF Acquire
  <2>2. CASE Refilled >= n
    <3>1. /\ tokens' = Refilled - n /\ UNCHANGED <<asleep, wanted>>
          /\ recent' = recent /\ level' = level + n /\ late' = late
      BY <1>1, <2>2 DEF Acquire, Passing
    <3>2. tokens' \in 0..Burst
      BY <1>0, <2>0, <2>2, <3>1
    <3> QED BY <1>0, <2>0, <2>1, <3>1, <3>2 DEF RatesTyped
  <2>3. CASE ~(Refilled >= n)
    <3>1. Sleeps(c, n, n - Refilled)
      BY <1>1, <2>3 DEF Acquire
    <3>2. /\ asleep' = [asleep EXCEPT ![c] = n - Refilled] /\ wanted' = [wanted EXCEPT ![c] = n]
          /\ tokens' = Refilled /\ recent' = recent /\ level' = level /\ late' = late
      BY <3>1 DEF Sleeps, histories
    <3>3. n - Refilled \in Int
      BY <1>0, <2>0
    <3> QED BY <1>0, <2>0, <2>1, <3>2, <3>3 DEF RatesTyped
  <2> QED BY <2>2, <2>3
<1>2. ASSUME NEW c \in Caller, Wakes(c) PROVE RatesTyped'
  <2>1. /\ asleep[c] = 0 /\ asleep' = [asleep EXCEPT ![c] = -1]
        /\ tokens' = 0 /\ age' = AgeAfterSleep /\ PassingLate(c)
        /\ UNCHANGED <<limiter, wanted, stamps, clock, count>>
    BY <1>2 DEF Wakes
  <2>2. wanted[c] \in Nat /\ AgeAfterSleep \in 0..Burst
    BY <1>0 DEF RatesTyped, AgeAfterSleep
  <2>3. recent' = recent /\ level' \in Nat /\ late' \in [Caller -> Nat]
    <3>1. level \in Nat /\ late \in [Caller -> Nat]
      BY DEF RatesTyped
    <3>2. CASE limiter = "bucket"
      <4>1. level' = level + wanted[c] /\ recent' = recent /\ late' = late
        BY <2>1, <3>2 DEF PassingLate, Passing
      <4> QED BY <2>2, <3>1, <4>1
    <3>3. CASE limiter # "bucket"
      <4>1. late' = [late EXCEPT ![c] = @ + wanted[c]] /\ recent' = recent /\ level' = level
        BY <2>1, <3>3 DEF PassingLate
      <4>2. late[c] + wanted[c] \in Nat
        BY <2>2, <3>1
      <4> QED BY <3>1, <4>1, <4>2
    <3> QED BY <3>2, <3>3
  <2>4. limiter \notin {"sliding", "fixed"}
    BY <2>1 DEF RatesTyped
  <2>5. asleep' \in [Caller -> Int] /\ tokens' \in 0..Burst
    <3>1. -1 \in Int /\ 0 \in 0..Burst
      BY <1>0
    <3> QED BY <2>1, <3>1 DEF RatesTyped
  <2> QED BY <2>1, <2>2, <2>3, <2>4, <2>5 DEF RatesTyped
<1>3. CASE SlidingAllow
  <2>1. UNCHANGED <<limiter, tokens, age, asleep, wanted, clock, count>>
    BY <1>3 DEF SlidingAllow
  <2>2. UNCHANGED histories \/ Granting
    BY <1>3 DEF SlidingAllow
  <2>3. recent' \in Seq(Nat) /\ Len(recent') = Window /\ level' = level /\ late' = late
    BY <2>2, RecentGrows DEF RatesTyped, histories
  <2> QED BY <2>1, <2>3 DEF RatesTyped
<1>4. CASE FixedAllow
  <2>1. /\ UNCHANGED <<limiter, tokens, age, asleep, wanted, clock>>
        /\ count <= Limit /\ count' = count + 1
    BY <1>4 DEF FixedAllow
  <2>2. UNCHANGED histories \/ Granting
    BY <1>4 DEF FixedAllow
  <2>3. recent' \in Seq(Nat) /\ Len(recent') = Window /\ level' = level /\ late' = late
    BY <2>2, RecentGrows DEF RatesTyped, histories
  <2>4. count' \in 0..Limit + 1
    BY <1>0, <2>1 DEF RatesTyped
  <2> QED BY <2>1, <2>3, <2>4 DEF RatesTyped
<1>5. CASE RateTick
  <2>1. /\ UNCHANGED <<limiter, tokens, wanted>>
        /\ age' = Min({age + 1, Burst})
        /\ asleep' = [c \in Caller |-> IF asleep[c] > 0 THEN asleep[c] - 1 ELSE asleep[c]]
        /\ clock' = IF limiter = "fixed" /\ clock + 1 < Window THEN clock + 1 ELSE 0
        /\ count' = IF clock' = 0 THEN 0 ELSE count
        /\ recent' = <<0>> \o Front(recent)
        /\ level' = Max({0, level - 1})
        /\ late' = [c \in Caller |-> Max({0, late[c] - 2})]
    BY <1>5 DEF RateTick
  <2>2. recent' \in Seq(Nat) /\ Len(recent') = Window
    BY <1>0, <2>1, Shifted DEF RatesTyped
  <2>3. age' \in 0..Burst
    BY <1>0, <2>1, Refills DEF RatesTyped
  <2>4. clock' \in 0..Window - 1 /\ count' \in 0..Limit + 1
    BY <1>0, <2>1 DEF RatesTyped
  <2>5. level' \in Nat /\ \A c \in Caller : Max({0, late[c] - 2}) \in Nat
    BY <2>1, Lowered DEF RatesTyped
  <2>6. asleep' \in [Caller -> Int] /\ \A c \in Caller : asleep[c] < 0 => asleep'[c] < 0
    <3>1. \A c \in Caller : asleep[c] \in Int
      BY DEF RatesTyped
    <3>2. \A c \in Caller : /\ (IF asleep[c] > 0 THEN asleep[c] - 1 ELSE asleep[c]) \in Int
                            /\ asleep[c] < 0 => ~(asleep[c] > 0)
      BY <3>1
    <3> QED BY <2>1, <3>2
  <2> QED BY <2>1, <2>2, <2>3, <2>4, <2>5, <2>6 DEF RatesTyped
<1>6. CASE UNCHANGED rateVars
  BY <1>6 DEF rateVars, histories, RatesTyped
<1> QED BY <1>1, <1>2, <1>3, <1>4, <1>5, <1>6 DEF RateNext

(***************************************************************************)
(* The bucket.                                                             *)
(***************************************************************************)
LEMMA BucketStep == RatesTyped /\ BucketInv /\ [RateNext]_rateVars => BucketInv'
<1> SUFFICES ASSUME RatesTyped, BucketInv, [RateNext]_rateVars, limiter = "bucket" PROVE BucketInv'
  <2>1. [RateNext]_rateVars => limiter' = limiter
    BY DEF RateNext, Acquire, Wakes, SlidingAllow, FixedAllow, RateTick, rateVars
  <2> QED BY <2>1 DEF BucketInv
<1> PICK m, r : m = BurstAtMost /\ r = Refilled
  OBVIOUS
<1>0. /\ Burst \in Nat /\ m \in Nat /\ Burst <= m /\ \A n \in Sizes : n \in Nat /\ n <= m
      /\ r \in 0..Burst /\ level \in Nat /\ tokens \in 0..Burst /\ age \in 0..Burst
      /\ asleep \in [Caller -> Int] /\ wanted \in [Caller -> Nat]
  BY RateAssumption, RefilledIs, BurstIs DEF RatesTyped
<1>1. /\ level <= m /\ (LockIsFree => level + r <= m)
      /\ \A c \in Caller : asleep[c] >= 0 =>
            wanted[c] <= m /\ (level - asleep[c]) + wanted[c] <= m
      /\ \A c, d \in Caller : asleep[c] >= 0 /\ asleep[d] >= 0 => c = d
  BY DEF BucketInv
<1>2. ASSUME level' <= m,
             LockIsFree' => level' + Refilled' <= m,
             \A c \in Caller : asleep'[c] >= 0 =>
                wanted'[c] <= m /\ (level' - asleep'[c]) + wanted'[c] <= m,
             \A c, d \in Caller : asleep'[c] >= 0 /\ asleep'[d] >= 0 => c = d
      PROVE  BucketInv'
  <2>1. m = BurstAtMost'
    BY DEF BurstAtMost
  <2> QED BY <1>2, <2>1 DEF BucketInv
<1>3. ASSUME NEW c \in Caller, NEW n \in Sizes, Acquire(c, n) PROVE BucketInv'
  <2>1. LockIsFree /\ age' = 0 /\ (\A d \in Caller : asleep[d] < 0) /\ level + r <= m
    BY <1>1, <1>3 DEF Acquire, LockIsFree
  <2>2. CASE r >= n
    <3>1. tokens' = r - n /\ level' = level + n /\ asleep' = asleep /\ wanted' = wanted
      BY <1>3, <2>2 DEF Acquire, Passing
    <3>2. Refilled' = r - n
      <4>1. r - n \in 0..Burst
        BY <1>0, <2>2
      <4>2. Min({Burst, (r - n) + 0}) = r - n
        BY <1>0, <4>1, FullBucket
      <4> QED BY <2>1, <3>1, <4>2 DEF Refilled
    <3>3. level' <= m /\ level' + Refilled' <= m
      BY <1>0, <2>1, <2>2, <3>1, <3>2
    <3>4. \A d \in Caller : ~(asleep'[d] >= 0)
      BY <1>0, <2>1, <3>1
    <3> QED BY <1>2, <3>3, <3>4
  <2>3. CASE ~(r >= n)
    <3>1. /\ asleep' = [asleep EXCEPT ![c] = n - r] /\ wanted' = [wanted EXCEPT ![c] = n]
          /\ level' = level
      BY <1>3, <2>3 DEF Acquire, Sleeps, histories
    <3>2. /\ asleep'[c] = n - r /\ wanted'[c] = n
          /\ \A d \in Caller : asleep'[d] >= 0 => d = c
      BY <1>0, <2>1, <3>1
    <3>3. ~LockIsFree'
      BY <1>0, <2>3, <3>2 DEF LockIsFree
    <3>4. n <= m /\ (level - (n - r)) + n <= m /\ level <= m
      BY <1>0, <1>1, <2>1
    <3> QED BY <1>2, <3>1, <3>2, <3>3, <3>4
  <2> QED BY <2>2, <2>3
<1>4. ASSUME NEW c \in Caller, Wakes(c) PROVE BucketInv'
  <2>1. /\ asleep[c] = 0 /\ asleep' = [asleep EXCEPT ![c] = -1] /\ wanted' = wanted
        /\ tokens' = 0 /\ age' = 0 /\ level' = level + wanted[c]
    BY <1>4 DEF Wakes, AgeAfterSleep, PassingLate, Passing
  <2>2. \A d \in Caller : ~(asleep'[d] >= 0)
    BY <1>0, <1>1, <2>1
  <2>3. Refilled' = 0
    <3>1. Min({Burst, 0 + 0}) = 0
      BY <1>0, FullBucket
    <3> QED BY <2>1, <3>1 DEF Refilled
  <2>4. wanted[c] \in Nat /\ (level - 0) + wanted[c] <= m
    BY <1>0, <1>1, <2>1
  <2>5. level' <= m /\ level' + Refilled' <= m
    BY <1>0, <2>1, <2>3, <2>4
  <2> QED BY <1>2, <2>2, <2>5
<1>5. CASE RateTick
  <2>1. /\ tokens' = tokens /\ wanted' = wanted /\ age' = Min({age + 1, Burst})
        /\ asleep' = [c \in Caller |-> IF asleep[c] > 0 THEN asleep[c] - 1 ELSE asleep[c]]
        /\ level' = Max({0, level - 1})
    BY <1>5 DEF RateTick
  <2>2. level' \in Nat /\ (level >= 1 => level' = level - 1) /\ (level < 1 => level' = 0)
    BY <1>0, <2>1, Lowered
  <2>3. Refilled' <= r + 1 /\ Refilled' <= Burst /\ Refilled' \in Int
    <3>1. Refilled' = Min({Burst, tokens + Min({age + 1, Burst})}) /\ r = Min({Burst, tokens + age})
      BY <2>1 DEF Refilled
    <3>2. /\ Min({Burst, tokens + Min({age + 1, Burst})}) <= r + 1
          /\ Min({Burst, tokens + Min({age + 1, Burst})}) <= Burst
      BY <1>0, <3>1, Refills
    <3>3. Min({age + 1, Burst}) \in 0..Burst
      BY <1>0, Refills
    <3>4. Min({Burst, tokens + Min({age + 1, Burst})}) \in 0..Burst
      BY <1>0, <3>3, Refills
    <3> QED BY <3>1, <3>2, <3>4
  <2>4. \A c \in Caller : /\ asleep[c] > 0 => asleep'[c] = asleep[c] - 1
                          /\ ~(asleep[c] > 0) => asleep'[c] = asleep[c]
    BY <1>0, <2>1
  <2>5. level' <= m
    BY <1>0, <1>1, <2>2
  <2>6. LockIsFree' => level' + Refilled' <= m
    <3>1. LockIsFree' => LockIsFree
      BY <1>0, <2>4 DEF LockIsFree
    <3>2. PICK v \in Int, k \in Nat, l \in Nat : v = Refilled' /\ k = level' /\ l = level
      BY <1>0, <2>2, <2>3
    <3>3. v <= r + 1 /\ v <= Burst /\ (l >= 1 => k = l - 1) /\ (l < 1 => k = 0)
      BY <2>2, <2>3, <3>2
    <3>4. l + r <= m => k + v <= m
      BY <1>0, <3>3
    <3> QED BY <1>1, <3>1, <3>2, <3>4
  <2>7. ASSUME NEW c \in Caller, asleep'[c] >= 0
        PROVE  asleep[c] >= 0 /\ wanted[c] <= m /\ (level' - asleep'[c]) + wanted[c] <= m
    <3>1. PICK a \in Int, u \in Nat : a = asleep[c] /\ u = wanted[c]
      BY <1>0
    <3>2. a >= 0
      BY <2>4, <2>7, <3>1
    <3>3. u <= m /\ (level - a) + u <= m
      BY <1>1, <3>1, <3>2
    <3>4. PICK b \in Nat : b = asleep'[c] /\ b = (IF a > 0 THEN a - 1 ELSE a)
      BY <2>4, <3>1, <3>2
    <3>5. PICK k \in Nat, l \in Nat : k = level' /\ l = level
      BY <1>0, <2>2
    <3>6. (l >= 1 => k = l - 1) /\ (l < 1 => k = 0) /\ (l - a) + u <= m
      BY <2>2, <3>3, <3>5
    <3>7. (k - b) + u <= m
      BY <1>0, <3>2, <3>3, <3>4, <3>6
    <3> QED BY <3>1, <3>2, <3>3, <3>4, <3>5, <3>7
  <2> QED BY <1>1, <1>2, <2>1, <2>5, <2>6, <2>7
<1>6. CASE UNCHANGED rateVars
  BY <1>6 DEF rateVars, histories, BucketInv, LockIsFree, Refilled, BurstAtMost
<1>7. ~SlidingAllow /\ ~FixedAllow
  BY DEF SlidingAllow, FixedAllow
<1> QED BY <1>3, <1>4, <1>5, <1>6, <1>7 DEF RateNext

(***************************************************************************)
(* The limiter of the crawler.                                             *)
(***************************************************************************)
\* A caller that does nothing while what may be granted at once does not grow.
LEMMA WaiterKept ==
    ASSUME RatesTyped, NEW c \in Caller, WaiterInv(c),
           asleep'[c] = asleep[c], wanted'[c] = wanted[c], late'[c] = late[c],
           age' \in Nat, age' <= age, Refilled' \in Nat, Refilled' <= Refilled
    PROVE  WaiterInv(c)'
<1> PICK t, a, l, g, r, h, q :
       /\ t = Token /\ a = asleep[c] /\ l = late[c] /\ g = age /\ r = Refilled
       /\ h = age' /\ q = Refilled'
  OBVIOUS
<1>1. /\ t \in Nat /\ a \in Int /\ l \in Nat /\ g \in Nat /\ r \in Nat /\ h \in Nat /\ q \in Nat
      /\ h <= g /\ q <= r
  BY RateAssumption, RefilledIs DEF RatesTyped
<1>2. /\ a <= t /\ (a >= 0 => wanted[c] = t /\ (l = 0 \/ l + g <= t + a))
      /\ (a < 0 => l <= t \/ l + r <= 2 * t)
  BY DEF WaiterInv
<1>3. /\ a >= 0 => l = 0 \/ l + h <= t + a
      /\ a < 0 => l <= t \/ l + q <= 2 * t
  BY <1>1, <1>2
<1> QED BY <1>2, <1>3 DEF WaiterInv

LEMMA DomainStep == RatesTyped /\ DomainInv /\ [RateNext]_rateVars => DomainInv'
<1> SUFFICES ASSUME RatesTyped, DomainInv, [RateNext]_rateVars, limiter = "domain" PROVE DomainInv'
  <2>1. [RateNext]_rateVars => limiter' = limiter
    BY DEF RateNext, Acquire, Wakes, SlidingAllow, FixedAllow, RateTick, rateVars
  <2> QED BY <2>1 DEF DomainInv
<1> PICK r, t : r = Refilled /\ t = Token
  OBVIOUS
<1>0. /\ Burst \in Nat /\ r \in 0..Burst /\ t \in Nat /\ t >= 1
      /\ level \in Nat /\ tokens \in 0..Burst /\ age \in 0..Burst
      /\ asleep \in [Caller -> Int] /\ wanted \in [Caller -> Nat] /\ late \in [Caller -> Nat]
  BY RateAssumption, RefilledIs DEF RatesTyped
<1>1. level + r <= Burst /\ \A c \in Caller : WaiterInv(c)
  BY DEF DomainInv
<1>2. ASSUME level' + Refilled' <= Burst, \A c \in Caller : WaiterInv(c)'
      PROVE  DomainInv'
  BY <1>2 DEF DomainInv
<1>3. ASSUME NEW c \in Caller, NEW n \in Sizes, Acquire(c, n) PROVE DomainInv'
  <2>1. n = t /\ asleep[c] < 0 /\ age' = 0
    BY <1>3 DEF Acquire
  <2>2. CASE r >= t
    <3>1. /\ tokens' = r - t /\ level' = level + t
          /\ asleep' = asleep /\ wanted' = wanted /\ late' = late
      BY <1>3, <2>1, <2>2 DEF Acquire, Passing
    <3>2. Refilled' = r - t /\ r - t \in Nat
      <4>1. r - t \in 0..Burst
        BY <1>0, <2>2
      <4>2. Min({Burst, (r - t) + 0}) = r - t
        BY <1>0, <4>1, FullBucket
      <4> QED BY <2>1, <3>1, <4>1, <4>2 DEF Refilled
    <3>3. level' + Refilled' <= Burst
      BY <1>0, <1>1, <3>1, <3>2
    <3>4. Refilled' <= Refilled /\ age' <= age /\ age' \in Nat
      BY <1>0, <2>1, <3>2
    <3>5. \A e \in Caller : WaiterInv(e)'
      BY <1>1, <3>1, <3>2, <3>4, WaiterKept
    <3> QED BY <1>2, <3>3, <3>5
  <2>3. CASE ~(r >= t)
    <3>1. /\ asleep' = [asleep EXCEPT ![c] = t - r] /\ wanted' = [wanted EXCEPT ![c] = t]
          /\ level' = level /\ late' = late /\ tokens' = r
      BY <1>3, <2>1, <2>3 DEF Acquire, Sleeps, histories
    <3>2. Refilled' = r
      <4>1. Min({Burst, r + 0}) = r
        BY <1>0, FullBucket
      <4> QED BY <2>1, <3>1, <4>1 DEF Refilled
    <3>3. ASSUME NEW e \in Caller PROVE WaiterInv(e)'
      <4>1. CASE e = c
        <5>1. asleep'[e] = t - r /\ wanted'[e] = t /\ late'[e] = late[e]
          BY <1>0, <3>1, <4>1
        <5>2. PICK l \in Nat : l = late[e]
          BY <1>0
        <5>3. l <= t \/ l + r <= 2 * t
          BY <1>1, <2>1, <4>1, <5>2 DEF WaiterInv
        <5>4. l + 0 <= t + (t - r) /\ t - r <= t /\ ~(t - r < 0)
          BY <1>0, <2>3, <5>3
        <5> QED BY <2>1, <5>1, <5>2, <5>4 DEF WaiterInv
      <4>2. CASE e # c
        <5>1. asleep'[e] = asleep[e] /\ wanted'[e] = wanted[e] /\ late'[e] = late[e]
          BY <1>0, <3>1, <4>2
        <5>2. Refilled' \in Nat /\ Refilled' <= Refilled /\ age' <= age /\ age' \in Nat
          BY <1>0, <2>1, <3>2
        <5> QED BY <1>1, <5>1, <5>2, WaiterKept
      <4> QED BY <4>1, <4>2
    <3>4. level' + Refilled' <= Burst
      BY <1>1, <3>1, <3>2
    <3> QED BY <1>2, <3>3, <3>4
  <2> QED BY <2>2, <2>3
<1>4. ASSUME NEW c \in Caller, Wakes(c) PROVE DomainInv'
  <2>1. /\ asleep[c] = 0 /\ asleep' = [asleep EXCEPT ![c] = -1] /\ wanted' = wanted
        /\ tokens' = 0 /\ age' = age /\ level' = level
        /\ late' = [late EXCEPT ![c] = late[c] + wanted[c]]
    BY <1>4 DEF Wakes, AgeAfterSleep, PassingLate
  <2>2. Refilled' <= r /\ Refilled' \in Nat /\ Refilled' <= age
    <3>1. Refilled' = Min({Burst, 0 + age}) /\ r = Min({Burst, tokens + age})
      BY <2>1 DEF Refilled
    <3>2. 0 + age = age /\ 0 \in 0..Burst /\ age \in Nat
      BY <1>0
    <3>3. Min({Burst, age}) <= Min({Burst, tokens + age})
      BY <1>0, Refills
    <3>4. Min({Burst, age}) \in {Burst, age} /\ Min({Burst, age}) <= age
      BY <1>0, <3>2, MinOfTwo, Zenon
    <3> QED BY <1>0, <3>1, <3>2, <3>3, <3>4
  <2>3. ASSUME NEW e \in Caller PROVE WaiterInv(e)'
    <3>1. CASE e = c
      <4>1. PICK l \in Nat, q \in Nat, g \in Nat : l = late[e] /\ q = Refilled' /\ g = age
        BY <1>0, <2>2
      <4>2. wanted[e] = t /\ (l = 0 \/ l + g <= t + 0) /\ q <= g
        BY <1>1, <2>1, <2>2, <3>1, <4>1 DEF WaiterInv
      <4>3. asleep'[e] = -1 /\ late'[e] = l + t
        BY <1>0, <2>1, <3>1, <4>1, <4>2
      <4>4. l + t <= t \/ (l + t) + q <= 2 * t
        BY <1>0, <4>1, <4>2
      <4>5. -1 <= t /\ ~(-1 >= 0)
        BY <1>0
      <4> QED BY <4>1, <4>3, <4>4, <4>5 DEF WaiterInv
    <3>2. CASE e # c
      <4>1. asleep'[e] = asleep[e] /\ wanted'[e] = wanted[e] /\ late'[e] = late[e]
        BY <1>0, <2>1, <3>2
      <4>2. Refilled' \in Nat /\ Refilled' <= Refilled /\ age' <= age /\ age' \in Nat
        BY <1>0, <2>1, <2>2
      <4> QED BY <1>1, <4>1, <4>2, WaiterKept
    <3> QED BY <3>1, <3>2
  <2>4. level' + Refilled' <= Burst
    <3>1. level + r <= Burst /\ level' = level /\ Refilled' <= r
      BY <1>1, <2>1, <2>2
    <3>2. PICK k \in Nat, m \in Nat : k = level /\ m = Refilled'
      BY <1>0, <2>2
    <3>3. k + r <= Burst /\ m <= r
      BY <3>1, <3>2
    <3>4. k + m <= Burst
      BY <1>0, <3>3
    <3> QED BY <3>1, <3>2, <3>4
  <2> QED BY <1>2, <2>3, <2>4
<1>5. CASE RateTick
  <2>1. /\ tokens' = tokens /\ wanted' = wanted /\ age' = Min({age + 1, Burst})
        /\ asleep' = [c \in Caller |-> IF asleep[c] > 0 THEN asleep[c] - 1 ELSE asleep[c]]
        /\ level' = Max({0, level - 1}) /\ late' = [c \in Caller |-> Max({0, late[c] - 2})]
    BY <1>5 DEF RateTick
  <2>2. PICK l \in Nat : l = level' /\ (level >= 1 => l = level - 1) /\ (level < 1 => l = 0)
    BY <1>0, <2>1, Lowered
  <2>3. PICK v \in Nat : v = Refilled' /\ v <= r + 1 /\ v <= Burst
    <3>1. Refilled' = Min({Burst, tokens + Min({age + 1, Burst})}) /\ r = Min({Burst, tokens + age})
      BY <2>1 DEF Refilled
    <3>2. /\ Min({Burst, tokens + Min({age + 1, Burst})}) <= r + 1
          /\ Min({Burst, tokens + Min({age + 1, Burst})}) <= Burst
      BY <1>0, <3>1, Refills
    <3>3. Min({age + 1, Burst}) \in 0..Burst
      BY <1>0, Refills
    <3>4. Min({Burst, tokens + Min({age + 1, Burst})}) \in 0..Burst
      BY <1>0, <3>3, Refills
    <3> QED BY <3>1, <3>2, <3>4
  <2>4. PICK h \in Nat : h = age' /\ h <= age + 1
    <3>1. age + 1 \in Nat /\ age \in Nat
      BY <1>0
    <3>2. Min({age + 1, Burst}) \in {age + 1, Burst} /\ Min({age + 1, Burst}) <= age + 1
      BY <1>0, <3>1, MinOfTwo, Zenon
    <3> QED BY <1>0, <2>1, <3>1, <3>2
  <2>5. ASSUME NEW c \in Caller PROVE WaiterInv(c)'
    <3>1. PICK a \in Int, m \in Nat, g \in Nat : a = asleep[c] /\ m = late[c] /\ g = age
      BY <1>0
    <3>2. /\ a <= t /\ (a >= 0 => wanted[c] = t /\ (m = 0 \/ m + g <= t + a))
          /\ (a < 0 => m <= t \/ m + r <= 2 * t)
      BY <1>1, <3>1 DEF WaiterInv
    <3>3. PICK b \in Int : b = asleep'[c] /\ b = IF a > 0 THEN a - 1 ELSE a
      BY <2>1, <3>1
    <3>4. PICK k \in Nat : k = late'[c] /\ (m >= 2 => k = m - 2) /\ (m < 2 => k = 0)
      BY <2>1, <3>1, Lowered
    <3>5. h <= g + 1
      BY <2>4, <3>1
    <3>6. /\ b <= t /\ (b >= 0 => a >= 0) /\ (b < 0 => a < 0)
          /\ b >= 0 => k = 0 \/ k + h <= t + b
      BY <1>0, <3>2, <3>3, <3>4, <3>5
    <3>7. b < 0 => k <= t \/ k + v <= 2 * t
      BY <1>0, <2>3, <3>2, <3>4, <3>6
    <3> QED BY <2>1, <2>3, <2>4, <3>1, <3>2, <3>3, <3>4, <3>6, <3>7 DEF WaiterInv
  <2>6. l + v <= Burst
    <3>1. PICK k \in Nat : k = level
      BY <1>0
    <3>2. k + r <= Burst
      BY <1>1, <3>1
    <3>3. (k >= 1 => l = k - 1) /\ (k < 1 => l = 0) /\ v <= r + 1 /\ v <= Burst
      BY <2>2, <2>3, <3>1
    <3> QED BY <1>0, <3>1, <3>2, <3>3
  <2> QED BY <1>2, <2>2, <2>3, <2>5, <2>6
<1>6. CASE UNCHANGED rateVars
  BY <1>6 DEF rateVars, histories, DomainInv, WaiterInv, Refilled
<1>7. ~SlidingAllow /\ ~FixedAllow
  BY DEF SlidingAllow, FixedAllow
<1> QED BY <1>3, <1>4, <1>5, <1>6, <1>7 DEF RateNext

(***************************************************************************)
(* The sliding window.                                                     *)
(***************************************************************************)
LEMMA LiveStampsAre ==
    ASSUME SlidingInv, limiter = "sliding"
    PROVE  /\ LiveStamps \in Seq(0..Window) /\ Len(LiveStamps) <= Limit
           /\ Counts(recent, LiveStamps, Window)
<1>1. PICK w, q, r : w = Window /\ q = stamps /\ r = recent
  OBVIOUS
<1>2. /\ w \in Nat \ {0} /\ q \in Seq(0..w) /\ Counts(r, q, w)
      /\ Len(q) <= Limit /\ Limit \in Nat
  BY <1>1, RateAssumption DEF SlidingInv
<1>3. PICK live : live = SubSeq(q, Cardinality({k \in DOMAIN q : q[k] >= w}) + 1, Len(q))
  OBVIOUS
<1>4. live \in Seq(0..w) /\ Len(live) = r[w] /\ Counts(r, live, w)
  BY <1>2, <1>3, Dropped, Zenon
<1>5. live = LiveStamps
  BY <1>1, <1>3, Zenon DEF LiveStamps, Popped
<1>6. Len(live) <= Limit
  <2>1. w \in 1..w /\ Len(q) \in Nat
    BY <1>2
  <2>2. r[w] \in 0..Len(q)
    BY <1>2, <2>1 DEF Counts
  <2> QED BY <1>2, <1>4, <2>1, <2>2
<1> QED BY <1>1, <1>4, <1>5, <1>6

LEMMA SlidingStep == RatesTyped /\ SlidingInv /\ [RateNext]_rateVars => SlidingInv'
<1> SUFFICES ASSUME RatesTyped, SlidingInv, [RateNext]_rateVars, limiter = "sliding" PROVE SlidingInv'
  <2>1. [RateNext]_rateVars => limiter' = limiter
    BY DEF RateNext, Acquire, Wakes, SlidingAllow, FixedAllow, RateTick, rateVars
  <2> QED BY <2>1 DEF SlidingInv
<1>0. Window \in Nat \ {0} /\ Limit \in Nat
  BY RateAssumption
<1>1. ASSUME NEW q, NEW r, stamps' = q, recent' = r,
             q \in Seq(0..Window), Len(q) <= Limit, Counts(r, q, Window)
      PROVE  SlidingInv'
  BY <1>1 DEF SlidingInv, Counts
<1>2. CASE SlidingAllow
  <2>1. PICK live, r : live = LiveStamps /\ r = recent
    OBVIOUS
  <2>2. live \in Seq(0..Window) /\ Len(live) <= Limit /\ Counts(r, live, Window)
    BY <2>1, LiveStampsAre
  <2>3. CASE Len(live) >= Limit
    <3>1. stamps' = live /\ recent' = r
      BY <1>2, <2>1, <2>3 DEF SlidingAllow, histories
    <3> QED BY <1>1, <2>2, <3>1
  <2>4. CASE ~(Len(live) >= Limit)
    <3>1. stamps' = Append(live, 0) /\ Granting
      BY <1>2, <2>1, <2>4 DEF SlidingAllow
    <3>2. PICK x : x = recent'
      OBVIOUS
    <3>3. \A i \in 1..Window : x[i] = r[i] + 1
      BY <2>1, <3>1, <3>2, RecentGrows
    <3>4. /\ Append(live, 0) \in Seq(0..Window) /\ Len(Append(live, 0)) = Len(live) + 1
          /\ Counts(x, Append(live, 0), Window)
      BY <1>0, <2>2, <3>3, Logged
    <3>5. Len(Append(live, 0)) <= Limit
      <4>1. Len(live) \in Nat
        BY <2>2
      <4> QED BY <1>0, <2>4, <3>4, <4>1
    <3> QED BY <1>1, <3>1, <3>2, <3>4, <3>5
  <2> QED BY <2>3, <2>4
<1>3. CASE RateTick
  <2>1. PICK w, q, p, r, x :
           /\ w = Window /\ q = stamps /\ p = [k \in DOMAIN q |-> Min({q[k] + 1, w})]
           /\ r = recent /\ x = <<0>> \o Front(r)
    OBVIOUS
  <2>2. stamps' = p /\ recent' = x
    BY <1>3, <2>1 DEF RateTick
  <2>3. /\ w \in Nat \ {0} /\ q \in Seq(0..w) /\ r \in Seq(Nat) /\ Len(r) = w
        /\ Counts(r, q, w) /\ Len(q) <= Limit
    BY <1>0, <2>1 DEF SlidingInv, RatesTyped
  <2>4. x[1] = 0 /\ \A i \in 1..w - 1 : x[i + 1] = r[i]
    BY <2>1, <2>3, Shifted
  <2>5. PICK n \in Nat : n = Len(q)
    BY <2>3
  <2>6. DOMAIN q = 1..n /\ \A k \in 1..n : q[k] \in 0..w
    BY <2>3, <2>5
  <2>7. p = [k \in 1..n |-> p[k]] /\ \A k \in 1..n : p[k] = Min({q[k] + 1, w})
    BY <2>1, <2>6
  <2>8. \A k \in 1..n : p[k] \in 0..w /\ p[k] <= q[k] + 1 /\ p[k] \in {q[k] + 1, w}
    BY <2>3, <2>6, <2>7, Older
  <2>9. p \in [1..n -> 0..w]
    BY <2>7, <2>8
  <2>10. p \in Seq(0..w) /\ Len(p) = n
    <3>1. PICK S : S = 0..w
      OBVIOUS
    <3>2. p \in [1..n -> S]
      BY <2>9, <3>1
    <3>3. p \in Seq(S) /\ Len(p) = n
      BY <3>2
    <3> QED BY <3>1, <3>3
  <2>11. Counts(x, p, w)
    <3>1. /\ w \in Nat \ {0} /\ q \in Seq(0..w) /\ Counts(r, q, w) /\ n = Len(q) /\ Len(p) = n
          /\ x[1] = 0 /\ \A i \in 1..w - 1 : x[i + 1] = r[i]
      BY <2>3, <2>4, <2>5, <2>10
    <3> QED BY <2>8, <3>1, Ticked
  <2> QED BY <1>1, <2>1, <2>2, <2>3, <2>5, <2>10, <2>11
<1>4. CASE UNCHANGED rateVars
  BY <1>4 DEF rateVars, histories, SlidingInv, Counts
<1>5. \A c \in Caller : ~Wakes(c) /\ \A n \in Sizes : ~Acquire(c, n)
  BY DEF RatesTyped, Wakes, Acquire
<1>6. ~FixedAllow
  BY DEF FixedAllow
<1> QED BY <1>2, <1>3, <1>4, <1>5, <1>6 DEF RateNext

(***************************************************************************)
(* The fixed window.                                                       *)
(***************************************************************************)
LEMMA FixedStep == RatesTyped /\ FixedInv /\ [RateNext]_rateVars => FixedInv'
<1> SUFFICES ASSUME RatesTyped, FixedInv, [RateNext]_rateVars, limiter = "fixed" PROVE FixedInv'
  <2>1. [RateNext]_rateVars => limiter' = limiter
    BY DEF RateNext, Acquire, Wakes, SlidingAllow, FixedAllow, RateTick, rateVars
  <2> QED BY <2>1 DEF FixedInv
<1>0. Window \in Nat \ {0} /\ Limit \in Nat
  BY RateAssumption
<1> PICK r, t : r = recent /\ t = clock
  OBVIOUS
<1>1. /\ t \in 0..Window - 1 /\ count \in 0..Limit + 1 /\ t + 1 \in 1..Window
      /\ \A i \in 1..Window : r[i] \in Nat
      /\ r[t + 1] = Admitted /\ r[t + 1] \in 0..Limit
      /\ \A i, j \in 1..Window : i <= j => r[i] <= r[j]
      /\ \A i \in t + 1..Window : r[i] <= r[t + 1] + Limit
  <2>1. t \in 0..Window - 1 /\ count \in 0..Limit + 1 /\ \A i \in 1..Window : r[i] \in Nat
    BY DEF RatesTyped
  <2>2. t + 1 \in 1..Window /\ Admitted \in 0..Limit
    BY <1>0, <2>1 DEF Admitted
  <2>3. /\ r[t + 1] = Admitted
        /\ \A i, j \in 1..Window : i <= j => r[i] <= r[j]
        /\ \A i \in t + 1..Window : r[i] <= r[t + 1] + Limit
    BY DEF FixedInv
  <2> QED BY <2>1, <2>2, <2>3
<1>2. ASSUME NEW x, NEW u, recent' = x, clock' = u,
             x[u + 1] = Admitted',
             \A i, j \in 1..Window : i <= j => x[i] <= x[j],
             \A i \in u + 1..Window : x[i] <= x[u + 1] + Limit
      PROVE  FixedInv'
  BY <1>2 DEF FixedInv
<1>3. CASE FixedAllow
  <2>1. count <= Limit /\ count' = count + 1 /\ clock' = t
    BY <1>3 DEF FixedAllow
  <2>2. CASE count' <= Limit
    <3>1. Granting
      BY <1>3, <2>2 DEF FixedAllow
    <3>2. PICK x : x = recent'
      OBVIOUS
    <3>3. \A i \in 1..Window : x[i] = r[i] + 1
      BY <3>1, <3>2, RecentGrows
    <3>4. x[t + 1] = Admitted'
      BY <1>1, <2>1, <2>2, <3>3 DEF Admitted
    <3>5. \A i, j \in 1..Window : i <= j => x[i] <= x[j]
      BY <1>1, <3>3
    <3>6. \A i \in t + 1..Window : x[i] <= x[t + 1] + Limit
      <4> TAKE i \in t + 1..Window
      <4>1. i \in 1..Window /\ r[i] \in Nat /\ r[t + 1] \in Nat /\ r[i] <= r[t + 1] + Limit
        BY <1>0, <1>1
      <4>2. x[i] = r[i] + 1 /\ x[t + 1] = r[t + 1] + 1
        BY <1>1, <3>3, <4>1
      <4> QED BY <1>0, <4>1, <4>2
    <3> QED BY <1>2, <2>1, <3>2, <3>4, <3>5, <3>6
  <2>3. CASE ~(count' <= Limit)
    <3>1. recent' = r
      BY <1>3, <2>3 DEF FixedAllow, histories
    <3>2. r[t + 1] = Admitted'
      BY <1>0, <1>1, <2>1, <2>3 DEF Admitted
    <3> QED BY <1>1, <1>2, <2>1, <3>1, <3>2
  <2> QED BY <2>2, <2>3
<1>4. CASE RateTick
  <2>1. PICK x : x = <<0>> \o Front(r) /\ recent' = x
    BY <1>4 DEF RateTick
  <2>2. x[1] = 0 /\ \A i \in 1..Window - 1 : x[i + 1] = r[i]
    BY <1>0, <2>1, Shifted DEF RatesTyped
  <2>3. ASSUME NEW i \in 1..Window PROVE i = 1 \/ (i - 1 \in 1..Window - 1 /\ x[i] = r[i - 1])
    <3>1. i # 1 => i - 1 \in 1..Window - 1 /\ (i - 1) + 1 = i
      BY <1>0
    <3> QED BY <2>2, <3>1
  <2>4. \A i, j \in 1..Window : i <= j => x[i] <= x[j]
    <3> SUFFICES ASSUME NEW i \in 1..Window, NEW j \in 1..Window, i <= j PROVE x[i] <= x[j]
      OBVIOUS
    <3>1. CASE i = 1
      <4>1. x[i] = 0 /\ x[j] \in Nat
        BY <1>0, <1>1, <2>2, <2>3, <3>1
      <4> QED BY <4>1
    <3>2. CASE i # 1
      <4>1. /\ j # 1 /\ i - 1 \in 1..Window /\ j - 1 \in 1..Window /\ i - 1 <= j - 1
            /\ x[i] = r[i - 1] /\ x[j] = r[j - 1]
        BY <1>0, <2>3, <3>2
      <4> QED BY <1>1, <4>1
    <3> QED BY <3>1, <3>2
  <2>5. CASE t + 1 < Window
    <3>1. clock' = t + 1 /\ count' = count
      BY <1>1, <1>4, <2>5 DEF RateTick
    <3>2. t + 1 \in 1..Window - 1
      BY <1>0, <1>1, <2>5
    <3>3. x[(t + 1) + 1] = Admitted'
      BY <1>1, <2>2, <3>1, <3>2 DEF Admitted
    <3>4. \A i \in (t + 1) + 1..Window : x[i] <= x[(t + 1) + 1] + Limit
      <4> TAKE i \in (t + 1) + 1..Window
      <4>1. i \in 1..Window /\ i # 1 /\ i - 1 \in t + 1..Window
        BY <1>0, <1>1
      <4>2. x[i] = r[i - 1] /\ x[(t + 1) + 1] = r[t + 1]
        BY <2>2, <2>3, <3>2, <4>1
      <4> QED BY <1>1, <4>1, <4>2
    <3> QED BY <1>2, <2>1, <2>4, <3>1, <3>3, <3>4
  <2>6. CASE ~(t + 1 < Window)
    <3>1. clock' = 0 /\ count' = 0
      BY <1>1, <1>4, <2>6 DEF RateTick
    <3>2. t + 1 = Window
      BY <1>0, <1>1, <2>6
    <3>3. x[0 + 1] = Admitted' /\ x[0 + 1] = 0
      BY <1>0, <2>2, <3>1 DEF Admitted
    <3>4. \A i \in 0 + 1..Window : x[i] <= x[0 + 1] + Limit
      <4> TAKE i \in 0 + 1..Window
      <4>1. i \in 1..Window
        OBVIOUS
      <4>2. CASE i = 1
        BY <1>0, <2>2, <4>2
      <4>3. CASE i # 1
        <5>1. i - 1 \in 1..Window /\ i - 1 <= t + 1 /\ x[i] = r[i - 1]
          BY <1>0, <2>3, <3>2, <4>1, <4>3
        <5>2. r[i - 1] <= r[t + 1] /\ r[i - 1] \in Nat
          BY <1>1, <5>1
        <5> QED BY <1>0, <1>1, <3>3, <5>1, <5>2
      <4> QED BY <4>2, <4>3
    <3> QED BY <1>2, <2>1, <2>4, <3>1, <3>3, <3>4
  <2> QED BY <2>5, <2>6
<1>5. CASE UNCHANGED rateVars
  BY <1>5 DEF rateVars, histories, FixedInv, Admitted
<1>6. \A c \in Caller : ~Wakes(c) /\ \A n \in Sizes : ~Acquire(c, n)
  BY DEF RatesTyped, Wakes, Acquire
<1>7. ~SlidingAllow
  BY DEF SlidingAllow
<1> QED BY <1>3, <1>4, <1>5, <1>6, <1>7 DEF RateNext

LEMMA RatesStart == RateInit => RatesTyped /\ BucketInv /\ DomainInv /\ SlidingInv /\ FixedInv
<1> SUFFICES ASSUME RateInit PROVE RatesTyped /\ BucketInv /\ DomainInv /\ SlidingInv /\ FixedInv
  OBVIOUS
<1>0. /\ Burst \in Nat /\ Limit \in Nat /\ Window \in Nat \ {0}
      /\ IsFiniteSet(Caller) /\ Cardinality(Caller) \in Nat
  BY RateAssumption, FS_CardinalityType
<1>1. /\ limiter \in {"bucket", "domain", "sliding", "fixed"}
      /\ tokens = Burst /\ age = 0 /\ clock = 0 /\ count = 0 /\ level = 0 /\ stamps = <<>>
      /\ asleep = [c \in Caller |-> -1] /\ wanted = [c \in Caller |-> 0]
      /\ recent = [i \in 1..Window |-> 0] /\ late = [c \in Caller |-> 0]
  BY DEF RateInit
<1>2. recent \in Seq(Nat) /\ Len(recent) = Window /\ \A i \in 1..Window : recent[i] = 0
  BY <1>0, <1>1
<1>3. RatesTyped
  BY <1>0, <1>1, <1>2 DEF RatesTyped
<1>4. Refilled = Burst
  BY <1>0, <1>1, FullBucket DEF Refilled
<1>5. BucketInv
  <2>1. \A c \in Caller : ~(asleep[c] >= 0)
    BY <1>1
  <2> QED BY <1>0, <1>1, <1>4, <2>1, BurstIs DEF BucketInv
<1>6. DomainInv
  <2>1. \A c \in Caller : asleep[c] = -1 /\ late[c] = 0
    BY <1>1
  <2>2. Token \in Nat /\ -1 <= Token /\ ~(-1 >= 0)
    BY RateAssumption
  <2> QED BY <1>0, <1>1, <1>4, <2>1, <2>2 DEF DomainInv, WaiterInv
<1>7. SlidingInv
  <2>1. stamps \in Seq(0..Window) /\ Len(stamps) = 0
    BY <1>1
  <2>2. Counts(recent, stamps, Window)
    BY <1>2, <2>1 DEF Counts
  <2> QED BY <1>0, <2>1, <2>2 DEF SlidingInv
<1>8. FixedInv
  BY <1>0, <1>1, <1>2 DEF FixedInv, Admitted
<1> QED BY <1>3, <1>5, <1>6, <1>7, <1>8

LEMMA RatesImplied == RatesTyped /\ BucketInv /\ DomainInv /\ SlidingInv /\ FixedInv => RatesHold
<1> SUFFICES ASSUME RatesTyped, BucketInv, DomainInv, SlidingInv, FixedInv PROVE RatesHold
  OBVIOUS
<1>0. /\ Burst \in Nat /\ Limit \in Nat /\ Window \in Nat \ {0} /\ Window \in 1..Window
      /\ level \in Nat /\ Refilled \in 0..Burst
  BY RateAssumption, RefilledIs DEF RatesTyped
<1>1. RateTypeOK
  <2>1. limiter = "bucket" => Cardinality({c \in Caller : asleep[c] >= 0}) <= 1
    <3> SUFFICES ASSUME limiter = "bucket" PROVE Cardinality({c \in Caller : asleep[c] >= 0}) <= 1
      OBVIOUS
    <3>1. CASE {c \in Caller : asleep[c] >= 0} = {}
      BY <3>1, FS_EmptySet
    <3>2. CASE \E c \in Caller : asleep[c] >= 0
      <4>1. PICK c \in Caller : asleep[c] >= 0
        BY <3>2
      <4>2. {d \in Caller : asleep[d] >= 0} = {c}
        BY <4>1 DEF BucketInv
      <4>3. Cardinality({c}) = 1
        BY FS_Singleton
      <4> QED BY <4>2, <4>3
    <3> QED BY <3>1, <3>2
  <2> QED BY <2>1 DEF RateTypeOK, RatesTyped
<1>2. BucketRateHolds
  BY DEF BucketInv, BucketRateHolds, BurstAtMost
<1>3. DomainRateIsBounded
  <2> SUFFICES ASSUME limiter = "domain"
               PROVE  level <= Burst /\ \A c \in Caller : late[c] <= 2 * Token
    BY DEF DomainRateIsBounded
  <2>1. level <= Burst
    BY <1>0 DEF DomainInv
  <2>2. ASSUME NEW c \in Caller PROVE late[c] <= 2 * Token
    <3>1. PICK a \in Int, l \in Nat, g \in Nat, r \in Nat, t \in Nat :
             a = asleep[c] /\ l = late[c] /\ g = age /\ r = Refilled /\ t = Token
      BY <1>0, RateAssumption DEF RatesTyped
    <3>2. /\ a <= t /\ (a >= 0 => l = 0 \/ l + g <= t + a)
          /\ (a < 0 => l <= t \/ l + r <= 2 * t)
      BY <3>1 DEF DomainInv, WaiterInv
    <3>3. l <= 2 * t
      BY <3>1, <3>2
    <3> QED BY <3>1, <3>3
  <2> QED BY <2>1, <2>2
<1>4. WindowsHold
  <2>1. limiter = "sliding" => recent[Window] <= Limit
    <3> SUFFICES ASSUME limiter = "sliding" PROVE recent[Window] <= Limit
      OBVIOUS
    <3>1. Len(stamps) \in Nat /\ Len(stamps) <= Limit /\ recent[Window] \in 0..Len(stamps)
      BY <1>0 DEF SlidingInv, Counts
    <3> QED BY <1>0, <3>1
  <2>2. limiter = "fixed" => recent[Window] <= 2 * Limit
    <3> SUFFICES ASSUME limiter = "fixed" PROVE recent[Window] <= 2 * Limit
      OBVIOUS
    <3>1. PICK a \in Nat, b \in Nat : a = recent[Window] /\ b = recent[clock + 1]
      BY <1>0 DEF RatesTyped
    <3>2. a <= b + Limit /\ b <= Limit
      <4>1. Window \in clock + 1..Window
        BY <1>0 DEF RatesTyped
      <4>2. Admitted <= Limit
        BY <1>0 DEF RatesTyped, Admitted
      <4> QED BY <3>1, <4>1, <4>2 DEF FixedInv
    <3> QED BY <1>0, <3>1, <3>2
  <2> QED BY <2>1, <2>2 DEF WindowsHold
<1> QED BY <1>1, <1>2, <1>3, <1>4 DEF RatesHold

(***************************************************************************)
(* Every limiter keeps the rate it can promise, for any callers, sizes,    *)
(* limits and fractions of a token: a bucket with a lock a burst and the   *)
(* rate, the crawler's the same for those it lets through at once and, for *)
(* each that waits, two tokens and twice the rate, a sliding window its    *)
(* limit, a fixed one twice that (acquire, allow).                         *)
(***************************************************************************)
THEOREM LimitersKeepRates == RateSpec => []RatesHold
<1>1. RatesTyped /\ BucketInv /\ DomainInv /\ SlidingInv /\ FixedInv /\ [RateNext]_rateVars =>
        (RatesTyped /\ BucketInv /\ DomainInv /\ SlidingInv /\ FixedInv)'
  BY TypedStep, BucketStep, DomainStep, SlidingStep, FixedStep
<1> QED BY <1>1, RatesStart, RatesImplied, PTL DEF RateSpec

(***************************************************************************)
(* Accounts, for any registrations and emails.  An email that was given to *)
(* an account is never free again, the account it stands for has got to    *)
(* the end of its registration or failed there, and it is still stored     *)
(* unless it was registered and then removed.  With the memory store       *)
(* nothing is between the two writes, so that an account and its email     *)
(* keep pointing at each other.                                            *)
(***************************************************************************)
Written == {"stored", "registered", "failed"}

StoresTyped == postgres \in BOOLEAN /\ email \in [Signup -> Email]
StoredHasEmail ==
    \A s \in Signup : at[s] \in {"stored", "registered"} => identity[email[s]] # NoAccount
KeptUnlessRemoved ==
    \A e \in Email : identity[e] # NoAccount =>
        identity[e] \in users \/ at[identity[e]] = "registered"
CommittedIsStored == \A s \in Signup : at[s] \in {"committed", "stored"} => s \in users
RefusedHasEmail ==
    \A s \in Signup : at[s] = "refused" => identity[email[s]] # NoAccount
MemoryAgrees ==
    ~postgres => \A s \in Signup :
        /\ at[s] \notin {"free", "committed"}
        /\ at[s] \in Written => identity[email[s]] = s

AccountsInv ==
    /\ StoresTyped /\ AccountsTypeOK /\ IdentityIsReal
    /\ StoredHasEmail /\ KeptUnlessRemoved /\ CommittedIsStored /\ RefusedHasEmail
    /\ MemoryAgrees

(***************************************************************************)
(* The inductive invariant says all that is promised of the stores.        *)
(***************************************************************************)
LEMMA AccountsInvImplies == AccountsInv => AccountsAreSound
<1> SUFFICES ASSUME AccountsInv PROVE AccountsAreSound
    OBVIOUS
<1> USE AccountAssumption DEF AccountsInv, StoresTyped, AccountsTypeOK
<1>1. RefusedOnlyIfTaken
    BY DEF RefusedOnlyIfTaken, RefusedHasEmail, KeptUnlessRemoved, LoggedIn
<1>2. RegisteredCanLogIn
  <2> SUFFICES ASSUME NEW s \in Signup, at[s] = "registered", s \in users
               PROVE  \/ LoggedIn(email[s]) = s
                      \/ postgres /\ \E other \in Signup \ {s} :
                            email[other] = email[s] /\ at[other] \in Written
      BY DEF RegisteredCanLogIn, Written
  <2>1. CASE identity[email[s]] = s
      BY <2>1 DEF LoggedIn
  <2>2. CASE identity[email[s]] # s
    <3>1. identity[email[s]] \in Signup \ {s}
        BY <2>2 DEF StoredHasEmail
    <3>2. email[identity[email[s]]] = email[s] /\ at[identity[email[s]]] \in Written
        BY <3>1 DEF IdentityIsReal, Written
    <3>3. postgres
        BY <2>2 DEF MemoryAgrees, Written
    <3> QED BY <3>1, <3>2, <3>3
  <2> QED BY <2>1, <2>2
<1>3. OneAccountPerEmail
  <2> SUFFICES ASSUME ~postgres, NEW s \in users, NEW t \in users, email[s] = email[t]
               PROVE  s = t
      BY DEF OneAccountPerEmail
  <2>1. at[s] \in Written /\ at[t] \in Written
      BY DEF MemoryAgrees, Written
  <2> QED BY <2>1 DEF MemoryAgrees
<1> QED BY <1>1, <1>2, <1>3 DEF AccountsAreSound

(***************************************************************************)
(* Initially no email is in use.                                           *)
(***************************************************************************)
LEMMA AccountsStart == AccountsInit => AccountsInv
BY DEF AccountsInit, AccountsInv, StoresTyped, AccountsTypeOK, IdentityIsReal, StoredHasEmail,
       KeptUnlessRemoved, CommittedIsStored, RefusedHasEmail, MemoryAgrees, Written

(***************************************************************************)
(* The steps of one registration, or the removal of its account.           *)
(***************************************************************************)
LEMMA SignupStep ==
    ASSUME AccountsInv, NEW s \in Signup,
           \/ RegisterInMemory(s) \/ CheckEmail(s) \/ CommitTenant(s) \/ WriteIdentity(s)
           \/ Registered(s) \/ SignupFails(s) \/ RemoveUser(s)
    PROVE  AccountsInv'
<1> USE AccountAssumption DEF AccountsInv, StoresTyped, AccountsTypeOK, IdentityIsReal, StoredHasEmail,
        KeptUnlessRemoved, CommittedIsStored, RefusedHasEmail, MemoryAgrees, Written, Now
<1>1. CASE RegisterInMemory(s)
    BY <1>1 DEF RegisterInMemory
<1>2. CASE CheckEmail(s)
    BY <1>2 DEF CheckEmail
<1>3. CASE CommitTenant(s)
    BY <1>3 DEF CommitTenant
<1>4. CASE WriteIdentity(s)
    BY <1>4 DEF WriteIdentity
<1>5. CASE Registered(s)
    BY <1>5 DEF Registered
<1>6. CASE SignupFails(s)
    BY <1>6 DEF SignupFails
<1>7. CASE RemoveUser(s)
    BY <1>7 DEF RemoveUser
<1> QED BY <1>1, <1>2, <1>3, <1>4, <1>5, <1>6, <1>7

(***************************************************************************)
(* Every step keeps the inductive invariant.                               *)
(***************************************************************************)
LEMMA AccountsStep == AccountsInv /\ [AccountsNext]_accountVars => AccountsInv'
<1> SUFFICES ASSUME AccountsInv, [AccountsNext]_accountVars PROVE AccountsInv'
    OBVIOUS
<1>1. CASE AccountsNext
    BY <1>1, SignupStep DEF AccountsNext
<1>2. CASE UNCHANGED accountVars
    BY <1>2 DEF accountVars, AccountsInv, StoresTyped, AccountsTypeOK, IdentityIsReal, StoredHasEmail,
                KeptUnlessRemoved, CommittedIsStored, RefusedHasEmail, MemoryAgrees
<1> QED BY <1>1, <1>2

(***************************************************************************)
(* However registrations race, fail half-way and are removed, an email     *)
(* leads to the account it was registered for, a refusal has its reason,   *)
(* and who registered can log in (register of both stores).                *)
(***************************************************************************)
THEOREM EmailsLeadToAccounts == AccountsSpec => []AccountsAreSound
<1> QED BY AccountsStart, AccountsStep, AccountsInvImplies, PTL DEF AccountsSpec

(***************************************************************************)
(* The executor.  Its rollback points are ids in the order of their time,  *)
(* each once.  Behind the point of an action are those of newer ones only. *)
(***************************************************************************)
OnlyNewerBehind(h, b, newest) ==
    \E p \in 1..Len(h) : h[p] = b /\ \A i \in 1..Len(h) : i > p => h[i] \in newest

\* Points keep their order while one more gets old.
KeepsOrder(h, r, a) ==
    \A b, newest : OnlyNewerBehind(h, b, newest) => OnlyNewerBehind(r, b, newest \cup {a})

\* A set of numbers has a smallest one.
LEMMA FirstExists ==
    ASSUME NEW S \in SUBSET Nat, S # {}
    PROVE  \E i \in S : \A j \in S : i <= j
<1>1. PICK i \in S : \A j \in S : ~ (<<j, i>> \in OpToRel(<, Nat))
  BY NatLessThanWellFounded, WFMin
<1>2. \A j \in S : ~ (j < i)
  BY <1>1 DEF OpToRel
<1> QED BY <1>2

\* A sequence without the entry at k.
IsWithout(t, q, k) ==
    /\ Len(t) = Len(q) - 1
    /\ \A i \in 1..Len(q) - 1 : t[i] = IF i < k THEN q[i] ELSE q[i + 1]

LEMMA WithoutOne ==
    ASSUME NEW S, NEW q \in Seq(S), NEW k \in 1..Len(q), NEW r, r = RemoveAt(q, k)
    PROVE  r \in Seq(S) /\ IsWithout(r, q, k)
<1> PICK n \in Nat : n = Len(q)
  OBVIOUS
<1> PICK before, rest : before = SubSeq(q, 1, k - 1) /\ rest = SubSeq(q, k + 1, n)
  OBVIOUS
<1>0. k \in Nat /\ 1 <= k /\ k <= n /\ k - 1 \in Nat
  OBVIOUS
<1>1. before \in Seq(S) /\ Len(before) = k - 1 /\ \A i \in 1..k - 1 : before[i] = q[i]
  <2>1. \A i \in 1..k - 1 : q[i] \in S
    BY <1>0, ElementOfSeq
  <2>2. /\ SubSeq(q, 1, k - 1) \in Seq(S)
        /\ Len(SubSeq(q, 1, k - 1)) = IF 1 <= k - 1 THEN (k - 1) - 1 + 1 ELSE 0
        /\ \A i \in 1..(k - 1) - 1 + 1 : SubSeq(q, 1, k - 1)[i] = q[1 + i - 1]
    BY <1>0, <2>1, SubSeqProperties
  <2>3. Len(SubSeq(q, 1, k - 1)) = k - 1
    BY <1>0, <2>2
  <2>4. \A i \in 1..k - 1 : SubSeq(q, 1, k - 1)[i] = q[i]
    <3> TAKE i \in 1..k - 1
    <3>1. i \in 1..(k - 1) - 1 + 1 /\ 1 + i - 1 = i
      BY <1>0
    <3> QED BY <2>2, <3>1
  <2> QED BY <2>2, <2>3, <2>4
<1>2. rest \in Seq(S) /\ Len(rest) = n - k /\ \A i \in 1..n - k : rest[i] = q[k + i]
  <2>1. k \in 0..n
    BY <1>0
  <2>2. /\ SubSeq(q, k + 1, n) \in Seq(S)
        /\ Len(SubSeq(q, k + 1, n)) = n - k
        /\ \A i \in 1..n - k : SubSeq(q, k + 1, n)[i] = q[k + i]
    BY <2>1, RestOf, SMTT(30)
  <2> QED BY <2>2
<1>3. r = before \o rest
  BY DEF RemoveAt
<1>4. /\ r \in Seq(S) /\ Len(r) = (k - 1) + (n - k)
      /\ \A i \in 1..(k - 1) + (n - k) : r[i] = IF i <= k - 1 THEN before[i] ELSE rest[i - (k - 1)]
  <2>0. before \in Seq(S) /\ rest \in Seq(S)
    BY <1>1, <1>2
  <2>1. /\ before \o rest \in Seq(S)
        /\ Len(before \o rest) = Len(before) + Len(rest)
        /\ \A i \in 1..Len(before) + Len(rest) :
              (before \o rest)[i] = IF i <= Len(before) THEN before[i] ELSE rest[i - Len(before)]
    BY <2>0, ConcatProperties, Zenon
  <2>2. Len(before) = k - 1 /\ Len(rest) = n - k
    BY <1>1, <1>2
  <2>3. /\ r \in Seq(S) /\ Len(r) = Len(before) + Len(rest)
        /\ \A i \in 1..Len(before) + Len(rest) :
              r[i] = IF i <= Len(before) THEN before[i] ELSE rest[i - Len(before)]
    BY <1>3, <2>1, Zenon
  <2> QED BY <2>2, <2>3, Zenon
<1>5. \A i \in 1..n - 1 : r[i] = IF i < k THEN q[i] ELSE q[i + 1]
  <2> TAKE i \in 1..n - 1
  <2>1. i \in 1..(k - 1) + (n - k)
    BY <1>0
  <2>2. CASE i < k
    BY <1>0, <1>1, <1>4, <2>1, <2>2
  <2>3. CASE ~(i < k)
    <3>1. i - (k - 1) \in 1..n - k /\ k + (i - (k - 1)) = i + 1 /\ ~(i <= k - 1)
      BY <1>0, <2>3
    <3> QED BY <1>2, <1>4, <2>1, <2>3, <3>1
  <2> QED BY <2>2, <2>3
<1>6. Len(r) = n - 1
  BY <1>0, <1>4
<1> QED BY <1>4, <1>5, <1>6 DEF IsWithout

LEMMA RemovedIs ==
    ASSUME NEW S, NEW q \in Seq(S), NEW t
    PROVE  \/ RemoveFirst(q, t) = q /\ \A i \in 1..Len(q) : q[i] # t
           \/ \E k \in 1..Len(q) : q[k] = t /\ RemoveFirst(q, t) = RemoveAt(q, k)
<1>1. CASE ~\E i \in 1..Len(q) : q[i] = t
  BY <1>1 DEF RemoveFirst
<1>2. CASE \E i \in 1..Len(q) : q[i] = t
  <2> DEFINE I == {i \in 1..Len(q) : q[i] = t}
  <2>1. I \in SUBSET Nat /\ I # {}
    BY <1>2
  <2>2. Min(I) \in I
    BY <2>1, FirstExists DEF Min
  <2>3. RemoveFirst(q, t) = RemoveAt(q, Min(I))
    BY <1>2, <2>1 DEF RemoveFirst, SelectInSeq
  <2> QED BY <2>2, <2>3
<1> QED BY <1>1, <1>2

\* The other points keep their order.
Renewed(h, r, a) ==
    /\ r \in Seq(Action) /\ Len(r) <= Len(h) + 1 /\ Len(r) >= 1 /\ r[Len(r)] = a
    /\ IsInjective(r)
    /\ \A i \in 1..Len(r) : r[i] = a \/ \E j \in 1..Len(h) : r[i] = h[j]
    /\ KeepsOrder(h, r, a)

LEMMA PointMoved ==
    ASSUME NEW h \in Seq(Action), IsInjective(h), NEW a \in Action
    PROVE  Renewed(h, Append(RemoveFirst(h, a), a), a)
<1> PICK s : s = RemoveFirst(h, a)
  OBVIOUS
<1> PICK r : r = Append(s, a)
  OBVIOUS
<1> PICK n \in Nat : n = Len(h)
  OBVIOUS
<1>0. DOMAIN h = 1..n /\ \A i, j \in 1..n : h[i] = h[j] => i = j
  BY DEF IsInjective
<1> DEFINE Kept == \A b, newest : b # a /\ OnlyNewerBehind(h, b, newest) => OnlyNewerBehind(s, b, newest)
<1>1. PICK m \in Nat : /\ s \in Seq(Action) /\ Len(s) = m /\ m <= n
                       /\ \A i \in 1..m : s[i] # a /\ \E j \in 1..n : s[i] = h[j]
                       /\ \A i, j \in 1..m : s[i] = s[j] => i = j
                       /\ Kept
  <2>1. CASE s = h /\ \A i \in 1..n : h[i] # a
    <3>1. Kept
      BY <2>1 DEF Kept
    <3> HIDE DEF Kept
    <3> QED BY <1>0, <2>1, <3>1
  <2>2. CASE \E k \in 1..n : h[k] = a /\ s = RemoveAt(h, k)
    <3>1. PICK k \in 1..n : h[k] = a /\ s = RemoveAt(h, k)
      BY <2>2
    <3>2. /\ s \in Seq(Action) /\ Len(s) = n - 1
          /\ \A i \in 1..n - 1 : s[i] = IF i < k THEN h[i] ELSE h[i + 1]
      <4>1. k \in 1..Len(h) /\ s = RemoveAt(h, k)
        BY <3>1
      <4>2. s \in Seq(Action) /\ IsWithout(s, h, k)
        BY <4>1, WithoutOne
      <4> QED BY <4>2 DEF IsWithout
    <3>3. PICK m \in Nat : m = n - 1 /\ m <= n
      OBVIOUS
    <3>4. ASSUME NEW i \in 1..m
          PROVE  \E j \in 1..n : j # k /\ s[i] = h[j] /\ j = IF i < k THEN i ELSE i + 1
      BY <3>2, <3>3
    <3>5. \A i \in 1..m : s[i] # a /\ \E j \in 1..n : s[i] = h[j]
      BY <1>0, <3>1, <3>4
    <3>6. \A i, j \in 1..m : s[i] = s[j] => i = j
      <4> SUFFICES ASSUME NEW i \in 1..m, NEW j \in 1..m, s[i] = s[j] PROVE i = j
        OBVIOUS
      <4>1. PICK x \in 1..n : s[i] = h[x] /\ x = IF i < k THEN i ELSE i + 1
        BY <3>4
      <4>2. PICK y \in 1..n : s[j] = h[y] /\ y = IF j < k THEN j ELSE j + 1
        BY <3>4
      <4>3. h[x] = h[y]
        BY <4>1, <4>2
      <4>4. x = y
        BY <1>0, <4>3
      <4> QED BY <4>1, <4>2, <4>4
    <3>7. ASSUME NEW b, NEW newest, b # a, OnlyNewerBehind(h, b, newest) PROVE OnlyNewerBehind(s, b, newest)
      <4>1. PICK p \in 1..n : h[p] = b /\ \A i \in 1..n : i > p => h[i] \in newest
        BY <3>7 DEF OnlyNewerBehind
      <4>2. p # k
        BY <3>1, <3>7, <4>1
      <4>3. PICK x \in 1..m : x = IF p < k THEN p ELSE p - 1
        BY <3>3, <4>2
      <4>4. s[x] = b
        <5>1. PICK j \in 1..n : s[x] = h[j] /\ j = IF x < k THEN x ELSE x + 1
          BY <3>4
        <5>2. j = p
          BY <4>2, <4>3, <5>1
        <5> QED BY <4>1, <5>1, <5>2
      <4>5. ASSUME NEW i \in 1..m, i > x PROVE s[i] \in newest
        <5>1. PICK j \in 1..n : s[i] = h[j] /\ j = IF i < k THEN i ELSE i + 1
          BY <3>4
        <5>2. j > p
          BY <4>2, <4>3, <4>5, <5>1
        <5> QED BY <4>1, <5>1, <5>2
      <4> QED BY <3>2, <3>3, <4>4, <4>5 DEF OnlyNewerBehind
    <3>8. Kept
      BY <3>7 DEF Kept
    <3> HIDE DEF Kept
    <3> QED BY <3>2, <3>3, <3>5, <3>6, <3>8
  <2>3. \/ RemoveFirst(h, a) = h /\ \A i \in 1..Len(h) : h[i] # a
        \/ \E k \in 1..Len(h) : h[k] = a /\ RemoveFirst(h, a) = RemoveAt(h, k)
    BY RemovedIs
  <2> HIDE DEF Kept
  <2> QED BY <2>1, <2>2, <2>3
<1>2. /\ r \in Seq(Action) /\ Len(r) = m + 1 /\ r[m + 1] = a
      /\ \A i \in 1..m : r[i] = s[i]
  BY <1>1, AppendProperties
<1>3. \A i \in 1..m + 1 : r[i] = a \/ \E j \in 1..n : r[i] = h[j]
  <2> TAKE i \in 1..m + 1
  <2>1. i = m + 1 \/ i \in 1..m
    OBVIOUS
  <2> QED BY <1>1, <1>2, <2>1
<1>4. IsInjective(r)
  <2> SUFFICES ASSUME NEW i \in 1..m + 1, NEW j \in 1..m + 1, r[i] = r[j] PROVE i = j
    BY <1>2 DEF IsInjective
  <2>1. (i = m + 1 \/ i \in 1..m) /\ (j = m + 1 \/ j \in 1..m)
    OBVIOUS
  <2> QED BY <1>1, <1>2, <2>1
<1>5. ASSUME NEW b, NEW newest, OnlyNewerBehind(h, b, newest) PROVE OnlyNewerBehind(r, b, newest \cup {a})
  <2>1. CASE b = a
    <3>1. m + 1 \in 1..m + 1 /\ \A i \in 1..m + 1 : ~(i > m + 1)
      OBVIOUS
    <3> QED BY <1>2, <2>1, <3>1 DEF OnlyNewerBehind
  <2>2. CASE b # a
    <3>1. OnlyNewerBehind(s, b, newest)
      BY <1>1, <1>5, <2>2
    <3>2. PICK p \in 1..m : s[p] = b /\ \A i \in 1..m : i > p => s[i] \in newest
      BY <1>1, <3>1 DEF OnlyNewerBehind
    <3>3. p \in 1..m + 1 /\ r[p] = b
      BY <1>2, <3>2
    <3>4. ASSUME NEW i \in 1..m + 1, i > p PROVE r[i] \in newest \cup {a}
      <4>1. i = m + 1 \/ i \in 1..m
        OBVIOUS
      <4> QED BY <1>2, <3>2, <3>4, <4>1
    <3> QED BY <1>2, <3>3, <3>4 DEF OnlyNewerBehind
  <2> QED BY <2>1, <2>2
<1>6. KeepsOrder(h, r, a)
  BY <1>5 DEF KeepsOrder
<1> HIDE DEF Kept
<1>7. Len(r) <= n + 1 /\ Len(r) >= 1 /\ r[Len(r)] = a
  BY <1>1, <1>2
<1>8. Renewed(h, r, a)
  BY <1>2, <1>3, <1>4, <1>6, <1>7 DEF Renewed
<1>9. r = Append(RemoveFirst(h, a), a)
  OBVIOUS
<1> QED BY <1>8, <1>9, Zenon

(***************************************************************************)
(* create_rollback_point: the new point is the last, and the others keep   *)
(* their order; one goes only when as many are newer.                      *)
(***************************************************************************)
StaysOrGrows(h, r, a) ==
    \A b, newest :
        OnlyNewerBehind(h, b, newest) /\ IsFiniteSet(newest) =>
            \/ OnlyNewerBehind(r, b, newest \cup {a})
            \/ Cardinality((newest \cup {a}) \ {b}) >= MaxHistory

StaysBehind(s, r) ==
    \A b, newest : OnlyNewerBehind(s, b, newest) /\ IsFiniteSet(newest) =>
        OnlyNewerBehind(r, b, newest) \/ Cardinality(newest \ {b}) >= MaxHistory

Points(r) == r \in Seq(Action) /\ IsInjective(r) /\ Len(r) <= MaxHistory

Untrimmed(s, a, H) ==
    /\ s \in Seq(Action) /\ Len(s) <= MaxHistory + 1 /\ Len(s) >= 1 /\ s[Len(s)] = a
    /\ \A i, j \in 1..Len(s) : s[i] = s[j] => i = j
    /\ \A i \in 1..Len(s) : s[i] = a \/ s[i] \in H

WellTrimmed(s, r, a, H) ==
    /\ Points(r)
    /\ \A i \in 1..Len(r) : r[i] = a \/ r[i] \in H
    /\ Len(r) >= 1 /\ r[Len(r)] = a
    /\ StaysBehind(s, r)

LEMMA TrimmedIs ==
    ASSUME NEW s, NEW a \in Action, NEW H, Untrimmed(s, a, H)
    PROVE  WellTrimmed(s, Trimmed(s), a, H)
<1> PICK r : r = Trimmed(s)
  OBVIOUS
<1>a. /\ s \in Seq(Action)
      /\ \A i, j \in 1..Len(s) : s[i] = s[j] => i = j
      /\ \A i \in 1..Len(s) : s[i] = a \/ s[i] \in H
      /\ Len(s) <= MaxHistory + 1 /\ Len(s) >= 1 /\ s[Len(s)] = a
  BY DEF Untrimmed
<1> PICK m \in Nat : m = Len(s)
  BY <1>a
<1>b. /\ s \in Seq(Action)
      /\ \A i, j \in 1..m : s[i] = s[j] => i = j
      /\ \A i \in 1..m : s[i] = a \/ s[i] \in H
      /\ m <= MaxHistory + 1 /\ m >= 1 /\ s[m] = a
  BY <1>a
<1> USE <1>b
<1> SUFFICES WellTrimmed(s, r, a, H)
  OBVIOUS
<1>0. MaxHistory \in Nat \ {0}
  BY ExecutorAssumption
<1>2. CASE m <= MaxHistory
  <2>1. r = s
    BY <1>0, <1>2 DEF Trimmed
  <2>2. IsInjective(s) /\ m \in 1..m
    BY DEF IsInjective
  <2>3. StaysBehind(s, r)
    BY <2>1 DEF StaysBehind
  <2> QED BY <1>2, <2>1, <2>2, <2>3 DEF Points, WellTrimmed
<1>3. CASE m = MaxHistory + 1
  <2> PICK w \in Nat \ {0} : w = MaxHistory
    BY <1>0
  <2>1. r = Tail(s)
    BY <1>3 DEF Trimmed
  <2>2. r \in Seq(Action) /\ Len(r) = w /\ \A i \in 1..w : r[i] = s[i + 1] /\ i + 1 \in 1..m
    <3>1. m = w + 1 /\ m # 0
      BY <1>3
    <3>2. s # <<>>
      BY <3>1, EmptySeq, Zenon
    <3>3. /\ Tail(s) \in Seq(Action) /\ Len(Tail(s)) = Len(s) - 1
          /\ \A i \in 1..Len(Tail(s)) : Tail(s)[i] = s[i + 1]
      BY <3>2, HeadTailProperties, Zenon
    <3>4. Len(s) - 1 = w /\ \A i \in 1..w : i + 1 \in 1..m
      BY <3>1
    <3> QED BY <2>1, <3>3, <3>4
  <2>3. IsInjective(r)
    <3> SUFFICES ASSUME NEW i \in 1..w, NEW j \in 1..w, r[i] = r[j] PROVE i = j
      BY <2>2 DEF IsInjective
    <3>1. i + 1 \in 1..m /\ j + 1 \in 1..m /\ s[i + 1] = s[j + 1]
      BY <2>2
    <3>2. i + 1 = j + 1
      BY <3>1
    <3> QED BY <3>2
  <2>4. \A i \in 1..w : r[i] = a \/ r[i] \in H
    BY <2>2
  <2>5. Len(r) >= 1 /\ r[Len(r)] = a
    <3>1. w \in 1..w /\ w + 1 = m
      BY <1>3
    <3>2. r[w] = s[m]
      BY <2>2, <3>1
    <3> QED BY <2>2, <3>2
  <2>6. ASSUME NEW b, NEW newest, OnlyNewerBehind(s, b, newest), IsFiniteSet(newest)
        PROVE  OnlyNewerBehind(r, b, newest) \/ Cardinality(newest \ {b}) >= w
    <3>1. PICK p \in 1..m : s[p] = b /\ \A i \in 1..m : i > p => s[i] \in newest
      BY <2>6 DEF OnlyNewerBehind
    <3>2. CASE p > 1
      <4>1. PICK x \in 1..w : p = x + 1
        <5>1. p - 1 \in 1..w /\ p = (p - 1) + 1
          BY <1>3, <3>2
        <5> QED BY <5>1
      <4>2. r[x] = b
        BY <2>2, <3>1, <4>1
      <4>3. ASSUME NEW i \in 1..w, i > x PROVE r[i] \in newest
        <5>1. i + 1 \in 1..m /\ r[i] = s[i + 1]
          BY <2>2
        <5>2. i + 1 > p
          BY <4>1, <4>3
        <5> QED BY <3>1, <5>1, <5>2
      <4> QED BY <2>2, <4>2, <4>3 DEF OnlyNewerBehind
    <3>3. CASE p = 1
      <4>1. \A i \in 1..w : r[i] \in newest \ {b}
        <5> TAKE i \in 1..w
        <5>1. i + 1 \in 1..m /\ i + 1 > 1 /\ i + 1 # 1 /\ r[i] = s[i + 1] /\ 1 \in 1..m
          BY <2>2
        <5>2. s[i + 1] # s[1]
          BY <5>1
        <5>3. s[i + 1] \in newest
          BY <3>1, <3>3, <5>1
        <5> QED BY <3>1, <3>3, <5>1, <5>2, <5>3
      <4>2. PICK T : T = newest \ {b}
        OBVIOUS
      <4>3. IsFiniteSet(T) /\ Cardinality(T) \in Nat
        BY <2>6, <4>2, FS_RemoveElement, FS_CardinalityType
      <4>4. r \in Injection(1..w, T)
        <5>1. r = [i \in 1..w |-> r[i]]
          BY <2>2
        <5>2. r \in [1..w -> T]
          BY <4>1, <4>2, <5>1
        <5>3. DOMAIN r = 1..w
          BY <5>2
        <5> QED BY <2>3, <5>2, <5>3 DEF Injection, IsInjective
      <4>5. Cardinality(1..w) <= Cardinality(T)
        BY <4>3, <4>4, FS_Injection
      <4>6. Cardinality(1..w) = w
        BY FS_Interval
      <4> QED BY <4>2, <4>3, <4>5, <4>6
    <3> QED BY <3>1, <3>2, <3>3
  <2>7. Points(r)
    BY <2>2, <2>3 DEF Points, WellTrimmed
  <2>8. StaysBehind(s, r)
    BY <2>6 DEF StaysBehind
  <2> QED BY <2>2, <2>4, <2>5, <2>7, <2>8 DEF WellTrimmed
<1> QED BY <1>0, <1>2, <1>3

LEMMA PointedIs ==
    ASSUME NEW h, Points(h), NEW a \in Action, NEW r, r = Pointed(h, a)
    PROVE  /\ Points(r) /\ Len(r) >= 1 /\ r[Len(r)] = a
           /\ \A i \in 1..Len(r) : r[i] = a \/ r[i] \in ToSet(h)
           /\ StaysOrGrows(h, r, a)
<1>0. MaxHistory \in Nat \ {0} /\ h \in Seq(Action) /\ IsInjective(h)
      /\ Len(h) \in Nat /\ Len(h) <= MaxHistory
  BY ExecutorAssumption DEF Points
<1> PICK s : s = Append(RemoveFirst(h, a), a)
  OBVIOUS
<1>1. Renewed(h, s, a)
  BY <1>0, PointMoved, Zenon
<1>2. /\ s \in Seq(Action) /\ Len(s) <= Len(h) + 1 /\ Len(s) >= 1 /\ s[Len(s)] = a
      /\ IsInjective(s)
      /\ \A i \in 1..Len(s) : s[i] = a \/ \E j \in 1..Len(h) : s[i] = h[j]
      /\ KeepsOrder(h, s, a)
  BY <1>1 DEF Renewed
<1>3. PICK m \in Nat : m = Len(s) /\ DOMAIN s = 1..m
  BY <1>2
<1>4. \A i, j \in 1..m : s[i] = s[j] => i = j
  BY <1>2, <1>3 DEF IsInjective
<1>5. PICK H : H = ToSet(h)
  OBVIOUS
<1>7. \A i \in 1..m : s[i] = a \/ s[i] \in H
  <2>1. \A j \in 1..Len(h) : h[j] \in H
    BY <1>0, <1>5 DEF ToSet
  <2> QED BY <1>2, <1>3, <2>1
<1>8. m <= MaxHistory + 1 /\ m >= 1 /\ s[m] = a
  BY <1>0, <1>2, <1>3
<1>9. r = Trimmed(s)
  BY DEF Pointed
<1>11. Untrimmed(s, a, H)
  BY <1>2, <1>3, <1>4, <1>7, <1>8 DEF Untrimmed
<1>12. WellTrimmed(s, r, a, H)
  BY <1>9, <1>11, TrimmedIs, Zenon
<1>10. /\ Points(r)
       /\ \A i \in 1..Len(r) : r[i] = a \/ r[i] \in H
       /\ Len(r) >= 1 /\ r[Len(r)] = a
       /\ StaysBehind(s, r)
  BY <1>12 DEF WellTrimmed
<1>6. StaysOrGrows(h, r, a)
  <2> SUFFICES ASSUME NEW b, NEW newest, OnlyNewerBehind(h, b, newest), IsFiniteSet(newest)
               PROVE  \/ OnlyNewerBehind(r, b, newest \cup {a})
                      \/ Cardinality((newest \cup {a}) \ {b}) >= MaxHistory
    BY DEF StaysOrGrows
  <2>1. OnlyNewerBehind(s, b, newest \cup {a})
    BY <1>2 DEF KeepsOrder
  <2>2. IsFiniteSet(newest \cup {a})
    BY FS_AddElement
  <2> QED BY <1>10, <2>1, <2>2 DEF StaysBehind
<1> QED BY <1>5, <1>6, <1>10

(***************************************************************************)
(* What holds of the executor.  A handler of an email awaits one call.     *)
(* Behind the point of an action in progress are points of actions that    *)
(* began after it, or so many began that it was pushed out.                *)
(***************************************************************************)
ExecutorState == {"received", "validating", "executing", "done", "failed"}

ExecutorTyped ==
    /\ clients \in SUBSET Client /\ executorState \in ExecutorState
    /\ executing \in [Execution -> Action \cup {NoAction}]
    /\ callsLeft \in [Execution -> Nat]
    /\ \A c \in Execution : callsLeft[c] > 0 <=> executing[c] # NoAction
    /\ \A c \in Execution : executing[c] \in Action /\ KindOf[executing[c]] = "email" => callsLeft[c] = 1
    /\ log \in [Action -> [Status -> Nat]]
    /\ delivered \in [Action -> Nat]
    /\ newer \in [Execution -> SUBSET Action]

EmailsLogged == \A a \in Action : KindOf[a] = "email" =>
    log[a]["success"] + log[a]["rolled_back"] <= delivered[a]
    /\ delivered[a] <= log[a]["success"] + log[a]["rolled_back"] + log[a]["failed"]

PointTracked(c) ==
    \/ OnlyNewerBehind(history, executing[c], newer[c])
    \/ Cardinality(newer[c] \ {executing[c]}) >= MaxHistory

PointsTracked ==
    \A c \in Execution :
        /\ IsFiniteSet(newer[c])
        /\ executing[c] # NoAction => PointTracked(c)

Withheld ==
    \A a \in Gated \ approved :
        /\ delivered[a] = 0 /\ \A c \in Execution : executing[c] # a
        /\ \A i \in 1..Len(history) : history[i] # a
        /\ log[a]["success"] = 0 /\ log[a]["rolled_back"] = 0

ExecutorInv ==
    /\ ExecutorTyped /\ Points(history) /\ EmailsLogged /\ PointsTracked
    /\ ExecutingMeansInFlight /\ Withheld

LEMMA ExecutorStarts == ExecutorInit => ExecutorInv
<1> SUFFICES ASSUME ExecutorInit PROVE ExecutorInv
  OBVIOUS
<1>1. ExecutorTyped
  BY ExecutorAssumption DEF ExecutorInit, ExecutorTyped, ExecutorState
<1>2. history = <<>> /\ MaxHistory \in Nat
  BY ExecutorAssumption DEF ExecutorInit
<1>3. Points(history)
  <2>1. <<>> \in Seq(Action) /\ Len(<<>>) = 0 /\ DOMAIN <<>> = {}
    OBVIOUS
  <2> QED BY <1>2, <2>1 DEF Points, IsInjective
<1>4. EmailsLogged /\ ExecutingMeansInFlight
  BY DEF ExecutorInit, EmailsLogged, ExecutingMeansInFlight, Status
<1>5. PointsTracked
  BY FS_EmptySet DEF ExecutorInit, PointsTracked
<1>6. Withheld
  <2>1. Len(history) = 0
    BY <1>2
  <2> QED BY <2>1, ExecutorAssumption DEF ExecutorInit, Withheld, Status
<1> QED BY <1>1, <1>3, <1>4, <1>5, <1>6 DEF ExecutorInv

\* An entry more in the log.
LEMMA RecordIs ==
    ASSUME ExecutorTyped, NEW a \in Action, NEW s \in Status, Record(a, s)
    PROVE  /\ log' \in [Action -> [Status -> Nat]]
           /\ \A b \in Action, t \in Status :
                 log'[b][t] = log[b][t] + (IF b = a /\ t = s THEN 1 ELSE 0)
<1>1. log \in [Action -> [Status -> Nat]] /\ log' = [log EXCEPT ![a] = [log[a] EXCEPT ![s] = log[a][s] + 1]]
  BY DEF ExecutorTyped, Record
<1>2. log[a] \in [Status -> Nat] /\ log[a][s] + 1 \in Nat
  BY <1>1
<1>3. [log[a] EXCEPT ![s] = log[a][s] + 1] \in [Status -> Nat]
  BY <1>2
<1>4. log' \in [Action -> [Status -> Nat]]
  BY <1>1, <1>3
<1>5. ASSUME NEW b \in Action, NEW t \in Status
      PROVE  log'[b][t] = log[b][t] + (IF b = a /\ t = s THEN 1 ELSE 0)
  <2>1. log[b] \in [Status -> Nat] /\ log[b][t] \in Nat
    BY <1>1
  <2>2. CASE b = a
    <3>1. log'[b] = [log[a] EXCEPT ![s] = log[a][s] + 1]
      BY <1>1, <2>2
    <3> QED BY <1>2, <2>1, <2>2, <3>1
  <2>3. CASE b # a
    <3>1. log'[b] = log[b]
      BY <1>1, <2>3
    <3> QED BY <2>1, <2>3, <3>1
  <2> QED BY <2>2, <2>3
<1> QED BY <1>4, <1>5

\* One entry, and what the outside received, keep the log of the emails.
LEMMA EmailsStay ==
    ASSUME ExecutorInv, NEW a \in Action, NEW s \in Status, Record(a, s),
           delivered' \in [Action -> Nat],
           \A b \in Action : b # a => delivered'[b] = delivered[b],
           KindOf[a] = "email" =>
              \/ s \in {"success", "rolled_back"} /\ delivered'[a] = delivered[a] + 1
              \/ s = "failed" /\ delivered'[a] \in {delivered[a], delivered[a] + 1}
              \/ s = "pending_approval" /\ delivered'[a] = delivered[a]
    PROVE  EmailsLogged'
<1>1. /\ log' \in [Action -> [Status -> Nat]]
      /\ \A b \in Action, t \in Status :
            log'[b][t] = log[b][t] + (IF b = a /\ t = s THEN 1 ELSE 0)
  BY RecordIs DEF ExecutorInv
<1> SUFFICES ASSUME NEW b \in Action, KindOf[b] = "email"
             PROVE  /\ log'[b]["success"] + log'[b]["rolled_back"] <= delivered'[b]
                    /\ delivered'[b] <= log'[b]["success"] + log'[b]["rolled_back"] + log'[b]["failed"]
  BY DEF EmailsLogged
<1>2. PICK x, y, z, d, e \in Nat :
        /\ x = log[b]["success"] /\ y = log[b]["rolled_back"] /\ z = log[b]["failed"]
        /\ d = delivered[b] /\ e = delivered'[b]
  <2>1. log[b] \in [Status -> Nat] /\ delivered[b] \in Nat /\ delivered'[b] \in Nat
    BY DEF ExecutorInv, ExecutorTyped
  <2>2. log[b]["success"] \in Nat /\ log[b]["rolled_back"] \in Nat /\ log[b]["failed"] \in Nat
    BY <2>1 DEF Status
  <2> QED BY <2>1, <2>2
<1>3. x + y <= d /\ d <= x + y + z
  BY <1>2 DEF ExecutorInv, EmailsLogged
<1>4. CASE b # a
  <2>1. log'[b]["success"] = x /\ log'[b]["rolled_back"] = y /\ log'[b]["failed"] = z /\ e = d
    BY <1>1, <1>2, <1>4 DEF Status
  <2> QED BY <1>2, <1>3, <2>1
<1>5. CASE b = a
  <2>1. /\ log'[b]["success"] = x + (IF s = "success" THEN 1 ELSE 0)
        /\ log'[b]["rolled_back"] = y + (IF s = "rolled_back" THEN 1 ELSE 0)
        /\ log'[b]["failed"] = z + (IF s = "failed" THEN 1 ELSE 0)
    BY <1>1, <1>2, <1>5 DEF Status
  <2>2. \/ s \in {"success", "rolled_back"} /\ e = d + 1
        \/ s = "failed" /\ e \in {d, d + 1}
        \/ s = "pending_approval" /\ e = d
    BY <1>2, <1>5
  <2> QED BY <1>2, <1>3, <2>1, <2>2
<1> QED BY <1>4, <1>5

LEMMA RefusedStep ==
    ASSUME ExecutorInv, NEW c \in Execution, NEW a \in Action, Refused(c, a),
           UNCHANGED <<clients, approved, delivered>>
    PROVE  ExecutorInv'
<1>1. PICK s \in Status : Record(a, s) /\ s \in {"failed", "pending_approval"}
  BY DEF Refused, Status
<1>2. /\ executorState' = "validating"
      /\ UNCHANGED <<history, executing, callsLeft, newer, clients, approved, delivered>>
  BY DEF Refused
<1>3. /\ log' \in [Action -> [Status -> Nat]]
      /\ \A b \in Action, t \in Status :
            log'[b][t] = log[b][t] + (IF b = a /\ t = s THEN 1 ELSE 0)
  BY <1>1, RecordIs DEF ExecutorInv
<1>4. ExecutorTyped'
  BY <1>2, <1>3 DEF ExecutorInv, ExecutorTyped, ExecutorState
<1>5. Points(history)' /\ PointsTracked'
  BY <1>2 DEF ExecutorInv, Points, PointsTracked, PointTracked, OnlyNewerBehind
<1>6. EmailsLogged'
  <2>1. delivered' = delivered /\ delivered' \in [Action -> Nat]
    BY <1>2 DEF ExecutorInv, ExecutorTyped
  <2>2. s = "failed" \/ s = "pending_approval"
    BY <1>1
  <2> QED BY <1>1, <2>1, <2>2, EmailsStay
<1>7. ExecutingMeansInFlight'
  BY <1>2 DEF ExecutingMeansInFlight
<1>8. Withheld'
  <2>1. \A b \in Action : log'[b]["success"] = log[b]["success"] /\ log'[b]["rolled_back"] = log[b]["rolled_back"]
    <3> TAKE b \in Action
    <3>1. log[b]["success"] \in Nat /\ log[b]["rolled_back"] \in Nat
      BY DEF ExecutorInv, ExecutorTyped, Status
    <3> QED BY <1>1, <1>3, <3>1 DEF Status
  <2> QED BY <1>2, <2>1, ExecutorAssumption DEF ExecutorInv, Withheld
<1> QED BY <1>4, <1>5, <1>6, <1>7, <1>8 DEF ExecutorInv

\* The calls of a handler: at most one for an email.
LEMMA CallsAre ==
    ASSUME ExecutorTyped, NEW a \in Action
    PROVE  /\ CallsOf(a) \in Nat
           /\ KindOf[a] = "email" => CallsOf(a) \in {0, 1}
<1>1. PICK n \in Nat : n = Cardinality(clients \cap {"gmail"}) /\ n <= 1
  <2>1. IsFiniteSet({"gmail"}) /\ Cardinality({"gmail"}) = 1
    BY FS_Singleton
  <2>2. IsFiniteSet(clients \cap {"gmail"})
    BY <2>1, FS_Subset
  <2>3. Cardinality(clients \cap {"gmail"}) <= Cardinality({"gmail"}) /\ Cardinality(clients \cap {"gmail"}) \in Nat
    BY <2>1, <2>2, FS_Subset, FS_CardinalityType
  <2> QED BY <2>1, <2>3
<1>2. Cardinality(clients \cap {"slack", "gmail"}) \in Nat
  <2>1. IsFiniteSet({"slack", "gmail"})
    <3>1. IsFiniteSet({"gmail"}) /\ {"slack", "gmail"} = {"gmail"} \cup {"slack"}
      BY FS_Singleton
    <3> QED BY <3>1, FS_AddElement
  <2> QED BY <2>1, FS_Subset, FS_CardinalityType
<1>3. Cardinality(clients \cap {"gsc"}) \in Nat
  <2>1. IsFiniteSet({"gsc"})
    BY FS_Singleton
  <2> QED BY <2>1, FS_Subset, FS_CardinalityType
<1>4. KindOf[a] \in Kind
  BY ExecutorAssumption
<1> QED BY <1>1, <1>2, <1>3, <1>4 DEF CallsOf, Kind

\* Points in progress are tracked over the begin of one more action.
LEMMA TrackedOn ==
    ASSUME NEW h, NEW r, NEW a, NEW b, NEW newest, StaysOrGrows(h, r, a), IsFiniteSet(newest),
           \/ OnlyNewerBehind(h, b, newest)
           \/ Cardinality(newest \ {b}) >= MaxHistory
    PROVE  \/ OnlyNewerBehind(r, b, newest \cup {a})
           \/ Cardinality((newest \cup {a}) \ {b}) >= MaxHistory
<1>1. CASE OnlyNewerBehind(h, b, newest)
  BY <1>1 DEF StaysOrGrows
<1>2. CASE Cardinality(newest \ {b}) >= MaxHistory
  <2>1. PICK T, U : T = newest \ {b} /\ U = (newest \cup {a}) \ {b}
    OBVIOUS
  <2>2. IsFiniteSet(U) /\ T \subseteq U
    BY <2>1, FS_AddElement, FS_RemoveElement
  <2>3. IsFiniteSet(T) /\ Cardinality(T) <= Cardinality(U)
    BY <2>2, FS_Subset
  <2>4. Cardinality(T) \in Nat /\ Cardinality(U) \in Nat /\ MaxHistory \in Nat
    BY <2>2, <2>3, FS_CardinalityType, ExecutorAssumption
  <2>5. Cardinality(U) >= MaxHistory
    BY <1>2, <2>1, <2>3, <2>4
  <2> QED BY <2>1, <2>5
<1> QED BY <1>1, <1>2

LEMMA BegunStep ==
    ASSUME ExecutorInv, NEW c \in Execution, NEW a \in Action, executing[c] = NoAction, Begun(c, a),
           UNCHANGED <<clients, approved, delivered>>
    PROVE  ExecutorInv'
<1>1. /\ a \notin Gated \ approved
      /\ history' = Pointed(history, a)
      /\ newer' = [d \in Execution |-> IF d = c THEN {} ELSE newer[d] \cup {a}]
  BY DEF Begun, Waits
<1>2. /\ Points(history') /\ Len(history') >= 1 /\ history'[Len(history')] = a
      /\ \A i \in 1..Len(history') : history'[i] = a \/ history'[i] \in ToSet(history)
      /\ StaysOrGrows(history, history', a)
  <2>1. Points(history)
    BY DEF ExecutorInv
  <2> QED BY <1>1, <2>1, PointedIs
<1>3. Len(history) \in Nat /\ DOMAIN history = 1..Len(history) /\ Len(history') \in Nat
  BY <1>2 DEF ExecutorInv, Points
<1>4. \/ /\ CallsOf(a) > 0 /\ executorState' = "executing" /\ log' = log
         /\ executing' = [executing EXCEPT ![c] = a]
         /\ callsLeft' = [callsLeft EXCEPT ![c] = CallsOf(a)]
      \/ /\ \E s \in Status : /\ Finish(a, s) /\ s \in {"failed", "success"}
                              /\ KindOf[a] = "email" => s = "failed"
         /\ UNCHANGED <<executing, callsLeft>>
  BY DEF Begun, Status
<1>5. CallsOf(a) \in Nat /\ (KindOf[a] = "email" => CallsOf(a) \in {0, 1})
  BY CallsAre DEF ExecutorInv
<1>6. \A d \in Execution : executing'[d] = executing[d] \/ (d = c /\ executing'[d] = a)
  <2>1. executing \in [Execution -> Action \cup {NoAction}]
    BY DEF ExecutorInv, ExecutorTyped
  <2>2. executing' = executing \/ executing' = [executing EXCEPT ![c] = a]
    BY <1>4
  <2>3. CASE executing' = executing
    BY <2>3
  <2>4. CASE executing' = [executing EXCEPT ![c] = a]
    BY <2>1, <2>4
  <2> QED BY <2>2, <2>3, <2>4
<1>7. \/ log' = log
      \/ \E s \in Status : Record(a, s)
  BY <1>4 DEF Finish
<1>8. /\ log' \in [Action -> [Status -> Nat]]
      /\ \A b \in Action \ {a} : \A t \in Status : log'[b][t] = log[b][t]
  <2>1. CASE log' = log
    BY <2>1 DEF ExecutorInv, ExecutorTyped
  <2>2. CASE \E s \in Status : Record(a, s)
    <3>1. PICK s \in Status : Record(a, s)
      BY <2>2
    <3>2. /\ log' \in [Action -> [Status -> Nat]]
          /\ \A b \in Action, t \in Status :
                log'[b][t] = log[b][t] + (IF b = a /\ t = s THEN 1 ELSE 0)
      BY <3>1, RecordIs DEF ExecutorInv
    <3>3. \A b \in Action, t \in Status : log[b][t] \in Nat
      BY DEF ExecutorInv, ExecutorTyped
    <3> QED BY <3>2, <3>3
  <2> QED BY <1>7, <2>1, <2>2
<1>9. newer' \in [Execution -> SUBSET Action]
  BY <1>1 DEF ExecutorInv, ExecutorTyped
<1>10. ExecutorTyped'
  <2>1. /\ clients' \in SUBSET Client /\ executorState' \in ExecutorState
        /\ delivered' \in [Action -> Nat]
    BY <1>4 DEF ExecutorInv, ExecutorTyped, ExecutorState, Finish
  <2>2. /\ executing' \in [Execution -> Action \cup {NoAction}]
        /\ callsLeft' \in [Execution -> Nat]
        /\ \A d \in Execution : callsLeft'[d] > 0 <=> executing'[d] # NoAction
        /\ \A d \in Execution : executing'[d] \in Action /\ KindOf[executing'[d]] = "email" => callsLeft'[d] = 1
    <3>1. a # NoAction
      BY ExecutorAssumption
    <3>2. CASE executing' = executing /\ callsLeft' = callsLeft
      BY <3>2 DEF ExecutorInv, ExecutorTyped
    <3>3. CASE /\ CallsOf(a) > 0
               /\ executing' = [executing EXCEPT ![c] = a]
               /\ callsLeft' = [callsLeft EXCEPT ![c] = CallsOf(a)]
      BY <1>5, <3>1, <3>3 DEF ExecutorInv, ExecutorTyped
    <3> QED BY <1>4, <3>2, <3>3
  <2> QED BY <1>8, <1>9, <2>1, <2>2 DEF ExecutorTyped
<1>11. EmailsLogged'
  <2>1. CASE log' = log
    BY <2>1 DEF ExecutorInv, EmailsLogged
  <2>2. CASE \E s \in Status : /\ Finish(a, s) /\ s \in {"failed", "success"}
                               /\ KindOf[a] = "email" => s = "failed"
    <3>1. PICK s \in Status : Record(a, s) /\ (KindOf[a] = "email" => s = "failed")
      BY <2>2 DEF Finish
    <3>2. delivered' = delivered /\ delivered' \in [Action -> Nat]
      BY DEF ExecutorInv, ExecutorTyped
    <3> QED BY <3>1, <3>2, EmailsStay
  <2> QED BY <1>4, <2>1, <2>2
<1>12. PointsTracked'
  <2> SUFFICES ASSUME NEW d \in Execution
               PROVE  IsFiniteSet(newer'[d]) /\ (executing'[d] # NoAction => PointTracked(d)')
    BY DEF PointsTracked
  <2>1. CASE d = c
    <3>1. newer'[d] = {} /\ IsFiniteSet(newer'[d])
      BY <1>1, <2>1, FS_EmptySet
    <3>2. ASSUME executing'[d] # NoAction PROVE OnlyNewerBehind(history', executing'[d], newer'[d])
      <4>1. executing'[d] = a
        BY <1>6, <2>1, <3>2
      <4>2. PICK n \in Nat : n = Len(history') /\ n \in 1..Len(history')
        BY <1>2, <1>3
      <4>3. history'[n] = a /\ \A i \in 1..Len(history') : ~(i > n)
        BY <1>2, <4>2
      <4> QED BY <4>1, <4>2, <4>3 DEF OnlyNewerBehind
    <3> QED BY <3>1, <3>2 DEF PointTracked
  <2>2. CASE d # c
    <3>1. newer'[d] = newer[d] \cup {a} /\ executing'[d] = executing[d]
      BY <1>1, <1>6, <2>2
    <3>2. IsFiniteSet(newer[d]) /\ (executing[d] # NoAction => PointTracked(d))
      BY DEF ExecutorInv, PointsTracked
    <3>3. IsFiniteSet(newer'[d])
      BY <3>1, <3>2, FS_AddElement
    <3>4. ASSUME executing[d] # NoAction PROVE PointTracked(d)'
      <4>1. PICK h, r, b, newest :
              h = history /\ r = history' /\ b = executing[d] /\ newest = newer[d]
        OBVIOUS
      <4>2. /\ StaysOrGrows(h, r, a) /\ IsFiniteSet(newest)
            /\ OnlyNewerBehind(h, b, newest) \/ Cardinality(newest \ {b}) >= MaxHistory
        BY <1>2, <3>2, <3>4, <4>1 DEF PointTracked
      <4>3. \/ OnlyNewerBehind(r, b, newest \cup {a})
            \/ Cardinality((newest \cup {a}) \ {b}) >= MaxHistory
        BY <4>2, TrackedOn
      <4> QED BY <3>1, <4>1, <4>3 DEF PointTracked
    <3> QED BY <3>1, <3>3, <3>4
  <2> QED BY <2>1, <2>2
<1>13. ExecutingMeansInFlight'
  <2>1. a # NoAction /\ executing \in [Execution -> Action \cup {NoAction}]
    BY ExecutorAssumption DEF ExecutorInv, ExecutorTyped
  <2> QED BY <1>4, <2>1 DEF ExecutingMeansInFlight, Finish
<1>14. Withheld'
  <2> SUFFICES ASSUME NEW b \in Gated \ approved
               PROVE  /\ delivered'[b] = 0 /\ \A d \in Execution : executing'[d] # b
                      /\ \A i \in 1..Len(history') : history'[i] # b
                      /\ log'[b]["success"] = 0 /\ log'[b]["rolled_back"] = 0
    BY DEF Withheld
  <2>1. b \in Action /\ b # a
    BY <1>1, ExecutorAssumption
  <2>2. /\ delivered[b] = 0 /\ \A d \in Execution : executing[d] # b
        /\ \A i \in 1..Len(history) : history[i] # b
        /\ log[b]["success"] = 0 /\ log[b]["rolled_back"] = 0
    BY DEF ExecutorInv, Withheld
  <2>3. b \notin ToSet(history)
    BY <1>3, <2>2 DEF ToSet
  <2>4. \A i \in 1..Len(history') : history'[i] # b
    BY <1>2, <2>1, <2>3
  <2>5. log'[b]["success"] = 0 /\ log'[b]["rolled_back"] = 0
    BY <1>8, <2>1, <2>2 DEF Status
  <2> QED BY <1>6, <2>1, <2>2, <2>4, <2>5
<1> QED BY <1>2, <1>10, <1>11, <1>12, <1>13, <1>14 DEF ExecutorInv

LEMMA AnsweredStep ==
    ASSUME ExecutorInv, NEW c \in Execution, CallAnswered(c)
    PROVE  ExecutorInv'
<1> PICK a : a = executing[c]
  OBVIOUS
<1>1. PICK answer \in {"id", "no_id", "raise"}, acted \in BOOLEAN :
        /\ a = executing[c] /\ a # NoAction
        /\ acted \/ answer = "raise"
        /\ delivered' = [delivered EXCEPT ![a] = @ + (IF acted THEN 1 ELSE 0)]
        /\ IF callsLeft[c] > 1
           THEN /\ callsLeft' = [callsLeft EXCEPT ![c] = @ - 1]
                /\ UNCHANGED <<executing, newer, log, executorState>>
           ELSE /\ callsLeft' = [callsLeft EXCEPT ![c] = 0]
                /\ executing' = [executing EXCEPT ![c] = NoAction]
                /\ newer' = [newer EXCEPT ![c] = {}]
                /\ Finish(a, Verdict(a, answer))
        /\ UNCHANGED <<clients, history, approved>>
  BY DEF CallAnswered
<1>2. a \in Action
  BY <1>1 DEF ExecutorInv, ExecutorTyped
<1>3. /\ delivered' \in [Action -> Nat]
      /\ \A b \in Action : b # a => delivered'[b] = delivered[b]
      /\ delivered'[a] = delivered[a] + (IF acted THEN 1 ELSE 0)
  <2>1. delivered \in [Action -> Nat]
    BY DEF ExecutorInv, ExecutorTyped
  <2>2. PICK k \in Nat : k = IF acted THEN 1 ELSE 0
    OBVIOUS
  <2>3. delivered' = [delivered EXCEPT ![a] = delivered[a] + k]
    BY <1>1, <2>2
  <2> QED BY <1>2, <2>1, <2>2, <2>3
<1>4. Points(history)'
  BY <1>1 DEF ExecutorInv, Points
<1>5. CASE callsLeft[c] > 1
  <2>1. /\ callsLeft' = [callsLeft EXCEPT ![c] = callsLeft[c] - 1]
        /\ UNCHANGED <<executing, newer, log, executorState, clients, history, approved>>
    BY <1>1, <1>5
  <2>2. KindOf[a] # "email"
    BY <1>1, <1>2, <1>5 DEF ExecutorInv, ExecutorTyped
  <2>3. callsLeft \in [Execution -> Nat] /\ callsLeft[c] \in Nat
    BY DEF ExecutorInv, ExecutorTyped
  <2>4. /\ callsLeft' \in [Execution -> Nat]
        /\ \A d \in Execution : callsLeft'[d] > 0 <=> callsLeft[d] > 0
        /\ \A d \in Execution : d # c => callsLeft'[d] = callsLeft[d]
    BY <1>5, <2>1, <2>3
  <2>5. ExecutorTyped'
    BY <1>1, <1>3, <2>1, <2>2, <2>4 DEF ExecutorInv, ExecutorTyped
  <2>6. EmailsLogged'
    BY <1>3, <2>1, <2>2 DEF ExecutorInv, EmailsLogged
  <2>7. PointsTracked' /\ ExecutingMeansInFlight'
    BY <2>1 DEF ExecutorInv, PointsTracked, PointTracked, OnlyNewerBehind, ExecutingMeansInFlight
  <2>8. Withheld'
    <3>1. \A b \in Gated \ approved : b \in Action /\ b # a
      BY <1>1, ExecutorAssumption DEF ExecutorInv, Withheld
    <3> QED BY <1>3, <2>1, <3>1 DEF ExecutorInv, Withheld
  <2> QED BY <1>4, <2>5, <2>6, <2>7, <2>8 DEF ExecutorInv
<1>6. CASE ~(callsLeft[c] > 1)
  <2>1. /\ callsLeft' = [callsLeft EXCEPT ![c] = 0]
        /\ executing' = [executing EXCEPT ![c] = NoAction]
        /\ newer' = [newer EXCEPT ![c] = {}]
        /\ Finish(a, Verdict(a, answer))
        /\ UNCHANGED <<clients, history, approved>>
    BY <1>1, <1>6
  <2>2. PICK s \in Status : s = Verdict(a, answer) /\ s \in {"success", "rolled_back", "failed"}
    BY DEF Verdict, Status
  <2>3. Record(a, s) /\ executorState' \in {"done", "failed"}
    BY <2>1, <2>2 DEF Finish
  <2>4. /\ log' \in [Action -> [Status -> Nat]]
        /\ \A b \in Action, t \in Status :
              log'[b][t] = log[b][t] + (IF b = a /\ t = s THEN 1 ELSE 0)
    BY <1>2, <2>3, RecordIs DEF ExecutorInv
  <2>5. ExecutorTyped'
    <3>1. /\ callsLeft' \in [Execution -> Nat]
          /\ executing' \in [Execution -> Action \cup {NoAction}]
          /\ newer' \in [Execution -> SUBSET Action]
      BY <2>1 DEF ExecutorInv, ExecutorTyped
    <3>2. \A d \in Execution :
            \/ d = c /\ callsLeft'[d] = 0 /\ executing'[d] = NoAction
            \/ callsLeft'[d] = callsLeft[d] /\ executing'[d] = executing[d]
      BY <2>1 DEF ExecutorInv, ExecutorTyped
    <3>3. /\ \A d \in Execution : callsLeft'[d] > 0 <=> executing'[d] # NoAction
          /\ \A d \in Execution : executing'[d] \in Action /\ KindOf[executing'[d]] = "email" => callsLeft'[d] = 1
      <4>1. \A d \in Execution :
              /\ callsLeft[d] > 0 <=> executing[d] # NoAction
              /\ executing[d] \in Action /\ KindOf[executing[d]] = "email" => callsLeft[d] = 1
        BY DEF ExecutorInv, ExecutorTyped
      <4> QED BY <3>2, <4>1, ExecutorAssumption
    <3>4. clients' \in SUBSET Client /\ executorState' \in ExecutorState
      BY <2>1, <2>3 DEF ExecutorInv, ExecutorTyped, ExecutorState
    <3> QED BY <1>3, <2>4, <3>1, <3>3, <3>4 DEF ExecutorTyped
  <2>6. EmailsLogged'
    <3>1. delivered[a] \in Nat
      BY <1>2 DEF ExecutorInv, ExecutorTyped
    <3>2. KindOf[a] = "email" =>
            \/ s \in {"success", "rolled_back"} /\ delivered'[a] = delivered[a] + 1
            \/ s = "failed" /\ delivered'[a] \in {delivered[a], delivered[a] + 1}
      BY <1>1, <1>3, <2>2, <3>1 DEF Verdict
    <3> QED BY <1>2, <1>3, <2>3, <3>2, EmailsStay
  <2>7. PointsTracked'
    <3> SUFFICES ASSUME NEW d \in Execution
                 PROVE  IsFiniteSet(newer'[d]) /\ (executing'[d] # NoAction => PointTracked(d)')
      BY DEF PointsTracked
    <3>1. CASE d = c
      <4>1. newer'[d] = {} /\ executing'[d] = NoAction
        BY <2>1, <3>1 DEF ExecutorInv, ExecutorTyped
      <4> QED BY <4>1, FS_EmptySet
    <3>2. CASE d # c
      <4>1. newer'[d] = newer[d] /\ executing'[d] = executing[d] /\ history' = history
        BY <2>1, <3>2 DEF ExecutorInv, ExecutorTyped
      <4> QED BY <4>1 DEF ExecutorInv, PointsTracked, PointTracked
    <3> QED BY <3>1, <3>2
  <2>8. ExecutingMeansInFlight'
    BY <2>3 DEF ExecutingMeansInFlight
  <2>9. Withheld'
    <3> SUFFICES ASSUME NEW b \in Gated \ approved
                 PROVE  /\ delivered'[b] = 0 /\ \A d \in Execution : executing'[d] # b
                        /\ \A i \in 1..Len(history') : history'[i] # b
                        /\ log'[b]["success"] = 0 /\ log'[b]["rolled_back"] = 0
      BY <2>1 DEF Withheld
    <3>1. /\ delivered[b] = 0 /\ \A d \in Execution : executing[d] # b
          /\ \A i \in 1..Len(history) : history[i] # b
          /\ log[b]["success"] = 0 /\ log[b]["rolled_back"] = 0
      BY DEF ExecutorInv, Withheld
    <3>2. b \in Action /\ b # a /\ b # NoAction
      BY <1>1, <3>1, ExecutorAssumption
    <3>3. \A d \in Execution : executing'[d] # b
      BY <2>1, <3>1, <3>2 DEF ExecutorInv, ExecutorTyped
    <3>4. log'[b]["success"] = 0 /\ log'[b]["rolled_back"] = 0
      BY <2>4, <3>1, <3>2 DEF Status
    <3> QED BY <1>3, <2>1, <3>1, <3>2, <3>3, <3>4
  <2> QED BY <1>4, <2>5, <2>6, <2>7, <2>8, <2>9 DEF ExecutorInv
<1> QED BY <1>5, <1>6

LEMMA ApproveStep ==
    ASSUME ExecutorInv, NEW a \in Action, Approve(a)
    PROVE  ExecutorInv'
<1>1. /\ approved' = approved \cup {a}
      /\ UNCHANGED <<clients, executorState, history, executing, callsLeft, log, delivered, newer>>
  BY DEF Approve
<1>2. ExecutorTyped' /\ Points(history)' /\ EmailsLogged' /\ ExecutingMeansInFlight'
  BY <1>1 DEF ExecutorInv, ExecutorTyped, Points, EmailsLogged, ExecutingMeansInFlight
<1>3. PointsTracked'
  BY <1>1 DEF ExecutorInv, PointsTracked, PointTracked, OnlyNewerBehind
<1>4. Withheld'
  BY <1>1 DEF ExecutorInv, Withheld
<1> QED BY <1>2, <1>3, <1>4 DEF ExecutorInv

LEMMA ExecutorStep == ExecutorInv /\ [ExecutorNext]_executorVars => ExecutorInv'
<1> SUFFICES ASSUME ExecutorInv, [ExecutorNext]_executorVars PROVE ExecutorInv'
  OBVIOUS
<1>1. CASE \E c \in Execution : CallAnswered(c)
  BY <1>1, AnsweredStep
<1>2. CASE \E c \in Execution, a \in Action : Execute(c, a)
  <2>1. PICK c \in Execution, a \in Action : Execute(c, a)
    BY <1>2
  <2>2. executing[c] = NoAction /\ (Refused(c, a) \/ Begun(c, a)) /\ UNCHANGED <<clients, approved, delivered>>
    BY <2>1 DEF Execute
  <2> QED BY <2>2, RefusedStep, BegunStep
<1>3. CASE \E a \in Action : Approve(a)
  BY <1>3, ApproveStep
<1>4. CASE UNCHANGED executorVars
  BY <1>4 DEF executorVars, ExecutorInv, ExecutorTyped, Points, EmailsLogged, PointsTracked,
              PointTracked, OnlyNewerBehind, ExecutingMeansInFlight, Withheld
<1> QED BY <1>1, <1>2, <1>3, <1>4 DEF ExecutorNext

(***************************************************************************)
(* The log, the points, the state and the approvals of overlapping         *)
(* executions, for any actions, coroutines and length of the history.      *)
(***************************************************************************)
THEOREM ExecutionsAccounted == ExecutorSpec => []ExecutionIsAccounted
<1>1. ExecutorInv => ExecutionIsAccounted
  <2> SUFFICES ASSUME ExecutorInv PROVE ExecutionIsAccounted
    OBVIOUS
  <2>0. history \in Seq(Action) /\ DOMAIN history = 1..Len(history) /\ IsInjective(history)
    BY DEF ExecutorInv, Points
  <2>1. ExecutorTypeOK
    <3>1. ToSet(history) \subseteq Action
      BY <2>0, ElementOfSeq DEF ToSet
    <3> QED BY <2>0, <3>1 DEF ExecutorInv, Points, ExecutorTyped, ExecutorState, ExecutorTypeOK
  <2>2. EmailsMatchTheLog
    BY DEF ExecutorInv, EmailsLogged, EmailsMatchTheLog, CarriedOut
  <2>3. PointOutlivesFewer
    <3> SUFFICES ASSUME NEW c \in Execution, executing[c] # NoAction,
                        ~ (Cardinality(newer[c] \ {executing[c]}) >= MaxHistory)
                 PROVE  executing[c] \in ToSet(history)
      BY DEF PointOutlivesFewer
    <3>1. OnlyNewerBehind(history, executing[c], newer[c])
      BY DEF ExecutorInv, PointsTracked, PointTracked
    <3> QED BY <2>0, <3>1 DEF OnlyNewerBehind, ToSet
  <2>4. ExecutingMeansInFlight
    BY DEF ExecutorInv
  <2>5. NothingUnapprovedGoesOut
    <3> SUFFICES ASSUME NEW a \in Gated \ approved
                 PROVE  /\ delivered[a] = 0 /\ InFlight(a) = {} /\ a \notin ToSet(history)
                        /\ CarriedOut(a) = 0
      BY DEF NothingUnapprovedGoesOut
    <3> QED BY <2>0 DEF ExecutorInv, Withheld, InFlight, ToSet, CarriedOut
  <2> QED BY <2>1, <2>2, <2>3, <2>4, <2>5 DEF ExecutionIsAccounted
<1> QED BY <1>1, ExecutorStarts, ExecutorStep, PTL DEF ExecutorSpec

-------------------------------------------------------------------------------
(***************************************************************************)
(* Sets of numbers in their order, which a crawl and a reader go through.  *)
(***************************************************************************)

\* A set of numbers in its order.
OrderOf(s, ids) ==
    /\ s \in [1..Cardinality(ids) -> ids]
    /\ \A i, j \in DOMAIN s : i < j => s[i] < s[j]

\* Every finite set of numbers can be sorted: a smallest one that could not be
\* would have a smallest number, and the rest of it can be sorted.
LEMMA CanBeSorted ==
    ASSUME NEW S \in SUBSET Nat, IsFiniteSet(S)
    PROVE  \E s : OrderOf(s, S)
<1> DEFINE Unsorted(T) == T \in SUBSET Nat /\ IsFiniteSet(T) /\ ~ \E s : OrderOf(s, T)
           Unsortable == {n \in Nat : \E T : Unsorted(T) /\ Cardinality(T) = n}
<1>1. SUFFICES ASSUME Unsorted(S) PROVE FALSE
  OBVIOUS
<1>2. Cardinality(S) \in Unsortable
  BY <1>1, FS_CardinalityType
<1>3. PICK n \in Unsortable : \A m \in Unsortable : n <= m
  BY <1>2, FirstExists
<1>4. PICK T : Unsorted(T) /\ Cardinality(T) = n
  BY <1>3
<1>5. T # {}
  <2> SUFFICES ASSUME T = {} PROVE FALSE
    OBVIOUS
  <2>1. n = 0
    BY <1>4, FS_EmptySet
  <2>2. [i \in 1..0 |-> 0] \in [1..0 -> T] /\ DOMAIN [i \in 1..0 |-> 0] = {}
    OBVIOUS
  <2>3. OrderOf([i \in 1..0 |-> 0], T)
    BY <1>4, <2>1, <2>2 DEF OrderOf
  <2> QED BY <1>4, <2>3
<1>6. PICK m \in T : \A k \in T : m <= k
  BY <1>4, <1>5, FirstExists
<1>7. /\ T \ {m} \in SUBSET Nat /\ IsFiniteSet(T \ {m}) /\ Cardinality(T \ {m}) = n - 1
      /\ n \in Nat /\ n - 1 \in Nat
  <2>1. IsFiniteSet(T \ {m}) /\ Cardinality(T \ {m}) = n - 1
    BY <1>4, <1>6, FS_RemoveElement
  <2>2. Cardinality(T \ {m}) \in Nat
    BY <2>1, FS_CardinalityType
  <2> QED BY <1>3, <1>4, <2>1, <2>2
<1>8. n - 1 \notin Unsortable
  BY <1>3, <1>7
<1>9. PICK e : OrderOf(e, T \ {m})
  BY <1>7, <1>8
<1> DEFINE s == [i \in 1..n |-> IF i = 1 THEN m ELSE e[i - 1]]
<1>10. e \in [1..n - 1 -> T \ {m}] /\ \A i, j \in 1..n - 1 : i < j => e[i] < e[j]
  BY <1>7, <1>9 DEF OrderOf
<1>11. \A i \in 1..n : i # 1 => i - 1 \in 1..n - 1 /\ e[i - 1] \in T /\ m < e[i - 1]
  <2> SUFFICES ASSUME NEW i \in 1..n, i # 1
               PROVE  i - 1 \in 1..n - 1 /\ e[i - 1] \in T /\ m < e[i - 1]
    OBVIOUS
  <2>1. i - 1 \in 1..n - 1
    BY <1>7
  <2>2. e[i - 1] \in T /\ e[i - 1] # m
    BY <1>10, <2>1
  <2>3. m <= e[i - 1] /\ m \in Nat /\ e[i - 1] \in Nat
    BY <1>4, <1>6, <2>2
  <2> QED BY <2>1, <2>2, <2>3
<1>12. s \in [1..n -> T]
  BY <1>6, <1>11
<1>13. ASSUME NEW i \in 1..n, NEW j \in 1..n, i < j PROVE s[i] < s[j]
  <2>1. j # 1
    BY <1>13
  <2>2. CASE i = 1
    BY <1>11, <2>1, <2>2
  <2>3. CASE i # 1
    BY <1>10, <1>11, <1>13, <2>1, <2>3
  <2> QED BY <2>2, <2>3
<1>14. OrderOf(s, T)
  BY <1>4, <1>12, <1>13 DEF OrderOf
<1> QED BY <1>4, <1>14

\* The order lists the whole set, as often as it has members.
LEMMA InOrderIs ==
    ASSUME NEW S \in SUBSET Nat, IsFiniteSet(S)
    PROVE  /\ InOrder(S) \in Seq(S) /\ Len(InOrder(S)) \in Nat
           /\ \A i, j \in 1..Len(InOrder(S)) : i < j => InOrder(S)[i] < InOrder(S)[j]
           /\ \A x \in S : \E i \in 1..Len(InOrder(S)) : InOrder(S)[i] = x
<1> PICK s : s = InOrder(S)
  OBVIOUS
<1> PICK n : n = Cardinality(S)
  OBVIOUS
<1>0. n \in Nat
  BY FS_CardinalityType
<1>1. OrderOf(s, S)
  BY CanBeSorted DEF InOrder, OrderOf
<1>2. s \in [1..n -> S] /\ DOMAIN s = 1..n /\ \A i, j \in 1..n : i < j => s[i] < s[j]
  BY <1>1 DEF OrderOf
<1>3. s \in Seq(S) /\ Len(s) = n
  BY <1>0, <1>2
<1>4. \A i, j \in 1..n : s[i] = s[j] => i = j
  <2> SUFFICES ASSUME NEW i \in 1..n, NEW j \in 1..n, s[i] = s[j], i # j PROVE FALSE
    OBVIOUS
  <2>1. s[i] \in Nat /\ s[j] \in Nat
    BY <1>2
  <2>2. i < j \/ j < i
    BY <1>0
  <2> QED BY <1>2, <2>1, <2>2
<1>5. s \in Injection(1..n, S)
  BY <1>2, <1>4 DEF Injection, IsInjective
<1>6. Cardinality(1..n) = n
  BY <1>0, FS_Interval
<1>7. s \in Surjection(1..n, S)
  BY <1>5, <1>6, FS_Injection
<1>8. \A x \in S : \E i \in 1..n : s[i] = x
  BY <1>7 DEF Surjection
<1> QED BY <1>0, <1>2, <1>3, <1>8

\* A page has one entry or more, if there is one, and a hundred at most.
LEMMA PageSizeIs ==
    ASSUME NEW limit \in Int, NEW n \in Nat
    PROVE  /\ Min({Max({limit, 1}), 100, n}) \in 0..n
           /\ n > 0 => Min({Max({limit, 1}), 100, n}) >= 1
<1> DEFINE most == Max({limit, 1})
           P(x) == x \in {limit, 1} /\ \A y \in {limit, 1} : x >= y
<1>1. \E x : P(x)
  <2>1. CASE limit <= 1
    BY <2>1
  <2>2. CASE limit >= 1
    BY <2>2
  <2> QED BY <2>1, <2>2
<1>2. P(CHOOSE x : P(x))
  BY <1>1
<1>3. most = CHOOSE x : P(x)
  BY DEF Max
<1>4. most \in Int /\ most >= 1
  BY <1>2, <1>3
<1> HIDE DEF most, P
<1>5. {most, 100, n} \subseteq Nat /\ {most, 100, n} # {}
  BY <1>4
<1>6. PICK i \in {most, 100, n} : \A j \in {most, 100, n} : i <= j
  BY <1>5, FirstExists
<1>7. /\ Min({most, 100, n}) \in {most, 100, n}
      /\ \A j \in {most, 100, n} : Min({most, 100, n}) <= j
  BY <1>6 DEF Min
<1> QED BY <1>4, <1>7 DEF most

(***************************************************************************)
(* TenantRecords: records come, go and change while a reader turns the     *)
(* pages.  Between two pages the reader was given everything steady up to  *)
(* its cursor; what it was given is not beyond.                            *)
(***************************************************************************)
GivenEntry == [key : Id, id : Id]
Before(m, n) ==
    \/ given[m].id < given[n].id
    \/ ~sql /\ given[m].id = given[n].id /\ given[m].key # given[n].key
Rightly(n) ==
    Owns(Reader, given[n].key) \/ confirmed[given[n].key] > 0 \/ given[n].key \in moved

RecordsTyped ==
    /\ owner \in [Id -> Org \cup {Nobody, Everyone}] /\ shown \in [Id -> Id]
    /\ deletedAt \subseteq Id /\ after \in Id \cup {0}
    /\ given \in Seq(GivenEntry) /\ confirmed \in [Id -> Nat]
    /\ ~sql => deletedAt = {}

RecordsInv ==
    /\ RecordsTyped
    /\ sql => \A k \in Id : shown[k] = k
    /\ steady \subseteq Visible(Reader)
    /\ ~crowded => Cardinality(Visible(Reader)) <= ListCap
    /\ \A m, n \in 1..Len(given) : m < n => Before(m, n)
    /\ sql => \A n \in 1..Len(given) : given[n].key = given[n].id
    /\ ~done => \A n \in 1..Len(given) : given[n].id <= after
    /\ ~(sql /\ crowded) =>
          \A k \in steady : done \/ shown[k] <= after =>
              \E n \in 1..Len(given) : given[n].id = shown[k]
    /\ \A n \in 1..Len(given) : Rightly(n)

\* The invariant has the pages sound.
LEMMA RecordsInvImplies == RecordsInv => PagesAreSound
<1> SUFFICES ASSUME RecordsInv PROVE PagesAreSound
  OBVIOUS
<1>1. DOMAIN given = 1..Len(given)
  BY DEF RecordsInv, RecordsTyped
<1>2. RecordsTypeOK
  BY DEF RecordsInv, RecordsTyped, RecordsTypeOK, GivenEntry
<1>3. PagesMissNothing
  <2> SUFFICES ASSUME done, ~(sql /\ crowded), NEW k \in steady
               PROVE  \E n \in DOMAIN given : given[n].id = shown[k] /\ (sql => given[n].key = k)
    BY DEF PagesMissNothing
  <2>1. PICK n \in 1..Len(given) : given[n].id = shown[k]
    BY DEF RecordsInv
  <2>2. k \in Id
    BY DEF RecordsInv, Visible
  <2>3. sql => given[n].key = k
    BY <2>1, <2>2 DEF RecordsInv
  <2> QED BY <1>1, <2>1, <2>3
<1>4. PagesRepeatNothing
  BY <1>1 DEF RecordsInv, PagesRepeatNothing, Before, Rightly
<1> QED BY <1>2, <1>3, <1>4 DEF PagesAreSound

\* A reader that has not asked yet has nothing.
LEMMA RecordsStart == RecordsInit => RecordsInv
<1> SUFFICES ASSUME RecordsInit PROVE RecordsInv
  OBVIOUS
<1>1. /\ given = <<>> /\ Len(given) = 0 /\ after = 0 /\ done = FALSE /\ deletedAt = {}
      /\ steady = Visible(Reader) /\ crowded = (Cardinality(steady) > ListCap)
      /\ owner \in [Id -> Org \cup {Nobody} \cup IF sql THEN {} ELSE {Everyone}]
      /\ shown \in [Id -> Id] /\ (sql => \A k \in Id : shown[k] = k)
      /\ confirmed = [k \in Id |-> 0]
  BY DEF RecordsInit
<1>2. Cardinality(steady) \in Nat
  BY <1>1, RecordsAssumption, FS_Subset, FS_CardinalityType DEF Visible
<1>3. ~crowded => Cardinality(Visible(Reader)) <= ListCap
  <2>1. ~(Cardinality(steady) > ListCap) => Cardinality(steady) <= ListCap
    BY <1>2, RecordsAssumption
  <2> QED BY <1>1, <2>1, Zenon
<1>4. \A k \in steady : ~(shown[k] <= 0)
  <2> TAKE k \in steady
  <2>1. shown[k] \in Id
    BY <1>1 DEF Visible
  <2>2. shown[k] \in Nat \ {0}
    BY <2>1, RecordsAssumption
  <2> QED BY <2>2
<1>5. owner \in [Id -> Org \cup {Nobody, Everyone}]
  BY <1>1
<1>6. given \in Seq(GivenEntry) /\ confirmed \in [Id -> Nat]
  BY <1>1
<1>7. RecordsTyped
  BY <1>1, <1>5, <1>6 DEF RecordsTyped
<1> QED BY <1>1, <1>3, <1>4, <1>7 DEF RecordsInv

\* What the reader was given has keys and ids of records.
LEMMA GivenIs ==
    ASSUME RecordsInv
    PROVE  \A n \in 1..Len(given) : given[n].key \in Id /\ given[n].id \in Id
<1>1. given \in Seq(GivenEntry)
  BY DEF RecordsInv, RecordsTyped
<1>2. \A n \in 1..Len(given) : given[n] \in GivenEntry
  BY <1>1
<1> QED BY <1>2 DEF GivenEntry

\* A step that leaves all records but one as they are, and the pages, has only to look at that one.
LEMMA OneChanges ==
    ASSUME RecordsInv, NEW k \in Id, RecordsTyped',
           UNCHANGED <<sql, after, done, given>>,
           \A j \in Id : j # k => /\ owner'[j] = owner[j] /\ shown'[j] = shown[j]
                                  /\ (j \in deletedAt' <=> j \in deletedAt)
                                  /\ confirmed'[j] = confirmed[j],
           moved \subseteq moved', crowded => crowded',
           sql => shown'[k] = k, steady' \subseteq steady, k \notin steady',
           ~crowded' => Cardinality(Visible(Reader)') <= ListCap,
           Owns(Reader, k) \/ confirmed[k] > 0 =>
              Owns(Reader, k)' \/ confirmed'[k] > 0 \/ k \in moved'
    PROVE  RecordsInv'
<1>1. steady' \subseteq Visible(Reader)'
  BY DEF RecordsInv, Visible, Owns
<1>2. \A m, n \in 1..Len(given) : m < n => Before(m, n)'
  BY DEF RecordsInv, Before
<1>3. ASSUME NEW n \in 1..Len(given) PROVE Rightly(n)'
  <2>1. given[n].key \in Id
    BY GivenIs
  <2>2. Rightly(n)
    BY DEF RecordsInv
  <2> QED BY <2>1, <2>2 DEF Rightly, Owns
<1>4. ~(sql /\ crowded') =>
         \A j \in steady' : done \/ shown'[j] <= after =>
             \E n \in 1..Len(given) : given[n].id = shown'[j]
  <2> SUFFICES ASSUME ~(sql /\ crowded'), NEW j \in steady', done \/ shown'[j] <= after
               PROVE  \E n \in 1..Len(given) : given[n].id = shown'[j]
    OBVIOUS
  <2>1. j \in steady /\ j \in Id /\ j # k
    BY DEF RecordsInv, Visible
  <2> QED BY <2>1 DEF RecordsInv
<1>5. sql => \A j \in Id : shown'[j] = j
  BY DEF RecordsInv
<1> QED BY <1>1, <1>2, <1>3, <1>4, <1>5 DEF RecordsInv

\* How many records a reader has is known to the history.
LEMMA CrowdIsSeen ==
    ASSUME crowded' = (crowded \/ Cardinality(Visible(Reader)') > ListCap)
    PROVE  ~crowded' => Cardinality(Visible(Reader)') <= ListCap
<1>1. Visible(Reader)' \subseteq Id
  BY DEF Visible
<1>2. Cardinality(Visible(Reader)') \in Nat
  BY <1>1, RecordsAssumption, FS_Subset, FS_CardinalityType
<1>3. ~(Cardinality(Visible(Reader)') > ListCap) => Cardinality(Visible(Reader)') <= ListCap
  BY <1>2, RecordsAssumption
<1> QED BY <1>3, Zenon

\* A record is stored under a key that nobody used: the steady ones are still there.
LEMMA StoreStep ==
    ASSUME RecordsInv, NEW k \in Id, NEW org \in Org \cup {Everyone}, NEW id \in Id,
           Stored(k, org, id), sql => id = k
    PROVE  RecordsInv'
<1>1. /\ owner[k] = Nobody /\ confirmed[k] = 0
      /\ owner' = [owner EXCEPT ![k] = org] /\ shown' = [shown EXCEPT ![k] = id]
      /\ crowded' = (crowded \/ Cardinality(Visible(Reader)') > ListCap)
      /\ UNCHANGED <<sql, deletedAt, after, done, given, steady, confirmed, moved>>
  BY DEF Stored
<1>2. RecordsTyped
  BY DEF RecordsInv
<1>3. RecordsTyped'
  BY <1>1, <1>2 DEF RecordsTyped
<1>4. ~Owns(Reader, k) /\ k \notin steady
  BY <1>1, RecordsAssumption DEF RecordsInv, Visible, Owns
<1>5. \A j \in Id : j # k => owner'[j] = owner[j] /\ shown'[j] = shown[j]
  BY <1>1, <1>2 DEF RecordsTyped
<1>6. sql => shown'[k] = k
  BY <1>1, <1>2 DEF RecordsTyped
<1>7. ~crowded' => Cardinality(Visible(Reader)') <= ListCap
  BY <1>1, CrowdIsSeen
<1> QED BY <1>1, <1>3, <1>4, <1>5, <1>6, <1>7, OneChanges

\* A record is changed: what was given of it is known to have moved.
LEMMA UpdateStep ==
    ASSUME RecordsInv, NEW org \in Org, NEW k \in Id, UpdateRecord(org, k)
    PROVE  RecordsInv'
<1>1. /\ ~sql /\ owner' = [owner EXCEPT ![k] = org] /\ shown' = [shown EXCEPT ![k] = k]
      /\ steady' = steady \ {k} /\ moved' = moved \cup {k}
      /\ crowded' = (crowded \/ Cardinality(Visible(Reader)') > ListCap)
      /\ UNCHANGED <<sql, deletedAt, after, done, given, confirmed>>
  BY DEF UpdateRecord
<1>2. RecordsTyped
  BY DEF RecordsInv
<1>3. RecordsTyped'
  BY <1>1, <1>2 DEF RecordsTyped
<1>4. \A j \in Id : j # k => owner'[j] = owner[j] /\ shown'[j] = shown[j]
  BY <1>1, <1>2 DEF RecordsTyped
<1>5. ~crowded' => Cardinality(Visible(Reader)') <= ListCap
  BY <1>1, CrowdIsSeen
<1> QED BY <1>1, <1>3, <1>4, <1>5, OneChanges

\* A record is deleted, and with it what was said of it.
LEMMA DeleteStep ==
    ASSUME RecordsInv, NEW org \in Org, NEW k \in Id, DeleteRecord(org, k)
    PROVE  RecordsInv'
<1>1. /\ IF sql THEN deletedAt' = deletedAt \cup {k} /\ owner' = owner
         ELSE owner' = [owner EXCEPT ![k] = Nobody] /\ deletedAt' = deletedAt
      /\ confirmed' = [confirmed EXCEPT ![k] = @ + 1]
      /\ steady' = steady \ {k}
      /\ UNCHANGED <<sql, shown, after, done, given, crowded, moved>>
  BY DEF DeleteRecord
<1>2. RecordsTyped
  BY DEF RecordsInv
<1>3. /\ confirmed' \in [Id -> Nat] /\ confirmed'[k] > 0
      /\ \A j \in Id : j # k => confirmed'[j] = confirmed[j]
  BY <1>1, <1>2 DEF RecordsTyped
<1>4. /\ owner' \in [Id -> Org \cup {Nobody, Everyone}]
      /\ deletedAt' \subseteq Id /\ (~sql => deletedAt' = {})
      /\ \A j \in Id : j # k => owner'[j] = owner[j] /\ (j \in deletedAt' <=> j \in deletedAt)
  BY <1>1, <1>2 DEF RecordsTyped
<1>5. RecordsTyped'
  BY <1>1, <1>2, <1>3, <1>4 DEF RecordsTyped
<1>6. ~crowded => Cardinality(Visible(Reader)') <= ListCap
  <2>1. Visible(Reader)' \subseteq Visible(Reader)
    BY <1>1, <1>2, <1>4, RecordsAssumption DEF Visible, Owns, RecordsTyped
  <2>2. IsFiniteSet(Visible(Reader))
    BY RecordsAssumption, FS_Subset DEF Visible
  <2>3. /\ Cardinality(Visible(Reader)') <= Cardinality(Visible(Reader))
        /\ Cardinality(Visible(Reader)) \in Nat /\ Cardinality(Visible(Reader)') \in Nat
    BY <2>1, <2>2, FS_Subset, FS_CardinalityType
  <2> QED BY <2>3, RecordsAssumption DEF RecordsInv
<1>7. sql => shown'[k] = k
  BY <1>1 DEF RecordsInv
<1> QED BY <1>1, <1>3, <1>4, <1>5, <1>6, <1>7, OneChanges

(***************************************************************************)
(* A page of the records that are listed, behind the cursor.               *)
(***************************************************************************)
LEMMA ListedIs ==
    ASSUME RecordsInv, NEW listed \in ListedSets
    PROVE  /\ IsFiniteSet({k \in listed : Behind(k)})
           /\ listed \subseteq Visible(Reader) /\ listed \subseteq Id
           /\ ~(sql /\ crowded) => listed = Visible(Reader)
<1>1. listed \subseteq Visible(Reader) /\ Visible(Reader) \subseteq Id
  BY DEF ListedSets, kSubset, Visible
<1>2. ~(sql /\ crowded) => listed = Visible(Reader)
  <2>1. Cardinality(Visible(Reader)) \in Nat
    BY RecordsAssumption, FS_Subset, FS_CardinalityType DEF Visible
  <2>2. ~(sql /\ crowded) => ~(sql /\ Cardinality(Visible(Reader)) > ListCap)
    BY <2>1, RecordsAssumption DEF RecordsInv
  <2> QED BY <2>2 DEF ListedSets
<1>3. {k \in listed : Behind(k)} \subseteq Id
  BY <1>1
<1> QED BY <1>1, <1>2, <1>3, RecordsAssumption, FS_Subset

\* A list in the order of the ids has every record of its set once.
LEMMA SortedIs ==
    ASSUME NEW S \in SUBSET Id, IsFiniteSet(S), NEW items \in ByShownId(S)
    PROVE  /\ items \in Seq(S) /\ Len(items) \in Nat
           /\ \A m, n \in 1..Len(items) :
                 m < n => shown[items[m]] <= shown[items[n]] /\ items[m] # items[n]
           /\ \A x \in S : \E n \in 1..Len(items) : items[n] = x
<1>1. PICK c \in Nat : c = Cardinality(S)
  BY FS_CardinalityType
<1>2. /\ items \in [1..c -> S] /\ (\A m, n \in 1..c : m # n => items[m] # items[n])
      /\ \A m, n \in 1..c : m < n => shown[items[m]] <= shown[items[n]]
  BY <1>1 DEF ByShownId, SetToSeqs
<1>3. items \in Seq(S) /\ Len(items) = c
  BY <1>2
<1>4. items \in Injection(1..c, S)
  <2>1. \A m, n \in 1..c : items[m] = items[n] => m = n
    BY <1>2, Zenon
  <2>2. DOMAIN items = 1..c
    BY <1>2
  <2> QED BY <1>2, <2>1, <2>2, Zenon DEF Injection, IsInjective
<1>5. Cardinality(1..c) = c
  BY FS_Interval
<1>6. items \in Surjection(1..c, S)
  BY <1>1, <1>4, <1>5, FS_Injection
<1>7. \A x \in S : \E n \in 1..c : items[n] = x
  BY <1>6 DEF Surjection
<1> QED BY <1>2, <1>3, <1>7

\* A sequence over a set is one over a larger set.
LEMMA SeqOfMore ==
    ASSUME NEW S, NEW T, S \subseteq T, NEW q \in Seq(S)
    PROVE  q \in Seq(T)
OBVIOUS

\* One sequence behind another.
LEMMA Concatenated ==
    ASSUME NEW S, NEW p \in Seq(S), NEW q \in Seq(S), NEW r, r = p \o q
    PROVE  /\ r \in Seq(S) /\ Len(r) = Len(p) + Len(q)
           /\ \A i \in 1..Len(p) + Len(q) : r[i] = IF i <= Len(p) THEN p[i] ELSE q[i - Len(p)]
<1>1. /\ p \o q \in Seq(S) /\ Len(p \o q) = Len(p) + Len(q)
      /\ \A i \in 1..Len(p) + Len(q) :
            (p \o q)[i] = IF i <= Len(p) THEN p[i] ELSE q[i - Len(p)]
  BY ConcatProperties
<1> QED BY <1>1

\* The page behind what was given.
Page(items, size) == [n \in 1..size |-> [key |-> items[n], id |-> shown[items[n]]]]
Turned(items, size) == given \o Page(items, size)
LEMMA TurnedIs ==
    ASSUME RecordsTyped, NEW items \in Seq(Id), NEW size \in 0..Len(items)
    PROVE  /\ Turned(items, size) \in Seq(GivenEntry) /\ Len(Turned(items, size)) = Len(given) + size
           /\ \A n \in 1..Len(given) : Turned(items, size)[n] = given[n]
           /\ \A n \in 1..size : /\ Turned(items, size)[Len(given) + n].key = items[n]
                                 /\ Turned(items, size)[Len(given) + n].id = shown[items[n]]
<1> PICK page : page = Page(items, size)
  OBVIOUS
<1>1. /\ page \in Seq(GivenEntry) /\ Len(page) = size
      /\ \A n \in 1..size : page[n].key = items[n] /\ page[n].id = shown[items[n]]
  <2>1. \A n \in 1..size : items[n] \in Id /\ shown[items[n]] \in Id
    BY DEF RecordsTyped
  <2>2. \A n \in 1..size : page[n] = [key |-> items[n], id |-> shown[items[n]]]
    BY DEF Page
  <2>3. \A n \in 1..size : page[n] \in GivenEntry
    <3> TAKE n \in 1..size
    <3>1. PICK x \in Id, y \in Id : x = items[n] /\ y = shown[items[n]]
      BY <2>1
    <3>2. page[n] = [key |-> x, id |-> y]
      BY <2>2, <3>1
    <3> QED BY <3>2 DEF GivenEntry
  <2>4. page \in [1..size -> GivenEntry] /\ size \in Nat
    <3>1. page = [n \in 1..size |-> [key |-> items[n], id |-> shown[items[n]]]]
      BY DEF Page
    <3>2. \A n \in 1..size : [key |-> items[n], id |-> shown[items[n]]] \in GivenEntry
      BY <2>2, <2>3
    <3> QED BY <3>1, <3>2
  <2> QED BY <2>2, <2>4
<1>2. given \in Seq(GivenEntry)
  BY DEF RecordsTyped
<1>3. PICK r : r = given \o page
  OBVIOUS
<1>4. /\ r \in Seq(GivenEntry) /\ Len(r) = Len(given) + Len(page)
      /\ \A i \in 1..Len(given) + Len(page) :
            r[i] = IF i <= Len(given) THEN given[i] ELSE page[i - Len(given)]
  <2>1. page \in Seq(GivenEntry)
    BY <1>1
  <2> QED BY <1>2, <1>3, <2>1, Concatenated
<1>5. PICK a \in Nat : a = Len(given)
  BY <1>2
<1>6. /\ Len(r) = a + size
      /\ \A i \in 1..a + size : r[i] = IF i <= a THEN given[i] ELSE page[i - a]
  BY <1>1, <1>4, <1>5
<1>7. ASSUME NEW k \in 1..a PROVE r[k] = given[k]
  <2>1. k \in 1..a + size /\ k <= a
    OBVIOUS
  <2> QED BY <1>6, <2>1
<1>8. ASSUME NEW k \in 1..size PROVE r[a + k] = page[k]
  <2>1. PICK i \in 1..a + size : i = a + k
    OBVIOUS
  <2>2. ~ (i <= a) /\ i - a = k
    BY <2>1
  <2>3. r[i] = page[k]
    BY <1>6, <2>2
  <2> QED BY <2>1, <2>3
<1>9. Turned(items, size) = r
  BY <1>3 DEF Turned
<1> QED BY <1>1, <1>4, <1>5, <1>6, <1>7, <1>8, <1>9

\* A page keeps the order, and ends at the cursor or at the end of the list.
LEMMA ReadStep ==
    ASSUME RecordsInv, NEW limit \in PageLimits, ReadPage(limit)
    PROVE  RecordsInv'
<1>1. PICK listed \in ListedSets : \E items \in ByShownId({k \in listed : Behind(k)}) :
          LET size == Min({Max({limit, 1}), 100, Len(items)})
              hasMore == Len(items) > size
          IN  /\ given' = given \o [n \in 1..size |-> [key |-> items[n], id |-> shown[items[n]]]]
              /\ done' = ~hasMore
              /\ after' = IF hasMore THEN CursorOf(items, size) ELSE after
  BY DEF ReadPage
<1>a. PICK rest : rest = {k \in listed : Behind(k)}
  OBVIOUS
<1>b. PICK items \in ByShownId(rest) :
          LET size == Min({Max({limit, 1}), 100, Len(items)})
              hasMore == Len(items) > size
          IN  /\ given' = given \o [n \in 1..size |-> [key |-> items[n], id |-> shown[items[n]]]]
              /\ done' = ~hasMore
              /\ after' = IF hasMore THEN CursorOf(items, size) ELSE after
  BY <1>1, <1>a
<1>c. PICK size : size = Min({Max({limit, 1}), 100, Len(items)})
  OBVIOUS
<1>2. /\ given' = Turned(items, size)
      /\ (done' => ~(Len(items) > size)) /\ (~done' => Len(items) > size)
      /\ after' = IF Len(items) > size THEN shown[items[size]] ELSE after
  BY <1>b, <1>c DEF Turned, Page, CursorOf
<1>3. ~done /\ UNCHANGED <<sql, owner, shown, deletedAt, steady, crowded, confirmed, moved>>
  BY DEF ReadPage
<1>f. RecordsTyped
  BY DEF RecordsInv
<1>4. /\ IsFiniteSet(rest) /\ listed \subseteq Visible(Reader) /\ rest \in SUBSET Id
      /\ \A k \in rest : shown[k] > after /\ k \in Visible(Reader)
      /\ ~(sql /\ crowded) => \A k \in Visible(Reader) : shown[k] > after => k \in rest
  BY <1>a, ListedIs DEF Behind
<1>5. /\ items \in Seq(rest) /\ Len(items) \in Nat
      /\ \A m, n \in 1..Len(items) :
            m < n => shown[items[m]] <= shown[items[n]] /\ items[m] # items[n]
      /\ \A x \in rest : \E n \in 1..Len(items) : items[n] = x
  BY <1>4, <1>b, SortedIs
<1> PICK n \in Nat : n = Len(items)
  BY <1>5
<1> PICK a \in Nat : a = Len(given)
  BY <1>f DEF RecordsTyped
<1>6. size \in 0..n /\ (n > 0 => size >= 1) /\ size \in Nat
  <2>1. limit \in Int
    BY RecordsAssumption
  <2>2. size \in 0..n /\ (n > 0 => size >= 1)
    BY <1>c, <2>1, PageSizeIs
  <2> QED BY <2>2
<1>7. /\ items \in Seq(Id)
      /\ \A k \in 1..n : /\ items[k] \in rest /\ items[k] \in Id
                         /\ shown[items[k]] \in Id /\ shown[items[k]] \in Nat
  <2>1. \A k \in 1..n : items[k] \in rest
    BY <1>5
  <2>2. items \in Seq(Id)
    BY <1>4, <1>5, SeqOfMore
  <2>3. \A k \in Id : shown[k] \in Id /\ shown[k] \in Nat
    BY <1>f, RecordsAssumption DEF RecordsTyped
  <2> QED BY <1>4, <2>1, <2>2, <2>3
<1>8. /\ given' \in Seq(GivenEntry) /\ Len(given') = a + size
      /\ \A k \in 1..a : given'[k] = given[k]
      /\ \A k \in 1..size : given'[a + k].key = items[k] /\ given'[a + k].id = shown[items[k]]
  BY <1>2, <1>6, <1>7, <1>f, TurnedIs
<1>9. \A k \in 1..a + size :
         \/ k \in 1..a /\ given'[k] = given[k]
         \/ \E i \in 1..size : k = a + i /\ given'[k].key = items[i] /\ given'[k].id = shown[items[i]]
  <2> SUFFICES ASSUME NEW k \in 1..a + size, k \notin 1..a
               PROVE  \E i \in 1..size : /\ k = a + i /\ given'[k].key = items[i]
                                         /\ given'[k].id = shown[items[i]]
    BY <1>8
  <2>1. PICK i \in 1..size : k = a + i
    <3>1. k - a \in 1..size /\ k = a + (k - a)
      BY <1>6
    <3> QED BY <3>1
  <2> QED BY <1>8, <2>1
<1>10. after \in Nat /\ after' \in Id \cup {0} /\ after' \in Nat /\ after <= after'
  <2>1. after \in Id \cup {0} /\ after \in Nat
    BY <1>f, RecordsAssumption DEF RecordsTyped
  <2>2. CASE n > size
    <3>1. size \in 1..n /\ after' = shown[items[size]]
      BY <1>2, <1>6, <2>2
    <3>2. /\ items[size] \in rest /\ shown[items[size]] \in Id
          /\ shown[items[size]] \in Nat
      BY <1>7, <3>1
    <3>3. shown[items[size]] > after
      BY <1>4, <3>2
    <3>4. PICK m \in Nat : m = shown[items[size]] /\ m > after
      BY <3>2, <3>3
    <3> QED BY <2>1, <3>1, <3>2, <3>4
  <2>3. CASE ~(n > size)
    <3>1. after' = after
      BY <1>2, <2>3
    <3> QED BY <2>1, <3>1
  <2> QED BY <2>2, <2>3
<1>d. \A k \in 1..a : given[k].id \in Nat /\ given[k].id <= after
  <2>1. \A k \in 1..a : given[k].id \in Id /\ given[k].id <= after
    <3>1. \A k \in 1..a : given[k].id \in Id
      BY <1>3, GivenIs
    <3>2. \A k \in 1..Len(given) : given[k].id <= after
      BY <1>3, <1>f DEF RecordsInv
    <3> QED BY <1>3, <3>1, <3>2
  <2> QED BY <2>1, RecordsAssumption
<1>e. \A i, j \in 1..n :
         i < j => shown[items[i]] <= shown[items[j]] /\ items[i] # items[j]
  BY <1>5
<1>g. \A i, j \in 1..n : i <= j => shown[items[i]] <= shown[items[j]]
  <2> TAKE i, j \in 1..n
  <2>1. CASE i = j
    BY <1>7, <2>1
  <2>2. CASE i # j
    BY <1>e, <2>2
  <2> QED BY <2>1, <2>2
<1>h. sql => \A k \in Id : shown[k] = k
  BY DEF RecordsInv
<1>11. \A k, l \in 1..Len(given') : k < l => Before(k, l)'
  <2> SUFFICES ASSUME NEW k \in 1..a + size, NEW l \in 1..a + size, k < l
               PROVE  \/ given'[k].id < given'[l].id
                      \/ ~sql /\ given'[k].id = given'[l].id /\ given'[k].key # given'[l].key
    BY <1>3, <1>8 DEF Before
  <2>1. CASE k \in 1..a /\ l \in 1..a
    BY <1>8, <2>1 DEF RecordsInv, Before
  <2>2. CASE k \in 1..a /\ l \notin 1..a
    <3>1. PICK j \in 1..size : given'[l].id = shown[items[j]] /\ j \in 1..n
      BY <1>6, <1>9, <2>2
    <3>2. shown[items[j]] > after /\ shown[items[j]] \in Nat
      BY <1>4, <1>7, <3>1
    <3>3. given'[k].id \in Nat /\ given'[k].id <= after
      BY <1>8, <1>d, <2>2
    <3> QED BY <1>10, <3>1, <3>2, <3>3
  <2>3. CASE k \notin 1..a
    <3>1. PICK i \in 1..size : k = a + i /\ given'[k].key = items[i] /\ given'[k].id = shown[items[i]]
      BY <1>9, <2>3
    <3>2. l \notin 1..a
      BY <3>1
    <3>3. PICK j \in 1..size : l = a + j /\ given'[l].key = items[j] /\ given'[l].id = shown[items[j]]
      BY <1>9, <3>2
    <3>4. i \in 1..n /\ j \in 1..n /\ i < j
      BY <1>6, <3>1, <3>3
    <3>5. /\ shown[items[i]] <= shown[items[j]] /\ items[i] # items[j]
          /\ shown[items[i]] \in Nat /\ shown[items[j]] \in Nat
          /\ items[i] \in Id /\ items[j] \in Id
      BY <1>7, <1>e, <3>4
    <3>6. sql => shown[items[i]] # shown[items[j]]
      BY <1>h, <3>5
    <3> QED BY <3>1, <3>3, <3>5, <3>6
  <2> QED BY <2>1, <2>2, <2>3
<1>12. ~done' => \A k \in 1..Len(given') : given'[k].id <= after'
  <2> SUFFICES ASSUME n > size, NEW k \in 1..a + size PROVE given'[k].id <= after'
    BY <1>2, <1>8
  <2>0. size \in 1..n /\ after' = shown[items[size]]
    BY <1>2, <1>6
  <2>1. CASE k \in 1..a
    BY <1>8, <1>10, <1>d, <2>1
  <2>2. CASE k \notin 1..a
    <3>1. PICK i \in 1..size : given'[k].id = shown[items[i]] /\ i \in 1..n /\ i <= size
      BY <1>6, <1>9, <2>2
    <3> QED BY <1>g, <2>0, <3>1
  <2> QED BY <2>1, <2>2
<1>13. ~(sql /\ crowded) =>
          \A k \in steady : done' \/ shown[k] <= after' =>
              \E m \in 1..Len(given') : given'[m].id = shown[k]
  <2> SUFFICES ASSUME ~(sql /\ crowded), NEW k \in steady, done' \/ shown[k] <= after'
               PROVE  \E m \in 1..a + size : given'[m].id = shown[k]
    BY <1>8
  <2>0. k \in Visible(Reader) /\ shown[k] \in Nat
    <3>1. k \in Visible(Reader) /\ k \in Id
      BY DEF RecordsInv, Visible
    <3>2. shown[k] \in Id
      BY <1>f, <3>1 DEF RecordsTyped
    <3> QED BY <3>1, <3>2, RecordsAssumption
  <2>1. CASE shown[k] <= after
    <3>1. PICK m \in 1..a : given[m].id = shown[k]
      BY <2>1 DEF RecordsInv
    <3>2. m \in 1..a + size
      BY <1>6
    <3> QED BY <1>8, <3>1, <3>2
  <2>2. CASE shown[k] > after
    <3>1. PICK m \in 1..n : items[m] = k
      BY <1>4, <1>5, <2>0, <2>2
    <3>2. CASE m <= size
      <4>1. m \in 1..size /\ a + m \in 1..a + size
        BY <1>6, <3>1, <3>2
      <4> QED BY <1>8, <3>1, <4>1
    <3>3. CASE ~(m <= size)
      <4>1. n > size /\ size \in 1..n /\ size < m
        BY <1>6, <3>1, <3>3
      <4>2. after' = shown[items[size]] /\ ~done'
        BY <1>2, <4>1
      <4>3. shown[items[size]] <= shown[k] /\ shown[k] <= after'
        BY <1>e, <3>1, <4>1, <4>2
      <4>4. shown[items[size]] = shown[k]
        BY <1>7, <2>0, <4>1, <4>2, <4>3
      <4>5. size \in 1..size /\ a + size \in 1..a + size
        BY <4>1
      <4> QED BY <1>8, <4>4, <4>5
    <3> QED BY <3>2, <3>3
  <2> QED BY <1>10, <2>0, <2>1, <2>2
<1>14. \A k \in 1..Len(given') : Rightly(k)'
  <2> SUFFICES ASSUME NEW k \in 1..a + size
               PROVE  \/ Owns(Reader, given'[k].key) \/ confirmed[given'[k].key] > 0
                      \/ given'[k].key \in moved
    BY <1>3, <1>8 DEF Rightly, Owns
  <2>1. CASE k \in 1..a
    BY <1>8, <2>1 DEF RecordsInv, Rightly
  <2>2. CASE k \notin 1..a
    <3>1. PICK i \in 1..size : given'[k].key = items[i] /\ i \in 1..n
      BY <1>6, <1>9, <2>2
    <3> QED BY <1>4, <1>7, <3>1 DEF Visible
  <2> QED BY <2>1, <2>2
<1>15. sql => \A k \in 1..Len(given') : given'[k].key = given'[k].id
  <2> SUFFICES ASSUME sql, NEW k \in 1..a + size PROVE given'[k].key = given'[k].id
    BY <1>8
  <2>1. CASE k \in 1..a
    BY <1>8, <2>1 DEF RecordsInv
  <2>2. CASE k \notin 1..a
    <3>1. PICK i \in 1..size : given'[k].key = items[i] /\ given'[k].id = shown[items[i]]
      BY <1>9, <2>2
    <3>i. i \in 1..n
      BY <1>6, <3>1
    <3>2. items[i] \in Id
      BY <1>7, <3>i
    <3> QED BY <1>h, <3>1, <3>2
  <2> QED BY <2>1, <2>2
<1>16. RecordsTyped'
  BY <1>3, <1>8, <1>10, <1>f DEF RecordsTyped
<1>17. Visible(Reader)' = Visible(Reader)
  BY <1>3 DEF Visible, Owns
<1>18. steady' \subseteq Visible(Reader)' /\ (~crowded' => Cardinality(Visible(Reader)') <= ListCap)
  BY <1>3, <1>17 DEF RecordsInv
<1>19. sql' => \A k \in Id : shown'[k] = k
  BY <1>3, <1>h
<1> QED BY <1>3, <1>11, <1>12, <1>13, <1>14, <1>15, <1>16, <1>18, <1>19 DEF RecordsInv

LEMMA NoChange ==
    ASSUME RecordsInv, UNCHANGED recordVars PROVE RecordsInv'
<1>1. /\ sql' = sql /\ owner' = owner /\ shown' = shown /\ deletedAt' = deletedAt
      /\ after' = after /\ done' = done /\ given' = given /\ steady' = steady
      /\ crowded' = crowded /\ confirmed' = confirmed /\ moved' = moved
  BY DEF recordVars
<1>2. RecordsTyped'
  BY <1>1 DEF RecordsInv, RecordsTyped
<1>3. Visible(Reader)' = Visible(Reader)
  BY <1>1 DEF Visible, Owns
<1>4. \A m, n \in 1..Len(given') : m < n => Before(m, n)'
  BY <1>1 DEF RecordsInv, Before
<1>5. \A n \in 1..Len(given') : Rightly(n)'
  BY <1>1 DEF RecordsInv, Rightly, Owns
<1> QED BY <1>1, <1>2, <1>3, <1>4, <1>5 DEF RecordsInv

(***************************************************************************)
(* A reader that turns the pages misses the id of no record that was there *)
(* all the time, if its tenant never has more than the store lists, and is *)
(* given none twice but for records of the memory store that share one,    *)
(* and no record of others, for any tenants, records, limits and requests  *)
(* of others in between (list, create, update, delete, _select_page).      *)
(***************************************************************************)
THEOREM PagesStaySound == RecordsSpec => []PagesAreSound
<1>1. RecordsInv /\ [RecordsNext]_recordVars => RecordsInv'
  <2> SUFFICES ASSUME RecordsInv, [RecordsNext]_recordVars PROVE RecordsInv'
    OBVIOUS
  <2>1. CASE UNCHANGED recordVars
    BY <2>1, NoChange
  <2>2. ASSUME NEW org \in Org, NEW k \in Id, CreateRecord(org, k) PROVE RecordsInv'
    BY <2>2, StoreStep DEF CreateRecord
  <2>3. ASSUME NEW k \in Id, RegisterOrganization(k) PROVE RecordsInv'
    BY <2>3, StoreStep DEF RegisterOrganization
  <2> QED BY <2>1, <2>2, <2>3, UpdateStep, DeleteStep, ReadStep DEF RecordsNext
<1> QED BY <1>1, RecordsStart, RecordsInvImplies, PTL DEF RecordsSpec

(***************************************************************************)
(* SiteCrawl.  The queue is in the order of its depths, which differ by    *)
(* one at most; what is within reach over the pages that answered was      *)
(* seen, or waits at a depth that is not greater than its distance.        *)
(***************************************************************************)
Place == Web \X (0..DepthCap)
IsQueued(q, u) == \E i \in 1..Len(q) : q[i][1] = u
IsQueuedBy(q, u, n) == \E i \in 1..Len(q) : q[i][1] = u /\ q[i][2] <= n

LevelsRise(q) ==
    \A i, j \in 1..Len(q) : i <= j => q[i][2] <= q[j][2] /\ q[j][2] <= q[1][2] + 1
LinksWait(q, seen, A) ==
    (q # <<>> /\ q[1][2] < DepthCap) =>
        \A x \in A : \A y \in ToSet(Hrefs[x]) : y \in seen \/ IsQueued(q, y)
NearIsKnown(q, seen, A) ==
    \A n \in 0..DepthCap : \A u \in Within(A, n) : u \in seen \/ IsQueuedBy(q, u, n)
KnownIsNear(q, seen, A) ==
    /\ seen \subseteq Within(A, DepthCap)
    /\ \A i \in 1..Len(q) : q[i][1] \in Within(A, q[i][2])
InBreadth(q, seen, A) ==
    /\ LevelsRise(q) /\ LinksWait(q, seen, A)
    /\ NearIsKnown(q, seen, A) /\ KnownIsNear(q, seen, A)

SiteTyped ==
    /\ pageCap \in Nat /\ siteQueue \in Seq(Place)
    /\ pagesFound \in Seq(Web \X {"page", "unreachable"})
    /\ siteSeen \subseteq Web /\ IsFiniteSet(siteSeen)
VisitsAreCounted ==
    /\ siteSeen = {pagesFound[i][1] : i \in DOMAIN pagesFound}
    /\ Len(pagesFound) = Cardinality(siteSeen) /\ Len(pagesFound) <= pageCap
EndsInTime == crawlStatus = "completed" => siteQueue = <<>> \/ Len(pagesFound) >= pageCap

SiteInv ==
    /\ SiteTyped /\ VisitsAreCounted /\ EndsInTime
    /\ InBreadth(siteQueue, siteSeen, AnsweredUrls)

\* Links are urls of the origin.
LEMMA LinksAre ==
    \A x \in Web : /\ Hrefs[x] \in Seq(Web) /\ ToSet(Hrefs[x]) \subseteq Web
                   /\ DOMAIN Hrefs[x] = 1..Len(Hrefs[x]) /\ Len(Hrefs[x]) \in Nat
BY SiteAssumption DEF ToSet

\* What is within reach, and how it grows.
LEMMA SeedIsNear ==
    ASSUME NEW A, NEW n \in Nat
    PROVE  SeedUrl \in Within(A, n)
<1>1. PICK path : path = [i \in 0..0 |-> SeedUrl]
  OBVIOUS
<1>2. path \in [0..0 -> Web] /\ path[0] = SeedUrl
  BY <1>1, SiteAssumption
<1>3. Leads(path, 0, SeedUrl, A)
  BY <1>2 DEF Leads
<1>4. 0 \in 0..n
  OBVIOUS
<1> QED BY <1>2, <1>3, <1>4, SiteAssumption DEF Within

LEMMA ReachGrows ==
    ASSUME NEW A, NEW B, A \subseteq B, NEW n \in Nat, NEW m \in Nat, n <= m
    PROVE  Within(A, n) \subseteq Within(B, m)
<1> SUFFICES ASSUME NEW u \in Within(A, n) PROVE u \in Within(B, m)
  OBVIOUS
<1>1. PICK k \in 0..n : \E path \in [0..k -> Web] : Leads(path, k, u, A)
  BY DEF Within
<1>2. PICK path \in [0..k -> Web] : Leads(path, k, u, A)
  BY <1>1
<1>3. Leads(path, k, u, B)
  BY <1>2 DEF Leads
<1>4. k \in 0..m /\ u \in Web
  BY DEF Within
<1> QED BY <1>2, <1>3, <1>4 DEF Within

LEMMA OneLinkMore ==
    ASSUME NEW A, NEW n \in Nat, NEW x \in Within(A, n), x \in A, NEW y \in ToSet(Hrefs[x])
    PROVE  y \in Within(A, n + 1)
<1>1. PICK k \in 0..n : \E path \in [0..k -> Web] : Leads(path, k, x, A)
  BY DEF Within
<1>2. PICK path \in [0..k -> Web] : Leads(path, k, x, A)
  BY <1>1
<1>3. x \in Web /\ y \in Web
  BY LinksAre DEF Within
<1>4. PICK longer : longer = [i \in 0..k + 1 |-> IF i = k + 1 THEN y ELSE path[i]]
  OBVIOUS
<1>5. k \in Nat /\ k + 1 \in 0..n + 1 /\ k + 1 - 1 = k
  OBVIOUS
<1>6. longer \in [0..k + 1 -> Web] /\ longer[k + 1] = y /\ \A i \in 0..k : longer[i] = path[i]
  BY <1>3, <1>4, <1>5
<1>7. path[0] = SeedUrl /\ path[k] = x
      /\ \A i \in 0..k - 1 : path[i] \in A /\ path[i + 1] \in ToSet(Hrefs[path[i]])
  BY <1>2 DEF Leads
<1>8. longer[0] = SeedUrl
  BY <1>5, <1>6, <1>7
<1>9. ASSUME NEW i \in 0..k PROVE longer[i] \in A /\ longer[i + 1] \in ToSet(Hrefs[longer[i]])
  <2>1. CASE i = k
    BY <1>5, <1>6, <1>7, <2>1
  <2>2. CASE i # k
    <3>1. i \in 0..k - 1 /\ i + 1 \in 0..k
      BY <1>5, <2>2
    <3> QED BY <1>6, <1>7, <3>1
  <2> QED BY <2>1, <2>2
<1>10. Leads(longer, k + 1, y, A)
  BY <1>5, <1>6, <1>8, <1>9 DEF Leads
<1> QED BY <1>3, <1>5, <1>6, <1>10 DEF Within

\* A page more: the first time that a path passes it, it has come over the others.
LEMMA NewPath ==
    ASSUME NEW A, NEW x, NEW B, B \subseteq A \cup {x}, NEW n \in Nat, NEW v \in Within(B, n)
    PROVE  \/ v \in Within(A, n)
           \/ \E k \in 0..n - 1 : x \in Within(A, k) /\ \E y \in B : v \in ToSet(Hrefs[y])
<1>1. PICK m \in 0..n : \E path \in [0..m -> Web] : Leads(path, m, v, B)
  BY DEF Within
<1>2. PICK path \in [0..m -> Web] : Leads(path, m, v, B)
  BY <1>1
<1>3. /\ path[0] = SeedUrl /\ path[m] = v /\ v \in Web
      /\ \A i \in 0..m - 1 : path[i] \in B /\ path[i + 1] \in ToSet(Hrefs[path[i]])
  BY <1>2 DEF Leads, Within
<1> DEFINE passes == {i \in 0..m - 1 : path[i] = x}
<1>4. CASE passes = {}
  <2>1. \A i \in 0..m - 1 : path[i] \in A
    BY <1>3, <1>4
  <2>2. Leads(path, m, v, A)
    BY <1>3, <2>1 DEF Leads
  <2> QED BY <1>2, <1>3, <2>2 DEF Within
<1>5. CASE passes # {}
  <2>1. passes \in SUBSET Nat
    OBVIOUS
  <2>2. PICK k \in passes : \A j \in passes : k <= j
    BY <1>5, <2>1, FirstExists
  <2>3. k \in 0..m - 1 /\ path[k] = x /\ k \in Nat /\ k \in 0..n - 1 /\ m \in Nat
    BY <2>2
  <2>4. PICK start : start = [i \in 0..k |-> path[i]]
    OBVIOUS
  <2>5. start \in [0..k -> Web] /\ \A i \in 0..k : start[i] = path[i]
    BY <2>3, <2>4
  <2>6. ASSUME NEW i \in 0..k - 1 PROVE start[i] \in A /\ start[i + 1] \in ToSet(Hrefs[start[i]])
    <3>1. i \in 0..m - 1 /\ i \in 0..k /\ i + 1 \in 0..k /\ ~(k <= i)
      BY <2>3
    <3>2. path[i] # x
      BY <2>2, <3>1
    <3> QED BY <1>3, <2>5, <3>1, <3>2
  <2>7. Leads(start, k, x, A)
    BY <1>3, <2>3, <2>5, <2>6 DEF Leads
  <2>8. x \in Web /\ k \in 0..k
    BY <1>2, <2>3
  <2>9. x \in Within(A, k)
    BY <2>5, <2>7, <2>8 DEF Within
  <2>10. path[m - 1] \in B /\ v \in ToSet(Hrefs[path[m - 1]])
    <3>1. m - 1 \in 0..m - 1 /\ m - 1 + 1 = m
      BY <2>3
    <3> QED BY <1>3, <3>1
  <2> QED BY <2>3, <2>9, <2>10
<1> QED BY <1>4, <1>5

\* What the loop makes of its queue: the head gives way to what goes behind the others.
Moved(q, more, p) ==
    /\ p \in Seq(Place)
    /\ \A i \in 1..Len(p) : \/ i \in 1..Len(q) - 1 /\ p[i] = q[i + 1]
                            \/ /\ i > Len(q) - 1 /\ i - (Len(q) - 1) \in 1..Len(more)
                               /\ p[i] = more[i - (Len(q) - 1)]
    /\ \A j \in 1..Len(q) : j > 1 => \E i \in 1..Len(p) : p[i] = q[j]
    /\ \A j \in 1..Len(more) : \E i \in 1..Len(p) : p[i] = more[j]

LEMMA QueueMoves ==
    ASSUME NEW q \in Seq(Place), q # <<>>, NEW more \in Seq(Place)
    PROVE  Moved(q, more, Tail(q) \o more)
<1> PICK p : p = Tail(q) \o more
  OBVIOUS
<1>1. Len(q) \in Nat \ {0} /\ Len(more) \in Nat
  <2>1. Len(q) \in Nat /\ Len(more) \in Nat
    OBVIOUS
  <2>2. Len(q) # 0
    BY EmptySeq, Zenon
  <2> QED BY <2>1, <2>2
<1>2. /\ Tail(q) \in Seq(Place) /\ Len(Tail(q)) = Len(q) - 1
      /\ \A i \in 1..Len(q) - 1 : Tail(q)[i] = q[i + 1]
  BY <1>1
<1>3. /\ p \in Seq(Place) /\ Len(p) = Len(Tail(q)) + Len(more)
      /\ \A i \in 1..Len(Tail(q)) + Len(more) :
            p[i] = IF i <= Len(Tail(q)) THEN Tail(q)[i] ELSE more[i - Len(Tail(q))]
  BY <1>2, ConcatProperties, Zenon
<1>4. ASSUME NEW i \in 1..Len(p)
      PROVE  \/ i \in 1..Len(q) - 1 /\ p[i] = q[i + 1]
             \/ /\ i > Len(q) - 1 /\ i - (Len(q) - 1) \in 1..Len(more)
                /\ p[i] = more[i - (Len(q) - 1)]
  BY <1>1, <1>2, <1>3
<1>5. ASSUME NEW j \in 1..Len(q), j > 1 PROVE \E i \in 1..Len(p) : p[i] = q[j]
  <2>1. j - 1 \in 1..Len(p) /\ j - 1 \in 1..Len(q) - 1 /\ j - 1 <= Len(Tail(q)) /\ j - 1 + 1 = j
    BY <1>1, <1>2, <1>3, <1>5
  <2>2. p[j - 1] = Tail(q)[j - 1]
    BY <1>3, <2>1
  <2> QED BY <1>2, <2>1, <2>2
<1>6. ASSUME NEW j \in 1..Len(more) PROVE \E i \in 1..Len(p) : p[i] = more[j]
  <2>1. PICK i : i = Len(Tail(q)) + j
    OBVIOUS
  <2>2. i \in 1..Len(Tail(q)) + Len(more) /\ ~(i <= Len(Tail(q))) /\ i - Len(Tail(q)) = j
    BY <1>1, <1>2, <2>1
  <2> QED BY <1>3, <2>2
<1> QED BY <1>3, <1>4, <1>5, <1>6 DEF Moved

LEMMA TailMoves ==
    ASSUME NEW q \in Seq(Place), q # <<>>
    PROVE  Moved(q, <<>>, Tail(q))
<1>1. <<>> \in Seq(Place) /\ Tail(q) \in Seq(Place)
  BY HeadTailProperties
<1>2. Tail(q) \o <<>> = Tail(q)
  BY <1>1, ConcatEmptySeq
<1>3. Moved(q, <<>>, Tail(q) \o <<>>)
  BY <1>1, QueueMoves, Zenon
<1> QED BY <1>2, <1>3

\* GivenEntry are urls at depths.
LEMMA PlaceIs ==
    ASSUME NEW q \in Seq(Place)
    PROVE  \A i \in 1..Len(q) : /\ q[i] \in Place /\ q[i] = <<q[i][1], q[i][2]>>
                                /\ q[i][1] \in Web /\ q[i][2] \in 0..DepthCap
BY DEF Place

\* What was waiting waits or was seen, and the others are one level deeper.
LEMMA StillKnown ==
    ASSUME NEW q \in Seq(Place), q # <<>>, NEW more \in Seq(Place), NEW p, Moved(q, more, p),
           NEW x, x = q[1][1], NEW u, NEW n
    PROVE  /\ IsQueuedBy(q, u, n) => u = x \/ IsQueuedBy(p, u, n)
           /\ IsQueued(q, u) => u = x \/ IsQueued(p, u)
           /\ IsQueuedBy(more, u, n) => IsQueuedBy(p, u, n)
           /\ IsQueued(more, u) => IsQueued(p, u)
<1>1. /\ \A j \in 1..Len(q) : j = 1 \/ \E i \in 1..Len(p) : p[i] = q[j]
      /\ \A j \in 1..Len(more) : \E i \in 1..Len(p) : p[i] = more[j]
  <2>1. \A j \in 1..Len(q) : j > 1 => \E i \in 1..Len(p) : p[i] = q[j]
    BY Zenon DEF Moved
  <2>2. \A j \in 1..Len(q) : j = 1 \/ j > 1
    OBVIOUS
  <2>3. \A j \in 1..Len(more) : \E i \in 1..Len(p) : p[i] = more[j]
    BY Zenon DEF Moved
  <2> QED BY <2>1, <2>2, <2>3, Zenon
<1>2. IsQueuedBy(q, u, n) => u = x \/ IsQueuedBy(p, u, n)
  BY <1>1 DEF IsQueuedBy
<1>3. IsQueued(q, u) => u = x \/ IsQueued(p, u)
  BY <1>1 DEF IsQueued
<1>4. IsQueuedBy(more, u, n) => IsQueuedBy(p, u, n)
  BY <1>1 DEF IsQueuedBy
<1>5. IsQueued(more, u) => IsQueued(p, u)
  BY <1>1 DEF IsQueued
<1> QED BY <1>2, <1>3, <1>4, <1>5

\* The head x was seen, or is now; if its page answered, its links wait one level deeper.
Visited(q, seen, A, x, d, more, B) ==
    /\ A \subseteq B /\ B \subseteq A \cup {x} /\ (x \in B \ A => x \notin seen)
    /\ \A i \in 1..Len(more) : more[i][1] \in ToSet(Hrefs[x]) /\ more[i][2] = d + 1 /\ x \in B
    /\ (x \in B \ A /\ d < DepthCap) =>
          \A y \in ToSet(Hrefs[x]) : y \in seen \cup {x} \/ IsQueued(more, y)

LEMMA BreadthStep ==
    ASSUME NEW q \in Seq(Place), q # <<>>, NEW seen, NEW A, InBreadth(q, seen, A),
           NEW x, x = q[1][1], NEW d, d = q[1][2], NEW more \in Seq(Place),
           NEW p, Moved(q, more, p), NEW B, Visited(q, seen, A, x, d, more, B)
    PROVE  InBreadth(p, seen \cup {x}, B)
<1>1. LevelsRise(q) /\ LinksWait(q, seen, A) /\ NearIsKnown(q, seen, A) /\ KnownIsNear(q, seen, A)
  BY DEF InBreadth
<1>2. Len(q) \in Nat \ {0} /\ 1 \in 1..Len(q)
  <2>1. Len(q) \in Nat
    OBVIOUS
  <2>2. Len(q) # 0
    BY EmptySeq, Zenon
  <2> QED BY <2>1, <2>2
<1>3. x \in Web /\ d \in 0..DepthCap /\ d \in Nat /\ DepthCap \in Nat
  BY <1>2, PlaceIs, SiteAssumption
<1>4. p \in Seq(Place) /\ Len(p) \in Nat /\ Len(more) \in Nat
  BY DEF Moved
<1>5. \A i \in 1..Len(q) : q[i][2] \in Nat /\ q[i][2] <= DepthCap /\ d <= q[i][2] /\ q[i][2] <= d + 1
  <2> SUFFICES ASSUME NEW i \in 1..Len(q)
               PROVE  q[i][2] \in Nat /\ q[i][2] <= DepthCap /\ d <= q[i][2] /\ q[i][2] <= d + 1
    OBVIOUS
  <2>1. q[i][2] \in 0..DepthCap
    BY PlaceIs
  <2>2. 1 <= i
    OBVIOUS
  <2>3. d <= q[i][2] /\ q[i][2] <= d + 1
    BY <1>1, <1>2, <2>2 DEF LevelsRise
  <2> QED BY <1>3, <2>1, <2>3
<1>6. \A i \in 1..Len(p) : p[i][2] \in Nat /\ d <= p[i][2] /\ p[i][2] <= d + 1
  <2> SUFFICES ASSUME NEW i \in 1..Len(p) PROVE p[i][2] \in Nat /\ d <= p[i][2] /\ p[i][2] <= d + 1
    OBVIOUS
  <2>1. CASE i \in 1..Len(q) - 1 /\ p[i] = q[i + 1]
    <3>1. i + 1 \in 1..Len(q)
      BY <1>2, <2>1
    <3> QED BY <1>5, <2>1, <3>1
  <2>2. CASE i - (Len(q) - 1) \in 1..Len(more) /\ p[i] = more[i - (Len(q) - 1)]
    <3>1. p[i][2] = d + 1
      BY <2>2 DEF Visited
    <3> QED BY <1>3, <3>1
  <2> QED BY <2>1, <2>2 DEF Moved
<1>7. LevelsRise(p)
  <2> SUFFICES ASSUME NEW i \in 1..Len(p), NEW j \in 1..Len(p), i <= j
               PROVE  p[i][2] <= p[j][2] /\ p[j][2] <= p[1][2] + 1
    BY DEF LevelsRise
  <2>1. 1 \in 1..Len(p)
    BY <1>4
  <2>2. p[j][2] <= p[1][2] + 1
    <3>1. p[1][2] \in Nat /\ d <= p[1][2] /\ p[j][2] \in Nat /\ p[j][2] <= d + 1
      BY <1>6, <2>1, Zenon
    <3>2. PICK a, b : a = p[1][2] /\ b = p[j][2]
      OBVIOUS
    <3>3. a \in Nat /\ d <= a /\ b \in Nat /\ b <= d + 1
      BY <3>1, <3>2, Zenon
    <3>4. b <= a + 1
      BY <1>3, <3>3
    <3> QED BY <3>2, <3>4, Zenon
  <2>3. CASE j > Len(q) - 1
    <3>1. p[j][2] = d + 1
      <4>1. j \notin 1..Len(q) - 1
        BY <1>2, <2>3
      <4>2. j - (Len(q) - 1) \in 1..Len(more) /\ p[j] = more[j - (Len(q) - 1)]
        BY <4>1, Zenon DEF Moved
      <4>3. \A k \in 1..Len(more) : more[k][2] = d + 1
        BY Zenon DEF Visited
      <4> QED BY <4>2, <4>3
    <3> QED BY <1>6, <2>2, <3>1
  <2>4. CASE ~(j > Len(q) - 1)
    <3>1. i + 1 \in 1..Len(q) /\ j + 1 \in 1..Len(q) /\ i + 1 <= j + 1
      BY <1>2, <1>4, <2>4
    <3>2. p[i] = q[i + 1] /\ p[j] = q[j + 1]
      BY <1>2, <1>4, <2>4 DEF Moved
    <3>3. q[i + 1][2] <= q[j + 1][2]
      BY <1>1, <3>1 DEF LevelsRise
    <3> QED BY <2>2, <3>2, <3>3
  <2> QED BY <2>3, <2>4
<1>8. ASSUME NEW u PROVE IsQueued(q, u) => u = x \/ IsQueued(p, u)
  BY StillKnown
<1>9. ASSUME NEW u PROVE IsQueued(more, u) => IsQueued(p, u)
  BY StillKnown
<1>10. ASSUME NEW u, NEW n PROVE IsQueuedBy(q, u, n) => u = x \/ IsQueuedBy(p, u, n)
  BY StillKnown
<1>11. /\ A \subseteq B /\ B \subseteq A \cup {x} /\ (x \in B \ A => x \notin seen)
       /\ \A i \in 1..Len(more) : more[i][1] \in ToSet(Hrefs[x]) /\ more[i][2] = d + 1 /\ x \in B
  BY Zenon DEF Visited
<1>12. ASSUME d < DepthCap, NEW y \in B, NEW v \in ToSet(Hrefs[y])
       PROVE  v \in seen \cup {x} \/ IsQueued(p, v)
  <2>1. CASE y \in A
    <3>1. v \in seen \/ IsQueued(q, v)
      BY <1>1, <1>12, <2>1 DEF LinksWait
    <3> QED BY <1>8, <3>1
  <2>2. CASE y \notin A
    <3>1. y = x /\ x \in B \ A
      BY <1>11, <2>2
    <3>2. v \in seen \cup {x} \/ IsQueued(more, v)
      BY <1>12, <3>1 DEF Visited
    <3> QED BY <1>9, <3>2
  <2> QED BY <2>1, <2>2
<1>13. LinksWait(p, seen \cup {x}, B)
  <2> SUFFICES ASSUME p # <<>>, p[1][2] < DepthCap, NEW y \in B, NEW v \in ToSet(Hrefs[y])
               PROVE  v \in seen \cup {x} \/ IsQueued(p, v)
    BY DEF LinksWait
  <2>1. Len(p) # 0
    BY <1>4, EmptySeq, Zenon
  <2>2. 1 \in 1..Len(p)
    BY <1>4, <2>1
  <2>3. d < DepthCap
    BY <1>3, <1>6, <2>2
  <2> QED BY <1>12, <2>3
<1>14. NearIsKnown(p, seen \cup {x}, B)
  <2> SUFFICES ASSUME NEW n \in 0..DepthCap, NEW v \in Within(B, n)
               PROVE  v \in seen \cup {x} \/ IsQueuedBy(p, v, n)
    BY DEF NearIsKnown
  <2>0. n \in Nat /\ n <= DepthCap
    BY <1>3
  <2>1. CASE v \in Within(A, n)
    BY <1>1, <1>10, <2>1 DEF NearIsKnown
  <2>2. CASE v \notin Within(A, n)
    <3>1. PICK k \in 0..n - 1 : x \in Within(A, k) /\ \E y \in B : v \in ToSet(Hrefs[y])
      BY <1>11, <2>0, <2>2, NewPath
    <3>2. k \in 0..DepthCap /\ k \in Nat /\ k + 1 <= n
      BY <1>3, <2>0
    <3>3. x \in B \ A
      <4>1. CASE x \in A
        <5>1. B \subseteq A
          BY <1>11, <4>1
        <5>2. v \in Within(A, n)
          BY <2>0, <5>1, ReachGrows
        <5> QED BY <2>2, <5>2
      <4>2. CASE x \notin A
        <5>1. x \notin B => B \subseteq A
          BY <1>11
        <5>2. x \notin B => v \in Within(A, n)
          BY <2>0, <5>1, ReachGrows
        <5> QED BY <2>2, <4>2, <5>2
      <4> QED BY <4>1, <4>2
    <3>4. x \notin seen
      BY <1>11, <3>3
    <3>5. PICK i \in 1..Len(q) : q[i][2] <= k
      BY <1>1, <3>1, <3>2, <3>4 DEF NearIsKnown, IsQueuedBy
    <3>6. d <= k /\ d < DepthCap /\ d + 1 <= n
      <4>1. PICK e : e = q[i][2]
        OBVIOUS
      <4>2. e \in Nat /\ d <= e /\ e <= k
        BY <1>5, <3>5, <4>1, Zenon
      <4>3. d \in Nat /\ DepthCap \in Nat /\ n \in Nat
        BY <1>3, <2>0, Zenon
      <4> QED BY <2>0, <3>2, <4>2, <4>3
    <3>7. v \in seen \cup {x} \/ IsQueued(p, v)
      BY <1>12, <3>1, <3>6
    <3>8. ASSUME IsQueued(p, v) PROVE IsQueuedBy(p, v, n)
      <4>1. PICK j \in 1..Len(p) : p[j][1] = v
        BY <3>8 DEF IsQueued
      <4>2. PICK e : e = p[j][2]
        OBVIOUS
      <4>3. e \in Nat /\ e <= d + 1
        BY <1>6, <4>2, Zenon
      <4>4. p[j][2] <= n
        BY <1>3, <2>0, <3>6, <4>2, <4>3
      <4> QED BY <4>1, <4>4 DEF IsQueuedBy
    <3> QED BY <3>7, <3>8
  <2> QED BY <2>1, <2>2
<1>15. KnownIsNear(p, seen \cup {x}, B)
  <2>1. x \in Within(A, d) /\ x \in Within(A, DepthCap)
    <3>1. x \in Within(A, d)
      BY <1>1, <1>2 DEF KnownIsNear
    <3>2. d <= DepthCap
      BY <1>3
    <3> QED BY <1>3, <3>1, <3>2, ReachGrows
  <2>2. Within(A, DepthCap) \subseteq Within(B, DepthCap)
    BY <1>3, <1>11, ReachGrows
  <2>3. seen \cup {x} \subseteq Within(B, DepthCap)
    BY <1>1, <2>1, <2>2 DEF KnownIsNear
  <2>4. ASSUME NEW i \in 1..Len(p) PROVE p[i][1] \in Within(B, p[i][2])
    <3>1. CASE i \in 1..Len(q) - 1 /\ p[i] = q[i + 1]
      <4>1. i + 1 \in 1..Len(q)
        BY <1>2, <3>1
      <4>2. q[i + 1][1] \in Within(A, q[i + 1][2]) /\ q[i + 1][2] \in Nat
        BY <1>1, <1>5, <4>1 DEF KnownIsNear
      <4>3. Within(A, q[i + 1][2]) \subseteq Within(B, q[i + 1][2])
        BY <1>11, <4>2, ReachGrows
      <4> QED BY <3>1, <4>2, <4>3
    <3>2. CASE i - (Len(q) - 1) \in 1..Len(more) /\ p[i] = more[i - (Len(q) - 1)]
      <4>1. p[i][1] \in ToSet(Hrefs[x]) /\ p[i][2] = d + 1 /\ x \in B
        BY <1>11, <3>2
      <4>2. x \in Within(B, d)
        BY <1>3, <1>11, <2>1, ReachGrows
      <4>3. p[i][1] \in Within(B, d + 1)
        BY <1>3, <4>1, <4>2, OneLinkMore
      <4> QED BY <4>1, <4>3
    <3> QED BY <3>1, <3>2 DEF Moved
  <2> QED BY <2>3, <2>4 DEF KnownIsNear
<1> QED BY <1>7, <1>13, <1>14, <1>15 DEF InBreadth

\* The entries that a page adds, and that none of its new links is left out.
LEMMA FreshIs ==
    ASSUME NEW x \in Web, NEW now, NEW d \in Nat, d < DepthCap
    PROVE  /\ Fresh(Hrefs[x], now, d) \in Seq(Place)
           /\ \A i \in 1..Len(Fresh(Hrefs[x], now, d)) :
                 /\ Fresh(Hrefs[x], now, d)[i][1] \in ToSet(Hrefs[x])
                 /\ Fresh(Hrefs[x], now, d)[i][2] = d + 1
           /\ \A y \in ToSet(Hrefs[x]) : y \in now \/ IsQueued(Fresh(Hrefs[x], now, d), y)
<1>a. PICK links : links = Hrefs[x]
  OBVIOUS
<1>b. PICK S : S = {i \in DOMAIN links : links[i] \notin now}
  OBVIOUS
<1>c. PICK kept : kept = InOrder(S)
  OBVIOUS
<1>d. PICK more : more = Fresh(links, now, d)
  OBVIOUS
<1>1. links \in Seq(Web) /\ DOMAIN links = 1..Len(links) /\ Len(links) \in Nat
  BY <1>a, LinksAre
<1>2. S \in SUBSET Nat /\ IsFiniteSet(S) /\ S \subseteq 1..Len(links)
  <2>1. S \subseteq 1..Len(links) /\ IsFiniteSet(1..Len(links))
    BY <1>b, <1>1, FS_Interval
  <2>2. IsFiniteSet(S)
    BY <2>1, FS_Subset, Zenon
  <2> QED BY <2>1, <2>2
<1>3. /\ kept \in Seq(S) /\ Len(kept) \in Nat
      /\ \A i \in S : \E n \in 1..Len(kept) : kept[n] = i
  BY <1>c, <1>2, InOrderIs
<1>4. DOMAIN kept = 1..Len(kept)
  BY <1>3
<1>5. \A n \in 1..Len(kept) : kept[n] \in 1..Len(links)
  <2>1. \A n \in 1..Len(kept) : kept[n] \in S
    BY <1>3, ElementOfSeq, Zenon
  <2> QED BY <1>2, <2>1
<1>6. \A n \in 1..Len(kept) : links[kept[n]] \in Web /\ links[kept[n]] \in ToSet(links)
  BY <1>1, <1>5 DEF ToSet
<1>7. more = [n \in 1..Len(kept) |-> <<links[kept[n]], d + 1>>]
  BY <1>b, <1>c, <1>d, <1>4 DEF Fresh
<1>8. d + 1 \in 0..DepthCap
  BY SiteAssumption
<1>9. more \in Seq(Place)
  <2>1. \A n \in 1..Len(kept) : <<links[kept[n]], d + 1>> \in Place
    BY <1>6, <1>8 DEF Place
  <2>2. more \in [1..Len(kept) -> Place]
    BY <1>7, <2>1
  <2> QED BY <1>3, <2>2, SeqDef, Zenon
<1>10. Len(more) = Len(kept)
  BY <1>3, <1>7
<1>11. \A i \in 1..Len(more) : more[i][1] = links[kept[i]] /\ more[i][2] = d + 1
  BY <1>7, <1>10
<1>12. ASSUME NEW y \in ToSet(links), y \notin now PROVE IsQueued(more, y)
  <2>1. PICK i \in 1..Len(links) : links[i] = y
    BY <1>1, <1>12 DEF ToSet
  <2>2. i \in S
    BY <1>b, <1>1, <1>12, <2>1
  <2>3. PICK n \in 1..Len(kept) : kept[n] = i
    BY <1>3, <2>2
  <2> QED BY <1>10, <1>11, <2>1, <2>3 DEF IsQueued
<1>13. \A i \in 1..Len(more) : more[i][1] \in ToSet(links) /\ more[i][2] = d + 1
  BY <1>6, <1>10, <1>11
<1> QED BY <1>a, <1>d, <1>9, <1>12, <1>13, Zenon

\* The result of a page more.
LEMMA OneMorePage ==
    ASSUME SiteTyped, VisitsAreCounted, NEW x \in Web, x \notin siteSeen,
           NEW outcome \in {"page", "unreachable"}, Len(pagesFound) < pageCap,
           siteSeen' = siteSeen \cup {x}, pagesFound' = Append(pagesFound, <<x, outcome>>),
           pageCap' = pageCap
    PROVE  /\ pagesFound' \in Seq(Web \X {"page", "unreachable"}) /\ IsFiniteSet(siteSeen')
           /\ VisitsAreCounted'
           /\ AnsweredUrls' = AnsweredUrls \cup (IF outcome = "page" THEN {x} ELSE {})
<1> PICK n : n = Len(pagesFound)
  OBVIOUS
<1>1. /\ pagesFound \in Seq(Web \X {"page", "unreachable"}) /\ n \in Nat
      /\ DOMAIN pagesFound = 1..n /\ IsFiniteSet(siteSeen) /\ pageCap \in Nat
  BY DEF SiteTyped
<1>2. /\ pagesFound' \in Seq(Web \X {"page", "unreachable"}) /\ Len(pagesFound') = n + 1
      /\ DOMAIN pagesFound' = 1..n + 1
      /\ pagesFound'[n + 1] = <<x, outcome>> /\ \A i \in 1..n : pagesFound'[i] = pagesFound[i]
  BY <1>1
<1>3. \A i \in 1..n + 1 : i = n + 1 \/ i \in 1..n
  BY <1>1
<1>4. n + 1 \in 1..n + 1 /\ \A i \in 1..n : i \in 1..n + 1
  BY <1>1
<1>5. siteSeen' = {pagesFound'[i][1] : i \in DOMAIN pagesFound'}
  BY <1>1, <1>2, <1>3, <1>4 DEF VisitsAreCounted
<1>6. IsFiniteSet(siteSeen') /\ Cardinality(siteSeen') = Cardinality(siteSeen) + 1
  BY <1>1, FS_AddElement
<1>7. VisitsAreCounted'
  BY <1>1, <1>2, <1>5, <1>6 DEF VisitsAreCounted
<1>8. AnsweredUrls' = AnsweredUrls \cup (IF outcome = "page" THEN {x} ELSE {})
  <2>1. AnsweredUrls = {pagesFound[i][1] : i \in {j \in 1..n : pagesFound[j][2] = "page"}}
    BY <1>1 DEF AnsweredUrls
  <2>2. AnsweredUrls' = {pagesFound'[i][1] : i \in {j \in 1..n + 1 : pagesFound'[j][2] = "page"}}
    BY <1>2 DEF AnsweredUrls
  <2>3. ASSUME NEW u \in AnsweredUrls' PROVE u \in AnsweredUrls \/ (outcome = "page" /\ u = x)
    <3>1. PICK i \in 1..n + 1 : pagesFound'[i][2] = "page" /\ u = pagesFound'[i][1]
      BY <2>2, <2>3
    <3>2. CASE i = n + 1
      BY <1>2, <3>1, <3>2
    <3>3. CASE i \in 1..n
      BY <1>2, <2>1, <3>1, <3>3
    <3> QED BY <1>3, <3>2, <3>3
  <2>4. ASSUME NEW u \in AnsweredUrls PROVE u \in AnsweredUrls'
    <3>1. PICK i \in 1..n : pagesFound[i][2] = "page" /\ u = pagesFound[i][1]
      BY <2>1, <2>4
    <3> QED BY <1>2, <1>4, <2>2, <3>1
  <2>5. outcome = "page" => x \in AnsweredUrls'
    BY <1>2, <1>4, <2>2
  <2> QED BY <2>3, <2>4, <2>5
<1> QED BY <1>2, <1>6, <1>7, <1>8

LEMMA QueueHead ==
    ASSUME SiteTyped, siteQueue # <<>>
    PROVE  /\ siteQueue \in Seq(Place) /\ Head(siteQueue) = siteQueue[1]
           /\ siteQueue[1][1] \in Web /\ siteQueue[1][2] \in 0..DepthCap
           /\ Tail(siteQueue) \in Seq(Place)
<1>1. siteQueue \in Seq(Place)
  BY DEF SiteTyped
<1>2. Len(siteQueue) \in Nat /\ Len(siteQueue) # 0
  BY <1>1, EmptySeq
<1>3. 1 \in 1..Len(siteQueue)
  BY <1>2
<1>4. siteQueue[1][1] \in Web /\ siteQueue[1][2] \in 0..DepthCap
  BY <1>1, <1>3, PlaceIs
<1> QED BY <1>1, <1>2, <1>4

LEMMA AnsweredWereSeen ==
    ASSUME SiteTyped, VisitsAreCounted
    PROVE  AnsweredUrls \subseteq siteSeen
BY DEF VisitsAreCounted, AnsweredUrls

LEMMA SkipStep ==
    ASSUME SiteInv, SkipSeen
    PROVE  SiteInv'
<1>1. SiteTyped /\ VisitsAreCounted /\ EndsInTime /\ InBreadth(siteQueue, siteSeen, AnsweredUrls)
  BY DEF SiteInv
<1>2. /\ siteQueue # <<>> /\ siteQueue' = Tail(siteQueue) /\ crawlStatus = "running"
      /\ Head(siteQueue)[1] \in siteSeen
      /\ UNCHANGED <<pageCap, siteSeen, pagesFound, crawlStatus>>
  BY DEF SkipSeen, Unseen
<1>3. /\ siteQueue \in Seq(Place) /\ Head(siteQueue) = siteQueue[1]
      /\ Tail(siteQueue) \in Seq(Place)
  BY <1>1, <1>2, QueueHead
<1>4. PICK x, d : x = siteQueue[1][1] /\ d = siteQueue[1][2]
  OBVIOUS
<1>5. x \in siteSeen
  BY <1>2, <1>3, <1>4
<1>6. Visited(siteQueue, siteSeen, AnsweredUrls, x, d, <<>>, AnsweredUrls)
  <2>1. Len(<<>>) = 0
    OBVIOUS
  <2> QED BY <2>1 DEF Visited
<1>7. Moved(siteQueue, <<>>, Tail(siteQueue))
  BY <1>2, <1>3, TailMoves
<1>8. <<>> \in Seq(Place) /\ siteSeen \cup {x} = siteSeen
  BY <1>5
<1>9. InBreadth(Tail(siteQueue), siteSeen \cup {x}, AnsweredUrls)
  BY <1>1, <1>2, <1>3, <1>4, <1>6, <1>7, <1>8, BreadthStep
<1>10. InBreadth(siteQueue, siteSeen, AnsweredUrls)'
  <2>1. AnsweredUrls' = AnsweredUrls
    BY <1>2 DEF AnsweredUrls
  <2> QED BY <1>2, <1>8, <1>9, <2>1
<1>11. SiteTyped' /\ VisitsAreCounted' /\ EndsInTime'
  BY <1>1, <1>2, <1>3 DEF SiteTyped, VisitsAreCounted, EndsInTime
<1> QED BY <1>10, <1>11 DEF SiteInv

LEMMA FetchStep ==
    ASSUME SiteInv, FetchPage
    PROVE  SiteInv'
<1>1. SiteTyped /\ VisitsAreCounted /\ EndsInTime /\ InBreadth(siteQueue, siteSeen, AnsweredUrls)
  BY DEF SiteInv
<1>2. siteQueue # <<>> /\ crawlStatus = "running"
  BY DEF FetchPage
<1>3. /\ siteQueue \in Seq(Place) /\ Head(siteQueue) = siteQueue[1]
      /\ siteQueue[1][1] \in Web /\ siteQueue[1][2] \in 0..DepthCap
  BY <1>1, <1>2, QueueHead
<1>4. PICK x, d : x = siteQueue[1][1] /\ d = siteQueue[1][2]
  OBVIOUS
<1>5. PICK outcome \in {"page", "unreachable"} :
         /\ pagesFound' = Append(pagesFound, <<x, outcome>>)
         /\ siteQueue' = Tail(siteQueue) \o
               IF outcome = "page" /\ Shallow(d) THEN Fresh(Hrefs[x], siteSeen', d) ELSE <<>>
  BY <1>3, <1>4 DEF FetchPage
<1>6. /\ x \notin siteSeen /\ siteSeen' = siteSeen \cup {x} /\ Len(pagesFound) < pageCap
      /\ UNCHANGED <<pageCap, crawlStatus>>
  BY <1>3, <1>4 DEF FetchPage, Unseen
<1>7. x \in Web /\ d \in Nat /\ d <= DepthCap
  BY <1>3, <1>4, SiteAssumption
<1>8. /\ pagesFound' \in Seq(Web \X {"page", "unreachable"}) /\ IsFiniteSet(siteSeen')
      /\ VisitsAreCounted'
      /\ AnsweredUrls' = AnsweredUrls \cup (IF outcome = "page" THEN {x} ELSE {})
  BY <1>1, <1>5, <1>6, <1>7, OneMorePage
<1>9. PICK more : more = IF outcome = "page" /\ Shallow(d) THEN Fresh(Hrefs[x], siteSeen \cup {x}, d)
                         ELSE <<>>
  OBVIOUS
<1>10. siteQueue' = Tail(siteQueue) \o more
  BY <1>5, <1>6, <1>9
<1>11. PICK B : B = AnsweredUrls'
  OBVIOUS
<1>12. more \in Seq(Place) /\ Visited(siteQueue, siteSeen, AnsweredUrls, x, d, more, B)
  <2>1. AnsweredUrls \subseteq B /\ B \subseteq AnsweredUrls \cup {x}
    BY <1>8, <1>11
  <2>2. CASE outcome = "page" /\ Shallow(d)
    <3>1. /\ more \in Seq(Place)
          /\ \A i \in 1..Len(more) : more[i][1] \in ToSet(Hrefs[x]) /\ more[i][2] = d + 1
          /\ \A y \in ToSet(Hrefs[x]) : y \in siteSeen \cup {x} \/ IsQueued(more, y)
      <4>1. d < DepthCap /\ more = Fresh(Hrefs[x], siteSeen \cup {x}, d)
        BY <1>9, <2>2 DEF Shallow
      <4>2. PICK now : now = siteSeen \cup {x}
        OBVIOUS
      <4>3. more = Fresh(Hrefs[x], now, d)
        BY <4>1, <4>2
      <4>4. /\ Fresh(Hrefs[x], now, d) \in Seq(Place)
            /\ \A i \in 1..Len(Fresh(Hrefs[x], now, d)) :
                  /\ Fresh(Hrefs[x], now, d)[i][1] \in ToSet(Hrefs[x])
                  /\ Fresh(Hrefs[x], now, d)[i][2] = d + 1
            /\ \A y \in ToSet(Hrefs[x]) : y \in now \/ IsQueued(Fresh(Hrefs[x], now, d), y)
        BY <1>7, <4>1, FreshIs
      <4> QED BY <4>2, <4>3, <4>4, Zenon
    <3>2. x \in B
      BY <1>8, <1>11, <2>2
    <3> QED BY <1>6, <2>1, <3>1, <3>2 DEF Visited
  <2>3. CASE ~(outcome = "page" /\ Shallow(d))
    <3>1. more = <<>> /\ more \in Seq(Place) /\ Len(more) = 0
      BY <1>9, <2>3
    <3>2. ~(x \in B \ AnsweredUrls /\ d < DepthCap)
      BY <1>8, <1>11, <2>3 DEF Shallow
    <3> QED BY <1>6, <2>1, <3>1, <3>2 DEF Visited
  <2> QED BY <2>2, <2>3
<1>13. Moved(siteQueue, more, siteQueue')
  BY <1>2, <1>3, <1>10, <1>12, QueueMoves
<1>14. InBreadth(siteQueue', siteSeen \cup {x}, B)
  BY <1>1, <1>2, <1>3, <1>4, <1>12, <1>13, BreadthStep
<1>15. InBreadth(siteQueue, siteSeen, AnsweredUrls)'
  BY <1>6, <1>11, <1>14
<1>16. siteQueue' \in Seq(Place)
  BY <1>13 DEF Moved
<1>17. SiteTyped' /\ EndsInTime'
  BY <1>1, <1>2, <1>6, <1>7, <1>8, <1>16 DEF SiteTyped, EndsInTime
<1> QED BY <1>8, <1>15, <1>17 DEF SiteInv

LEMMA SiteStarts == SiteInit => SiteInv
<1> SUFFICES ASSUME SiteInit PROVE SiteInv
  OBVIOUS
<1>1. /\ pageCap \in Nat /\ siteQueue = <<<<SeedUrl, 0>>>> /\ siteSeen = {} /\ pagesFound = <<>>
      /\ crawlStatus # "completed" /\ SeedUrl \in Web /\ DepthCap \in Nat
  BY SiteAssumption DEF SiteInit
<1>2. <<SeedUrl, 0>> \in Place
  BY <1>1 DEF Place
<1>3. siteQueue \in Seq(Place) /\ Len(siteQueue) = 1 /\ siteQueue[1] = <<SeedUrl, 0>>
  BY <1>1, <1>2
<1>4. SiteTyped
  BY <1>1, <1>3, FS_EmptySet DEF SiteTyped
<1>5. VisitsAreCounted
  <2>1. Len(<<>>) = 0 /\ Cardinality({}) = 0 /\ DOMAIN <<>> = {}
    BY FS_EmptySet
  <2> QED BY <1>1, <2>1 DEF VisitsAreCounted
<1>6. AnsweredUrls = {}
  <2>1. DOMAIN pagesFound = {}
    BY <1>1
  <2> QED BY <2>1 DEF AnsweredUrls
<1>7. \A i \in 1..Len(siteQueue) : siteQueue[i] = <<SeedUrl, 0>>
  BY <1>3
<1>8. LevelsRise(siteQueue)
  BY <1>3, <1>7 DEF LevelsRise
<1>9. LinksWait(siteQueue, siteSeen, AnsweredUrls)
  BY <1>6 DEF LinksWait
<1>10. NearIsKnown(siteQueue, siteSeen, AnsweredUrls)
  <2> SUFFICES ASSUME NEW n \in 0..DepthCap, NEW u \in Within({}, n) PROVE IsQueuedBy(siteQueue, u, n)
    BY <1>6 DEF NearIsKnown
  <2>1. PICK k \in 0..n : \E path \in [0..k -> Web] : Leads(path, k, u, {})
    BY DEF Within
  <2>2. PICK path \in [0..k -> Web] : Leads(path, k, u, {})
    BY <2>1
  <2>3. k = 0
    <3>1. \A i \in 0..k - 1 : path[i] \in {}
      BY <2>2 DEF Leads
    <3>2. 0 \notin 0..k - 1
      BY <3>1
    <3> QED BY <3>2
  <2>4. u = SeedUrl
    BY <2>2, <2>3 DEF Leads
  <2> QED BY <1>3, <2>4 DEF IsQueuedBy
<1>11. KnownIsNear(siteQueue, siteSeen, AnsweredUrls)
  BY <1>1, <1>7, SeedIsNear DEF KnownIsNear
<1> QED BY <1>1, <1>4, <1>5, <1>8, <1>9, <1>10, <1>11 DEF SiteInv, InBreadth, EndsInTime

LEMMA SiteHolds == SiteSpec => []SiteInv
<1>1. SiteInv /\ [SiteNext]_siteVars => SiteInv'
  <2> SUFFICES ASSUME SiteInv, [SiteNext]_siteVars PROVE SiteInv'
    OBVIOUS
  <2>1. CASE SkipSeen
    BY <2>1, SkipStep
  <2>2. CASE FetchPage
    BY <2>2, FetchStep
  <2>3. CASE CrawlEnds
    <3>1. /\ UNCHANGED <<pageCap, siteQueue, siteSeen, pagesFound>>
          /\ siteQueue = <<>> \/ Len(pagesFound) >= pageCap
      BY <2>3 DEF CrawlEnds
    <3>2. AnsweredUrls' = AnsweredUrls
      BY <3>1 DEF AnsweredUrls
    <3> QED BY <3>1, <3>2 DEF SiteInv, SiteTyped, VisitsAreCounted, EndsInTime
  <2>4. CASE UNCHANGED siteVars
    <3>1. UNCHANGED <<pageCap, siteQueue, siteSeen, pagesFound, crawlStatus>>
      BY <2>4 DEF siteVars
    <3>2. AnsweredUrls' = AnsweredUrls
      BY <3>1 DEF AnsweredUrls
    <3> QED BY <3>1, <3>2 DEF SiteInv, SiteTyped, VisitsAreCounted, EndsInTime
  <2>5. CASE FetchRaises
    <3>1. /\ UNCHANGED <<pageCap, siteQueue, siteSeen, pagesFound>>
          /\ crawlStatus' # "completed"
      BY <2>5 DEF FetchRaises
    <3>2. AnsweredUrls' = AnsweredUrls
      BY <3>1 DEF AnsweredUrls
    <3> QED BY <3>1, <3>2 DEF SiteInv, SiteTyped, VisitsAreCounted, EndsInTime
  <2> QED BY <2>1, <2>2, <2>3, <2>4, <2>5 DEF SiteNext
<1> QED BY <1>1, SiteStarts, PTL DEF SiteSpec

LEMMA SiteIs == SiteInv => SiteIsCrawled
<1> SUFFICES ASSUME SiteInv PROVE SiteIsCrawled
  OBVIOUS
<1>1. SiteTyped /\ VisitsAreCounted /\ EndsInTime /\ InBreadth(siteQueue, siteSeen, AnsweredUrls)
  BY DEF SiteInv
<1>2. SiteTypeOK
  <2>1. siteQueue \in Seq(Place) /\ DOMAIN siteQueue = 1..Len(siteQueue)
    BY <1>1 DEF SiteTyped
  <2>2. \A i \in 1..Len(siteQueue) : siteQueue[i][2] <= DepthCap
    BY <2>1, PlaceIs, SiteAssumption
  <2> QED BY <1>1, <2>1, <2>2 DEF SiteTypeOK, VisitsAreCounted
<1>3. CrawlIsComplete
  <2> SUFFICES ASSUME crawlStatus = "completed", Len(pagesFound) < pageCap
      PROVE siteSeen = Within(AnsweredUrls, DepthCap)
    BY DEF CrawlIsComplete
  <2>1. Len(pagesFound) \in Nat /\ pageCap \in Nat
    BY <1>1 DEF SiteTyped
  <2>2. siteQueue = <<>>
    BY <1>1, <2>1 DEF EndsInTime
  <2>3. siteSeen \subseteq Within(AnsweredUrls, DepthCap)
    BY <1>1 DEF InBreadth, KnownIsNear
  <2>4. DepthCap \in 0..DepthCap
    BY SiteAssumption
  <2>5. \A u : ~IsQueuedBy(siteQueue, u, DepthCap)
    <3>1. Len(siteQueue) = 0
      BY <2>2
    <3> QED BY <3>1 DEF IsQueuedBy
  <2>6. Within(AnsweredUrls, DepthCap) \subseteq siteSeen
    BY <1>1, <2>4, <2>5 DEF InBreadth, NearIsKnown
  <2> QED BY <2>3, <2>6
<1> QED BY <1>2, <1>3 DEF SiteIsCrawled

(***************************************************************************)
(* For any pages, links, failures, limits and depths: the crawl of the     *)
(* canonical sentinel visits no page twice and no more than it may, and if *)
(* it ends below its limit it has visited exactly the urls within          *)
(* max_depth links of its seed (SentinelAgent.execute).                    *)
(***************************************************************************)
THEOREM CrawlsVisitAllWithin == SiteSpec => []SiteIsCrawled
BY SiteHolds, SiteIs, PTL
================================================================================
