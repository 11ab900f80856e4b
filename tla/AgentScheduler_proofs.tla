------------------------- MODULE AgentScheduler_proofs -------------------------
(***************************************************************************)
(* Proofs about the runtime of the agents, for any number of agents,       *)
(* schedules, events and edits: what a state may be after overlapping      *)
(* runs, which schedules an event serves, and when the loop starts one.    *)
(***************************************************************************)
EXTENDS AgentScheduler, FiniteSetTheorems, SequenceTheorems, TLAPS

(***************************************************************************)
(* The slots of the dict: the ids from a position on, and the free ones.   *)
(***************************************************************************)
Slots == Seq(Schedule \cup {None})
Held(q, p) == {q[i] : i \in {j \in DOMAIN q : p <= j}} \ {None}
Free(q) == {i \in DOMAIN q : q[i] = None}
Once(q) == \A i, j \in DOMAIN q : q[i] = q[j] => i = j \/ q[i] = None

\* What the module says of the entries, in these terms.
LEMMA EntriesAre ==
    ASSUME entries \in Slots
    PROVE  /\ \A p : {entries[i] : i \in Ahead(p)} = Held(entries, p)
           /\ \A t : t \in Installed <=> t \in Held(entries, 1)
           /\ Installed \subseteq Schedule /\ IsFiniteSet(Installed)
           /\ IsFiniteSet(Live) /\ IsFiniteSet(Free(entries))
           /\ Cardinality(Free(entries)) \in Nat
<1>1. DOMAIN entries = 1..Len(entries) /\ Len(entries) \in Nat
  BY DEF Slots
<1>2. \A p : {entries[i] : i \in Ahead(p)} = Held(entries, p)
  BY DEF Held, Ahead, Live
<1>3. \A t : t \in Installed <=> t \in Held(entries, 1)
  BY <1>1 DEF Held, Installed, Live
<1>4. Installed \subseteq Schedule
  BY DEF Installed, Live, Slots
<1>5. IsFiniteSet(Installed)
  BY <1>4, AgentSchedulerAssumption, FS_Subset
<1>6. IsFiniteSet(1..Len(entries))
  BY <1>1, FS_Interval
<1>7. Live \in SUBSET (1..Len(entries)) /\ Free(entries) \in SUBSET (1..Len(entries))
  BY <1>1 DEF Live, Free
<1>8. IsFiniteSet(Live) /\ IsFiniteSet(Free(entries))
  BY <1>6, <1>7, FS_Subset
<1> QED BY <1>2, <1>3, <1>4, <1>5, <1>8, FS_CardinalityType

\* A table that is built anew holds the same ids, without free slots.
LEMMA RebuiltIs ==
    ASSUME entries \in Slots, NEW q \in Rebuilt
    PROVE  /\ q \in Slots /\ Once(q) /\ Free(q) = {}
           /\ DOMAIN q = 1..Len(q) /\ Len(q) \in Nat
           /\ \A m, n \in DOMAIN q : q[m] = q[n] => m = n
           /\ \A m \in DOMAIN q : q[m] \in Installed
           /\ \A t \in Installed : \E m \in DOMAIN q : q[m] = t
<1>1. PICK n \in Nat : n = Cardinality(Installed)
  BY EntriesAre, FS_CardinalityType
<1>2. /\ q \in [1..n -> Installed]
      /\ \A i, j \in Live : i <= j =>
            \E k, l \in DOMAIN q : k <= l /\ q[k] = entries[i] /\ q[l] = entries[j]
  BY <1>1 DEF Rebuilt
<1>3. \A t \in Installed : \E m \in 1..n : q[m] = t
  <2> TAKE t \in Installed
  <2>1. PICK i \in Live : entries[i] = t
    BY DEF Installed
  <2>2. i <= i
    BY DEF Live, Slots
  <2> QED BY <1>2, <2>1, <2>2
<1>4. q \in Injection(1..n, Installed)
  <2>1. q \in Surjection(1..n, Installed)
    BY <1>2, <1>3 DEF Surjection
  <2>2. IsFiniteSet(1..n) /\ Cardinality(1..n) = Cardinality(Installed)
    BY <1>1, FS_Interval
  <2> QED BY <2>1, <2>2, FS_SurjSameCardinalityImpliesInj
<1>5. \A l, m \in 1..n : q[l] = q[m] => l = m
  BY <1>4 DEF Injection, IsInjective
<1>6. None \notin Installed /\ Installed \subseteq Schedule
  BY EntriesAre, AgentSchedulerAssumption
<1>7. q \in Slots /\ Len(q) = n
  BY <1>2, <1>6 DEF Slots
<1> QED BY <1>1, <1>2, <1>3, <1>5, <1>6, <1>7 DEF Once, Free

\* Nothing moves up.
LEMMA MovesDown ==
    ASSUME entries \in Slots, Once(entries), NEW q \in Rebuilt, NEW m \in DOMAIN q,
           NEW j \in Live, q[m] = entries[j]
    PROVE  m <= j
<1>1. /\ DOMAIN q = 1..Len(q) /\ Len(q) \in Nat
      /\ \A k, n \in DOMAIN q : q[k] = q[n] => k = n
      /\ \A k \in DOMAIN q : q[k] \in Installed
  BY RebuiltIs
<1>2. /\ DOMAIN entries = 1..Len(entries) /\ Len(entries) \in Nat
      /\ \A i \in Live : i \in 1..Len(entries) /\ entries[i] # None
  BY DEF Live, Slots
<1>3. \A i, k \in Live : i <= k =>
         \E l, n \in DOMAIN q : l <= n /\ q[l] = entries[i] /\ q[n] = entries[k]
  BY DEF Rebuilt
<1>4. ASSUME NEW l \in 1..m
      PROVE  \E i \in 1..j : i \in Live /\ entries[i] = q[l]
  <2>1. l \in DOMAIN q
    BY <1>1
  <2>2. PICK i \in Live : entries[i] = q[l]
    BY <1>1, <2>1 DEF Installed
  <2>3. CASE i <= j
    BY <1>2, <2>2, <2>3
  <2>4. CASE j <= i
    <3>1. PICK k \in DOMAIN q, n \in DOMAIN q : k <= n /\ q[k] = entries[j] /\ q[n] = entries[i]
      BY <1>3, <2>4
    <3>2. k = m /\ n = l
      BY <1>1, <2>1, <2>2, <3>1
    <3>3. l = m
      BY <1>1, <3>1, <3>2
    <3>4. i = j
      BY <1>2, <2>2, <3>3 DEF Once
    <3> QED BY <1>2, <2>2, <3>4
  <2> QED BY <1>2, <2>3, <2>4
<1> DEFINE f == [l \in 1..m |-> CHOOSE i \in 1..j : i \in Live /\ entries[i] = q[l]]
<1>5. \A l \in 1..m : f[l] \in 1..j /\ entries[f[l]] = q[l]
  BY <1>4
<1>6. f \in [1..m -> 1..j]
  BY <1>5
<1> HIDE DEF f
<1>7. f \in Injection(1..m, 1..j)
  <2>1. \A k, l \in 1..m : f[k] = f[l] => k = l
    BY <1>1, <1>5
  <2> QED BY <1>6, <2>1 DEF Injection, IsInjective
<1>8. m \in Nat /\ j \in Nat
  BY <1>1, <1>2
<1>9. \A n \in Nat : IsFiniteSet(1..n) /\ Cardinality(1..n) = n
  <2> TAKE n \in Nat
  <2>1. IsFiniteSet(1..n) /\ Cardinality(1..n) = IF 1 > n THEN 0 ELSE n - 1 + 1
    BY FS_Interval
  <2> QED BY <2>1
<1>10. Cardinality(1..m) <= Cardinality(1..j)
  BY <1>7, <1>8, <1>9, FS_Injection
<1> QED BY <1>8, <1>9, <1>10

\* What is behind a position p afterwards, but was not before, are not more than the slots that
\* were free: what is there has moved to the p - 1 first slots, none of them free.
LEMMA BehindIs ==
    ASSUME entries \in Slots, Once(entries), NEW q \in Rebuilt, NEW p \in Nat
    PROVE  /\ Held(q, p) \subseteq Held(entries, p)
           /\ Cardinality(Held(entries, p) \ Held(q, p)) <= Cardinality(Free(entries))
<1> DEFINE D == Held(entries, p) \ Held(q, p)
<1>1. /\ DOMAIN q = 1..Len(q) /\ Len(q) \in Nat
      /\ \A k, n \in DOMAIN q : q[k] = q[n] => k = n
      /\ \A k \in DOMAIN q : q[k] \in Installed
      /\ \A t \in Installed : \E k \in DOMAIN q : q[k] = t
  BY RebuiltIs
<1>2. /\ DOMAIN entries = 1..Len(entries) /\ Len(entries) \in Nat
      /\ \A i \in Live : i \in 1..Len(entries) /\ entries[i] # None /\ entries[i] \in Installed
      /\ \A i, k \in Live : entries[i] = entries[k] => i = k
  BY DEF Live, Slots, Installed, Once
<1>3. \A i, k \in Live : i <= k =>
         \E l, n \in DOMAIN q : l <= n /\ q[l] = entries[i] /\ q[n] = entries[k]
  BY DEF Rebuilt
<1>4. Held(q, p) \subseteq Held(entries, p)
  <2> SUFFICES ASSUME NEW m \in DOMAIN q, p <= m, q[m] # None
               PROVE  q[m] \in Held(entries, p)
    BY DEF Held
  <2>1. PICK j \in Live : entries[j] = q[m]
    BY <1>1 DEF Installed
  <2>2. m <= j
    BY <2>1, MovesDown
  <2>3. p <= j /\ j \in DOMAIN entries
    BY <1>1, <1>2, <2>2
  <2> QED BY <2>1, <2>3 DEF Held
<1>5. \A t \in D : \E i \in Live : entries[i] = t /\ p <= i
  BY DEF Held, Live
<1>6. IsFiniteSet(Free(entries)) /\ IsFiniteSet(Live) /\ Cardinality(Free(entries)) \in Nat
  BY EntriesAre
<1>7. CASE D = {}
  BY <1>4, <1>6, <1>7, FS_EmptySet
<1>8. CASE D # {}
  <2>1. PICK i0 \in Live : p <= i0 /\ entries[i0] \in D
    BY <1>5, <1>8
  <2> DEFINE B == {i \in Live : i < p}
             I == {i \in Live : entries[i] \in D /\ p <= i}
  <2>2. ASSUME NEW t \in D, NEW m \in DOMAIN q, q[m] = t
        PROVE  m < p
    <3>1. t # None /\ t \notin Held(q, p)
      BY <2>2 DEF Held
    <3>2. ~(p <= m)
      BY <2>2, <3>1 DEF Held
    <3> QED BY <1>1, <3>2
  <2>3. ASSUME NEW i \in B \cup I
        PROVE  \E m \in 1..p - 1 : m \in DOMAIN q /\ q[m] = entries[i]
    <3>1. CASE i \in I
      <4>1. PICK m \in DOMAIN q : q[m] = entries[i]
        BY <1>1, <1>2, <3>1
      <4>2. m < p
        BY <2>2, <3>1, <4>1
      <4> QED BY <1>1, <4>1, <4>2
    <3>2. CASE i \in B
      <4>1. i <= i0 /\ i \in Live
        BY <1>2, <2>1, <3>2
      <4>2. PICK l \in DOMAIN q, n \in DOMAIN q : l <= n /\ q[l] = entries[i] /\ q[n] = entries[i0]
        BY <1>3, <2>1, <4>1
      <4>3. n < p
        BY <2>1, <2>2, <4>2
      <4> QED BY <1>1, <4>2, <4>3
    <3> QED BY <3>1, <3>2
  <2> DEFINE f == [i \in B \cup I |-> CHOOSE m \in 1..p - 1 : m \in DOMAIN q /\ q[m] = entries[i]]
  <2>4. \A i \in B \cup I : f[i] \in 1..p - 1 /\ q[f[i]] = entries[i]
    BY <2>3
  <2>5. f \in [B \cup I -> 1..p - 1]
    BY <2>4
  <2> HIDE DEF f
  <2>6. f \in Injection(B \cup I, 1..p - 1)
    <3>1. \A i, k \in B \cup I : f[i] = f[k] => i = k
      BY <1>2, <2>4
    <3> QED BY <2>5, <3>1 DEF Injection, IsInjective
  <2>7. IsFiniteSet(B) /\ IsFiniteSet(I)
    BY <1>6, FS_Subset
  <2>8. p \in 1..Len(entries) /\ IsFiniteSet(1..p - 1) /\ Cardinality(1..p - 1) = p - 1
    <3>1. p # 0
      <4>1. PICK m \in DOMAIN q : q[m] = entries[i0]
        BY <1>1, <1>2, <2>1
      <4>2. m < p
        BY <2>1, <2>2, <4>1
      <4> QED BY <1>1, <4>2
    <3>2. p \in 1..Len(entries)
      BY <1>2, <2>1, <3>1
    <3> QED BY <3>1, <3>2, FS_Interval
  <2>9. Cardinality(B \cup I) <= p - 1
    BY <2>6, <2>8, FS_Injection
  <2>10. Cardinality(B \cup I) = Cardinality(B) + Cardinality(I)
    <3>1. B \cap I = {}
      BY <1>2
    <3>2. Cardinality(B \cup I) = Cardinality(B) + Cardinality(I) - Cardinality(B \cap I)
      BY <2>7, FS_Union
    <3>3. Cardinality(B) \in Nat /\ Cardinality(I) \in Nat
      BY <2>7, FS_CardinalityType
    <3>4. Cardinality(B \cap I) = 0
      BY <3>1, FS_EmptySet, Zenon
    <3> HIDE DEF B, I
    <3> QED BY <3>2, <3>3, <3>4
  <2>11. p - 1 <= Cardinality(B) + Cardinality(Free(entries))
    <3>1. 1..p - 1 \subseteq B \cup Free(entries)
      BY <1>2, <2>8 DEF Free, Live
    <3>2. IsFiniteSet(B \cup Free(entries)) /\ Cardinality(1..p - 1) <= Cardinality(B \cup Free(entries))
      BY <1>6, <2>7, <3>1, FS_Union, FS_Subset
    <3>3. Cardinality(B \cup Free(entries))
             = Cardinality(B) + Cardinality(Free(entries)) - Cardinality(B \cap Free(entries))
      BY <1>6, <2>7, FS_Union
    <3>4. Cardinality(B \cap Free(entries)) \in Nat /\ Cardinality(B) \in Nat
      BY <2>7, FS_Intersection, FS_CardinalityType
    <3> HIDE DEF B
    <3> QED BY <1>6, <2>8, <3>2, <3>3, <3>4
  <2>12. Cardinality(D) <= Cardinality(I)
    <3> DEFINE g == [t \in D |-> CHOOSE i \in Live : entries[i] = t /\ p <= i]
    <3>1. \A t \in D : g[t] \in I /\ entries[g[t]] = t
      BY <1>5
    <3>2. g \in [D -> I]
      BY <3>1
    <3> HIDE DEF g, D, I
    <3>3. g \in Injection(D, I)
      BY <3>1, <3>2 DEF Injection, IsInjective
    <3> QED BY <2>7, <3>3, FS_Injection
  <2>13. Cardinality(B) \in Nat /\ Cardinality(I) \in Nat
    BY <2>7, FS_CardinalityType
  <2>14. IsFiniteSet(D) /\ Cardinality(D) \in Nat
    <3>1. D \in SUBSET Installed
      BY <1>2, <1>5
    <3> HIDE DEF D
    <3> QED BY <3>1, EntriesAre, FS_Subset, FS_CardinalityType
  <2> HIDE DEF B, I, D
  <2>15. Cardinality(D) <= Cardinality(Free(entries))
    BY <1>6, <2>8, <2>9, <2>10, <2>11, <2>12, <2>13, <2>14
  <2> QED BY <1>4, <2>15 DEF D
<1> QED BY <1>7, <1>8

\* Whether the table is built anew or not: what gets behind p pays for itself in free slots.
LEMMA ShiftIs ==
    ASSUME entries \in Slots, Once(entries), NEW q \in {entries} \cup Rebuilt
    PROVE  /\ q \in Slots /\ Once(q)
           /\ \A t : t \in Held(q, 1) <=> t \in Installed
           /\ \A p \in Nat :
                 /\ Held(q, p) \subseteq Held(entries, p)
                 /\ IsFiniteSet(Held(entries, p) \ Held(q, p))
                 /\ Cardinality(Held(entries, p) \ Held(q, p)) \in Nat
                 /\ Cardinality(Free(q)) \in Nat
                 /\ Cardinality(Held(entries, p) \ Held(q, p)) + Cardinality(Free(q))
                       <= Cardinality(Free(entries))
<1>1. /\ IsFiniteSet(Installed) /\ None \notin Installed
      /\ Cardinality(Free(entries)) \in Nat
      /\ \A t : t \in Installed <=> t \in Held(entries, 1)
  BY EntriesAre, AgentSchedulerAssumption
<1>2. \A p \in Nat : Held(entries, p) \in SUBSET Installed
  BY DEF Held, Installed, Live
<1>3. CASE q = entries
  <2>1. \A p \in Nat : Held(entries, p) \ Held(q, p) = {}
    BY <1>3
  <2>2. IsFiniteSet({}) /\ Cardinality({}) = 0
    BY FS_EmptySet
  <2> QED BY <1>1, <1>3, <2>1, <2>2
<1>4. CASE q \in Rebuilt
  <2>1. /\ q \in Slots /\ Once(q) /\ Free(q) = {} /\ DOMAIN q = 1..Len(q)
        /\ \A m \in DOMAIN q : q[m] \in Installed
        /\ \A t \in Installed : \E m \in DOMAIN q : q[m] = t
    BY <1>4, RebuiltIs
  <2>2. \A t : t \in Held(q, 1) <=> t \in Installed
    BY <1>1, <2>1 DEF Held
  <2>3. Cardinality(Free(q)) = 0
    BY <2>1, FS_EmptySet
  <2>4. ASSUME NEW p \in Nat
        PROVE  /\ Held(q, p) \subseteq Held(entries, p)
               /\ IsFiniteSet(Held(entries, p) \ Held(q, p))
               /\ Cardinality(Held(entries, p) \ Held(q, p)) \in Nat
               /\ Cardinality(Held(entries, p) \ Held(q, p)) <= Cardinality(Free(entries))
    <3>1. /\ Held(q, p) \subseteq Held(entries, p)
          /\ Cardinality(Held(entries, p) \ Held(q, p)) <= Cardinality(Free(entries))
      BY <1>4, BehindIs
    <3>2. Held(entries, p) \ Held(q, p) \in SUBSET Installed
      BY <1>2
    <3>3. IsFiniteSet(Held(entries, p) \ Held(q, p))
      BY <1>1, <3>2, FS_Subset
    <3> QED BY <3>1, <3>3, FS_CardinalityType
  <2>5. ASSUME NEW p \in Nat
        PROVE  Cardinality(Held(entries, p) \ Held(q, p)) + Cardinality(Free(q))
                  <= Cardinality(Free(entries))
    BY <1>1, <2>3, <2>4
  <2>6. Cardinality(Free(q)) \in Nat
    BY <2>3
  <2> QED BY <2>1, <2>2, <2>4, <2>5, <2>6
<1> QED BY <1>3, <1>4

\* A new id takes the slot behind the last.
LEMMA AppendedLast ==
    ASSUME NEW q \in Slots, Once(q), NEW t \in Schedule, t \notin Held(q, 1)
    PROVE  /\ Append(q, t) \in Slots /\ Once(Append(q, t))
           /\ Free(Append(q, t)) = Free(q)
           /\ t \in Held(Append(q, t), 1)
           /\ \A p \in Nat : /\ Held(q, p) \subseteq Held(Append(q, t), p)
                             /\ Held(Append(q, t), p) \subseteq Held(q, p) \cup {t}
<1> DEFINE r == Append(q, t)
<1>0. t # None
  BY AgentSchedulerAssumption
<1>1. /\ r \in Slots /\ Len(r) = Len(q) + 1 /\ r[Len(q) + 1] = t
      /\ \A i \in 1..Len(q) : r[i] = q[i]
  BY AppendProperties DEF Slots
<1> HIDE DEF r
<1>2. DOMAIN r = 1..Len(q) + 1 /\ DOMAIN q = 1..Len(q) /\ Len(q) \in Nat
  BY <1>1 DEF Slots
<1>3. \A i \in DOMAIN r : (i \in DOMAIN q /\ r[i] = q[i]) \/ (i = Len(q) + 1 /\ r[i] = t)
  BY <1>1, <1>2
<1>4. \A i \in DOMAIN q : i \in DOMAIN r /\ r[i] = q[i]
  BY <1>1, <1>2
<1>5. \A i \in DOMAIN q : q[i] # t
  BY <1>0, <1>2 DEF Held
<1>6. Once(r)
  BY <1>3, <1>5 DEF Once
<1>7. Free(r) = Free(q)
  BY <1>0, <1>3, <1>4 DEF Free
<1>8. Len(q) + 1 \in DOMAIN r /\ 1 <= Len(q) + 1
  BY <1>2
<1>9. t \in Held(r, 1)
  BY <1>0, <1>1, <1>8 DEF Held
<1>10. \A p \in Nat : Held(q, p) \subseteq Held(r, p) /\ Held(r, p) \subseteq Held(q, p) \cup {t}
  BY <1>3, <1>4 DEF Held
<1> QED BY <1>1, <1>6, <1>7, <1>9, <1>10 DEF r

\* The slot of a removed id is free, and one more than before.
LEMMA Freed ==
    ASSUME entries \in Slots, Once(entries), NEW t \in Installed
    PROVE  LET q == [i \in DOMAIN entries |-> IF entries[i] = t THEN None ELSE entries[i]] IN
           /\ q \in Slots /\ Once(q)
           /\ \A p : Held(q, p) = Held(entries, p) \ {t}
           /\ Cardinality(Free(q)) \in Nat
           /\ Cardinality(Free(q)) <= Cardinality(Free(entries)) + 1
<1> DEFINE q == [i \in DOMAIN entries |-> IF entries[i] = t THEN None ELSE entries[i]]
<1>1. DOMAIN entries = 1..Len(entries) /\ Len(entries) \in Nat
      /\ \A i \in DOMAIN entries : entries[i] \in Schedule \cup {None}
  BY DEF Slots
<1>2. q \in Slots
  <2>1. q \in [1..Len(entries) -> Schedule \cup {None}]
    BY <1>1
  <2> QED BY <1>1, <2>1 DEF Slots
<1>3. DOMAIN q = DOMAIN entries
      /\ \A i \in DOMAIN entries : q[i] = IF entries[i] = t THEN None ELSE entries[i]
  OBVIOUS
<1> HIDE DEF q
<1>4. Once(q)
  BY <1>3 DEF Once
<1>5. \A p : Held(q, p) = Held(entries, p) \ {t}
  BY <1>3 DEF Held
<1>6. PICK k \in DOMAIN entries : entries[k] = t /\ t # None
  BY DEF Installed, Live
<1>7. Free(q) = Free(entries) \cup {k}
  BY <1>3, <1>6 DEF Free, Once
<1>8. IsFiniteSet(Free(entries)) /\ Cardinality(Free(entries)) \in Nat
  BY EntriesAre
<1>9. Cardinality(Free(q)) \in Nat /\ Cardinality(Free(q)) <= Cardinality(Free(entries)) + 1
  <2>1. /\ IsFiniteSet(Free(q))
        /\ Cardinality(Free(q)) = IF k \in Free(entries) THEN Cardinality(Free(entries))
                                 ELSE Cardinality(Free(entries)) + 1
    BY <1>7, <1>8, FS_AddElement
  <2> QED BY <1>8, <2>1
<1> QED BY <1>2, <1>4, <1>5, <1>9 DEF q

(***************************************************************************)
(* What the triggers do.  Nobody sees an object of the agents that         *)
(* override the transition table analyzing or reporting.                   *)
(***************************************************************************)
Allowed(a) == {"idle", "working", "waiting", "dead_letter"}
                 \cup IF a \in overriding THEN {} ELSE {"reporting"}

LEMMA ApplyIs ==
    ASSUME NEW a, NEW s, NEW trigger
    PROVE  LET table == IF a \in overriding THEN OverridingTable ELSE BaseTable IN
           /\ (\A m \in table : ~(m[1] = s /\ m[2] = trigger)) => Apply(a, s, trigger) = s
           /\ \A m \in table : (m[1] = s /\ m[2] = trigger) => Apply(a, s, trigger) = m[3]
<1> DEFINE table == IF a \in overriding THEN OverridingTable ELSE BaseTable
           moves == {m \in table : m[2] = trigger /\ m[1] = s}
<1>1. Apply(a, s, trigger) = IF moves = {} THEN s ELSE (CHOOSE m \in moves : TRUE)[3]
  BY DEF Apply
<1>2. \A m, l \in table : (m[1] = l[1] /\ m[2] = l[2]) => m[3] = l[3]
  BY DEF OverridingTable, BaseTable
<1>3. moves # {} => (CHOOSE m \in moves : TRUE) \in moves
  OBVIOUS
<1> QED BY <1>1, <1>2, <1>3

LEMMA TableMoves ==
    ASSUME NEW a, NEW s, NEW trigger
    PROVE  LET table == IF a \in overriding THEN OverridingTable ELSE BaseTable IN
           /\ \A r : <<s, trigger, r>> \in table => Apply(a, s, trigger) = r
           /\ (\A r : <<s, trigger, r>> \notin table) => Apply(a, s, trigger) = s
<1> DEFINE table == IF a \in overriding THEN OverridingTable ELSE BaseTable
<1>1. \A r : <<s, trigger, r>> \in table => Apply(a, s, trigger) = r
  BY ApplyIs
<1>2. \A m \in table : m = <<m[1], m[2], m[3]>>
  BY DEF OverridingTable, BaseTable
<1>3. (\A r : <<s, trigger, r>> \notin table) => \A m \in table : ~(m[1] = s /\ m[2] = trigger)
  BY <1>2
<1> QED BY <1>1, <1>3, ApplyIs

LEMMA OverridingMoves ==
    ASSUME NEW a \in overriding
    PROVE  /\ \A s : s # "idle" => Apply(a, s, "start_work") = s
           /\ Apply(a, "idle", "start_work") = "working"
           /\ \A s : Apply(a, s, "start") = s /\ Apply(a, s, "complete") = s
                     /\ Apply(a, s, "done") = s /\ Apply(a, s, "fail") = s
           /\ Apply(a, "working", "work_complete") = "analyzing"
           /\ Apply(a, "analyzing", "analysis_complete") = "reporting"
           /\ Apply(a, "reporting", "report_sent") = "waiting"
           /\ \A s : s # "working" => Apply(a, s, "work_complete") = s
           /\ \A s : s # "analyzing" => Apply(a, s, "analysis_complete") = s
           /\ \A s : s # "reporting" => Apply(a, s, "report_sent") = s
           /\ \A s : s # "error" => /\ Apply(a, s, "retry") = s
                                    /\ Apply(a, s, "max_retries") = s
<1>1. \A s, trigger, r : <<s, trigger, r>> \in OverridingTable <=>
        \/ s = "idle" /\ trigger = "start_work" /\ r = "working"
        \/ s = "working" /\ trigger = "work_complete" /\ r = "analyzing"
        \/ s = "analyzing" /\ trigger = "analysis_complete" /\ r = "reporting"
        \/ s = "reporting" /\ trigger = "report_sent" /\ r = "waiting"
        \/ s = "error" /\ trigger = "retry" /\ r = "working"
        \/ s = "error" /\ trigger = "max_retries" /\ r = "dead_letter"
  BY DEF OverridingTable
<1>2. \A s, trigger :
        /\ \A r : <<s, trigger, r>> \in OverridingTable => Apply(a, s, trigger) = r
        /\ (\A r : <<s, trigger, r>> \notin OverridingTable) => Apply(a, s, trigger) = s
  BY TableMoves
<1>3. \A s, trigger :
        ~(\/ s = "idle" /\ trigger = "start_work"
          \/ s = "working" /\ trigger = "work_complete"
          \/ s = "analyzing" /\ trigger = "analysis_complete"
          \/ s = "reporting" /\ trigger = "report_sent"
          \/ s = "error" /\ trigger = "retry"
          \/ s = "error" /\ trigger = "max_retries")
          => Apply(a, s, trigger) = s
  BY <1>1, <1>2
<1>4. /\ <<"idle", "start_work", "working">> \in OverridingTable
      /\ <<"working", "work_complete", "analyzing">> \in OverridingTable
      /\ <<"analyzing", "analysis_complete", "reporting">> \in OverridingTable
      /\ <<"reporting", "report_sent", "waiting">> \in OverridingTable
      /\ <<"error", "retry", "working">> \in OverridingTable
      /\ <<"error", "max_retries", "dead_letter">> \in OverridingTable
  BY DEF OverridingTable
<1>5. /\ Apply(a, "idle", "start_work") = "working"
      /\ Apply(a, "working", "work_complete") = "analyzing"
      /\ Apply(a, "analyzing", "analysis_complete") = "reporting"
      /\ Apply(a, "reporting", "report_sent") = "waiting"
      /\ Apply(a, "error", "retry") = "working"
      /\ Apply(a, "error", "max_retries") = "dead_letter"
  BY <1>2, <1>4
<1> QED BY <1>3, <1>5

LEMMA BaseMoves ==
    ASSUME NEW a, a \notin overriding
    PROVE  /\ \A s : s # "idle" => Apply(a, s, "start") = s
           /\ Apply(a, "idle", "start") = "working"
           /\ \A s : Apply(a, s, "start_work") = s /\ Apply(a, s, "work_complete") = s
                     /\ Apply(a, s, "analysis_complete") = s /\ Apply(a, s, "report_sent") = s
           /\ Apply(a, "working", "complete") = "reporting"
           /\ Apply(a, "working", "fail") = "error"
           /\ Apply(a, "reporting", "done") = "waiting"
           /\ Apply(a, "error", "retry") = "working"
           /\ Apply(a, "error", "max_retries") = "dead_letter"
           /\ \A s : s # "working" => Apply(a, s, "complete") = s /\ Apply(a, s, "fail") = s
           /\ \A s : s # "reporting" => Apply(a, s, "done") = s
           /\ \A s : s # "error" => /\ Apply(a, s, "retry") = s
                                    /\ Apply(a, s, "max_retries") = s
<1>1. \A s, trigger, r : <<s, trigger, r>> \in BaseTable <=>
        \/ s = "idle" /\ trigger = "start" /\ r = "working"
        \/ s = "working" /\ trigger = "complete" /\ r = "reporting"
        \/ s = "working" /\ trigger = "fail" /\ r = "error"
        \/ s = "reporting" /\ trigger = "done" /\ r = "waiting"
        \/ s = "error" /\ trigger = "retry" /\ r = "working"
        \/ s = "error" /\ trigger = "max_retries" /\ r = "dead_letter"
  BY DEF BaseTable
<1>2. \A s, trigger :
        /\ \A r : <<s, trigger, r>> \in BaseTable => Apply(a, s, trigger) = r
        /\ (\A r : <<s, trigger, r>> \notin BaseTable) => Apply(a, s, trigger) = s
  BY TableMoves
<1>3. \A s, trigger :
        ~(\/ s = "idle" /\ trigger = "start"
          \/ s = "working" /\ trigger = "complete"
          \/ s = "working" /\ trigger = "fail"
          \/ s = "reporting" /\ trigger = "done"
          \/ s = "error" /\ trigger = "retry"
          \/ s = "error" /\ trigger = "max_retries")
          => Apply(a, s, trigger) = s
  BY <1>1, <1>2
<1>4. /\ <<"idle", "start", "working">> \in BaseTable
      /\ <<"working", "complete", "reporting">> \in BaseTable
      /\ <<"working", "fail", "error">> \in BaseTable
      /\ <<"reporting", "done", "waiting">> \in BaseTable
      /\ <<"error", "retry", "working">> \in BaseTable
      /\ <<"error", "max_retries", "dead_letter">> \in BaseTable
  BY DEF BaseTable
<1>5. /\ Apply(a, "idle", "start") = "working"
      /\ Apply(a, "working", "complete") = "reporting"
      /\ Apply(a, "working", "fail") = "error"
      /\ Apply(a, "reporting", "done") = "waiting"
      /\ Apply(a, "error", "retry") = "working"
      /\ Apply(a, "error", "max_retries") = "dead_letter"
  BY <1>2, <1>4
<1> QED BY <1>3, <1>5

(***************************************************************************)
(* Hence what the parts of a run do: its start, the end of its work, its   *)
(* failure and its report.                                                 *)
(***************************************************************************)
LEMMA RunMoves ==
    ASSUME NEW a, state[a] \in Allowed(a)
    PROVE  /\ \A s \in Allowed(a) :
                 /\ StateAtStart(a, s) = IF s = "idle" THEN "working" ELSE s
                 /\ Apply(a, s, "done") = IF s = "reporting" THEN "waiting" ELSE s
           /\ StateAfterWork(a) = IF state[a] # "working" THEN state[a]
                                  ELSE IF a \in overriding THEN "waiting" ELSE "reporting"
           /\ StateAfterFailure(a) =
                 IF a \in overriding \/ state[a] # "working" THEN state[a]
                 ELSE IF retries[a] + 1 <= MaxRetries THEN "working" ELSE "dead_letter"
<1>1. CASE a \in overriding
  <2>1. \A s \in Allowed(a) :
          s \in {"idle", "working", "waiting", "dead_letter"}
    BY <1>1 DEF Allowed
  <2>2. \A s \in Allowed(a) : StateAtStart(a, s) = IF s = "idle" THEN "working" ELSE s
    BY <1>1, OverridingMoves DEF StateAtStart
  <2>3. \A s \in Allowed(a) : Apply(a, s, "done") = IF s = "reporting" THEN "waiting" ELSE s
    BY <1>1, <2>1, OverridingMoves
  <2>4. StateAfterWork(a) = IF state[a] # "working" THEN state[a] ELSE "waiting"
    BY <1>1, <2>1, OverridingMoves DEF StateAfterWork
  <2>5. StateAfterFailure(a) = state[a]
    BY <1>1, <2>1, OverridingMoves DEF StateAfterFailure
  <2> QED BY <1>1, <2>2, <2>3, <2>4, <2>5
<1>2. CASE a \notin overriding
  <2>1. \A s \in Allowed(a) :
          s \in {"idle", "working", "waiting", "dead_letter", "reporting"}
    BY <1>2 DEF Allowed
  <2>2. \A s \in Allowed(a) : StateAtStart(a, s) = IF s = "idle" THEN "working" ELSE s
    BY <1>2, BaseMoves DEF StateAtStart
  <2>3. \A s \in Allowed(a) : Apply(a, s, "done") = IF s = "reporting" THEN "waiting" ELSE s
    BY <1>2, BaseMoves
  <2>4. StateAfterWork(a) = IF state[a] # "working" THEN state[a] ELSE "reporting"
    BY <1>2, BaseMoves DEF StateAfterWork
  <2>5. StateAfterFailure(a) =
          IF state[a] # "working" THEN state[a]
          ELSE IF retries[a] + 1 <= MaxRetries THEN "working" ELSE "dead_letter"
    <3>1. CASE retries[a] + 1 <= MaxRetries
      BY <1>2, <2>1, <3>1, BaseMoves DEF StateAfterFailure
    <3>2. CASE ~(retries[a] + 1 <= MaxRetries)
      BY <1>2, <2>1, <3>2, BaseMoves DEF StateAfterFailure
    <3> QED BY <3>1, <3>2
  <2> QED BY <1>2, <2>2, <2>3, <2>4, <2>5
<1> QED BY <1>1, <1>2

(***************************************************************************)
(* The invariant.                                                          *)
(***************************************************************************)
Running == {"execute", "report", "report_failure"}
Untouched(t) == t \notin touched /\ TargetOf[t] \notin touched
Iterator == [pos : Nat, used : Nat, len : Int]

Typed ==
    /\ entries \in Slots /\ Once(entries)
    /\ enabled \in [Schedule -> BOOLEAN]
    /\ current \in [Name -> Agent \cup {None}]
    /\ state \in [Agent -> {"idle", "working", "reporting", "waiting", "dead_letter"}]
    /\ retries \in [Agent -> 0..MaxRetries + 1]
    /\ lastOk \in [Agent -> BOOLEAN \cup {None}]
    /\ age \in [Schedule -> 0..Interval]
    /\ pc \in [Coroutine -> {"sleep", "idle", "handlers", "execute", "report",
                             "report_failure", "raised", "stopped", "done"}]
    /\ cursor \in [Coroutine -> Iterator]
    /\ job \in [Coroutine -> Schedule \cup {None}]
    /\ object \in [Coroutine -> Agent \cup {None}]
    /\ stale \in [Coroutine -> BOOLEAN]
    /\ served \in [Event -> SUBSET Schedule]
    /\ dueAtWake \subseteq Schedule \ OnEvent
    /\ \A n \in Name : current[n] # None => NameOf[current[n]] = n
    /\ \A c \in Coroutine :
          IF pc[c] \in Running
          THEN /\ job[c] \in Schedule /\ object[c] \in Agent
               /\ NameOf[object[c]] = TargetOf[job[c]]
          ELSE job[c] = None /\ object[c] = None

\* A coroutine does not have its own schedule before it, unless it was replaced.
Passed ==
    \A c \in Coroutine :
        pc[c] \in Running /\ ~stale[c] => job[c] \notin Held(entries, cursor[c].pos)

\* Lives of the objects, whichever runs share them.
Lives ==
    /\ \A a \in Agent :
          /\ state[a] \in Allowed(a)
          /\ lastOk[a] = TRUE => state[a] \in {"waiting", "dead_letter"}
    /\ \A c \in Coroutine :
          /\ pc[c] \in Running => state[object[c]] # "idle"
          /\ pc[c] = "report" => state[object[c]] # "working"

\* A schedule nobody edits stays in force.
Intact ==
    \A t \in Schedule : Untouched(t) =>
        t \in Installed /\ enabled[t] /\ current[TargetOf[t]] # None

\* What an event that is at position p will not serve although nobody edited it.
LostAt(e, p) == {t \in OnEvent : Untouched(t) /\ t \notin served[e] \cup Held(entries, p)}

\* A removal pays for a free slot, and a free slot for a schedule that is lost when the table
\* is built anew.
Accounted(e) ==
    /\ pc[e] \in Running =>
          Cardinality(LostAt(e, cursor[e].pos)) + Cardinality(Free(entries)) <= removals
    /\ pc[e] = "done" => Cardinality(Missed(e)) <= removals

Serving ==
    /\ removals \in Nat /\ Cardinality(Free(entries)) <= removals
    /\ \A e \in Event : Accounted(e)

\* What was due when the loop woke, and is still before it, is due.
DueIsDue ==
    pc[Loop] \in Running =>
        \A t \in dueAtWake \cap Held(entries, cursor[Loop].pos) : age[t] = Interval

IInv == Typed /\ Passed /\ Lives /\ Intact /\ Serving /\ DueIsDue

\* Event schedules can be counted.
LEMMA Countable ==
    ASSUME NEW A \in SUBSET OnEvent
    PROVE  /\ IsFiniteSet(A) /\ Cardinality(A) \in Nat
           /\ \A B \in SUBSET A : Cardinality(B) \in Nat /\ Cardinality(B) <= Cardinality(A)
<1>1. IsFiniteSet(OnEvent)
  BY AgentSchedulerAssumption, FS_Subset
<1>2. IsFiniteSet(A)
  BY <1>1, FS_Subset
<1>3. \A B \in SUBSET A : IsFiniteSet(B) /\ Cardinality(B) <= Cardinality(A)
  BY <1>2, FS_Subset
<1> QED BY <1>2, <1>3, FS_CardinalityType

\* An event that does not move keeps its account when nothing but edits happens.
LEMMA AccountKept ==
    ASSUME IInv, NEW e \in Event, touched \subseteq touched', UNCHANGED <<entries, removals>>,
           served'[e] = served[e], cursor'[e] = cursor[e],
           pc'[e] \in Running => pc[e] \in Running, pc'[e] = "done" => pc[e] = "done"
    PROVE  Accounted(e)'
<1> DEFINE p == cursor[e].pos
<1>0. removals \in Nat /\ Cardinality(Free(entries)) \in Nat /\ Accounted(e)
  BY EntriesAre DEF IInv, Typed, Serving
<1>1. LostAt(e, p)' \in SUBSET LostAt(e, p) /\ LostAt(e, p) \in SUBSET OnEvent
  BY DEF LostAt, Untouched
<1>2. Missed(e)' \in SUBSET Missed(e) /\ Missed(e) \in SUBSET OnEvent
  BY DEF Missed
<1>3. LostAt(e, cursor[e].pos)' = LostAt(e, p)'
  BY DEF LostAt
<1>4. /\ Cardinality(LostAt(e, p)') \in Nat /\ Cardinality(LostAt(e, p)) \in Nat
      /\ Cardinality(LostAt(e, p)') <= Cardinality(LostAt(e, p))
  BY <1>1, Countable
<1>5. /\ Cardinality(Missed(e)') \in Nat /\ Cardinality(Missed(e)) \in Nat
      /\ Cardinality(Missed(e)') <= Cardinality(Missed(e))
  BY <1>2, Countable
<1>6. pc'[e] \in Running =>
         Cardinality(LostAt(e, p)') + Cardinality(Free(entries)) <= removals
  BY <1>0, <1>4 DEF Accounted
<1>7. pc'[e] = "done" => Cardinality(Missed(e)') <= removals
  BY <1>0, <1>5 DEF Accounted
<1> QED BY <1>3, <1>6, <1>7 DEF Accounted, Running

(***************************************************************************)
(* The iteration over the schedules: it halts, or takes the first that is  *)
(* eligible.                                                               *)
(***************************************************************************)
Halts(c, w, s) ==
    /\ pc' = [pc EXCEPT ![c] = w]
    /\ w \in {"raised", IF c = Loop THEN "sleep" ELSE "done"}
    /\ cursor' = [cursor EXCEPT ![c] = Closed]
    /\ job' = [job EXCEPT ![c] = None]
    /\ object' = [object EXCEPT ![c] = None]
    /\ dueAtWake' = IF c = Loop THEN {} ELSE dueAtWake
    /\ state' = s /\ UNCHANGED served

Takes(c, r, due, s, t) ==
    LET a == current[TargetOf[t]] IN
    /\ pc' = [pc EXCEPT ![c] = "execute"]
    /\ cursor' = [cursor EXCEPT ![c] = r]
    /\ job' = [job EXCEPT ![c] = t]
    /\ object' = [object EXCEPT ![c] = a]
    /\ dueAtWake' = IF c = Loop THEN due ELSE dueAtWake
    /\ state' = [s EXCEPT ![a] = StateAtStart(a, @)]
    /\ served' = IF c = Loop THEN served ELSE [served EXCEPT ![c] = @ \cup {t}]

\* t is the first that is eligible from position p on, and q is behind it.
FirstFrom(c, due, p, q, t) ==
    /\ t \in Schedule /\ Eligible(c, t, due) /\ t \in Held(entries, p)
    /\ t \notin Held(entries, q) /\ Held(entries, q) \subseteq Held(entries, p)
    /\ \A u \in Held(entries, p) : Eligible(c, u, due) => u = t \/ u \in Held(entries, q)

LEMMA IterateIs ==
    ASSUME entries \in Slots, Once(entries), NEW c, NEW iter \in Iterator, NEW due, NEW s,
           Iterate(c, iter, due, s)
    PROVE  \/ \E w : /\ Halts(c, w, s)
                     /\ w # "raised" => \A t \in Held(entries, iter.pos) : ~Eligible(c, t, due)
           \/ \E t : \E r \in Iterator :
                 Takes(c, r, due, s, t) /\ FirstFrom(c, due, iter.pos, r.pos, t)
<1> DEFINE hits == {i \in Ahead(iter.pos) : Eligible(c, entries[i], due)}
           met == {i \in Ahead(iter.pos) : \A j \in hits : i <= j}
           broken == iter.used # Cardinality(Live) \/ iter.len < Cardinality(met)
<1>0. /\ iter.pos \in Nat /\ iter.used \in Nat /\ iter.len \in Int
      /\ iter = [pos |-> iter.pos, used |-> iter.used, len |-> iter.len]
  BY DEF Iterator
<1>a. DOMAIN entries = 1..Len(entries) /\ Len(entries) \in Nat
      /\ \A i \in Live : i \in 1..Len(entries) /\ entries[i] \in Schedule /\ entries[i] # None
  BY DEF Slots, Live
<1>b. {entries[i] : i \in Ahead(iter.pos)} = Held(entries, iter.pos)
  BY EntriesAre
<1>1. CASE broken \/ hits = {}
  <2> DEFINE w == IF broken THEN "raised" ELSE IF c = Loop THEN "sleep" ELSE "done"
  <2>1. Halts(c, w, s)
    <3>1. pc' = [pc EXCEPT ![c] = w]
      BY <1>1 DEF Iterate, Hits, Met
    <3>2. w \in {"raised", IF c = Loop THEN "sleep" ELSE "done"}
      OBVIOUS
    <3>3. /\ cursor' = [cursor EXCEPT ![c] = Closed]
          /\ job' = [job EXCEPT ![c] = None]
          /\ object' = [object EXCEPT ![c] = None]
          /\ dueAtWake' = IF c = Loop THEN {} ELSE dueAtWake
          /\ state' = s /\ UNCHANGED served
      BY <1>1 DEF Iterate, Hits, Met
    <3> HIDE DEF w
    <3> QED BY <3>1, <3>2, <3>3 DEF Halts
  <2>2. w # "raised" => \A t \in Held(entries, iter.pos) : ~Eligible(c, t, due)
    <3>1. w # "raised" => hits = {}
      BY <1>1
    <3> QED BY <1>b, <3>1
  <2> HIDE DEF w
  <2> QED BY <2>1, <2>2
<1>2. CASE ~(broken \/ hits = {})
  <2>1. PICK first \in hits \cap met :
           LET t == entries[first]
               a == current[TargetOf[t]]
           IN  /\ pc' = [pc EXCEPT ![c] = "execute"]
               /\ cursor' = [cursor EXCEPT ![c] = [pos |-> first + 1, used |-> iter.used,
                                                  len |-> iter.len - Cardinality(met)]]
               /\ job' = [job EXCEPT ![c] = t]
               /\ object' = [object EXCEPT ![c] = a]
               /\ dueAtWake' = IF c = Loop THEN due ELSE dueAtWake
               /\ state' = [s EXCEPT ![a] = StateAtStart(a, @)]
               /\ served' = IF c = Loop THEN served ELSE [served EXCEPT ![c] = @ \cup {t}]
    BY <1>2 DEF Iterate, Hits, Met
  <2>2. PICK r : r = [pos |-> first + 1, used |-> iter.used, len |-> iter.len - Cardinality(met)]
    OBVIOUS
  <2>3. Cardinality(met) \in Nat
    <3>1. met \in SUBSET Live
      BY DEF Ahead
    <3> HIDE DEF met
    <3>2. IsFiniteSet(Live)
      BY EntriesAre
    <3> QED BY <3>1, <3>2, FS_Subset, FS_CardinalityType
  <2>4. first \in Live /\ iter.pos <= first /\ Eligible(c, entries[first], due)
        /\ \A j \in hits : first <= j
    BY DEF Ahead
  <2>5. PICK n \in Nat : n = Cardinality(met)
    BY <2>3
  <2>6. r \in Iterator /\ r.pos = first + 1
    <3>1. r = [pos |-> first + 1, used |-> iter.used, len |-> iter.len - n]
      BY <2>2, <2>5
    <3>2. first + 1 \in Nat /\ iter.len - n \in Int
      BY <1>0, <1>a, <2>4
    <3> HIDE DEF hits, met, broken
    <3> QED BY <3>1, <3>2 DEF Iterator
  <2>7. Takes(c, r, due, s, entries[first])
    BY <2>1, <2>2 DEF Takes
  <2> HIDE DEF met, broken
  <2>8. entries[first] \in Schedule /\ entries[first] \in Held(entries, iter.pos)
    BY <1>a, <2>4 DEF Held
  <2>9. entries[first] \notin Held(entries, r.pos)
    <3> SUFFICES ASSUME NEW j \in DOMAIN entries, r.pos <= j, entries[j] = entries[first]
                 PROVE  FALSE
      BY DEF Held
    <3>1. j = first
      BY <1>a, <2>4 DEF Once
    <3> QED BY <1>a, <2>4, <2>6, <3>1
  <2>10. Held(entries, r.pos) \subseteq Held(entries, iter.pos)
    <3>1. \A j \in DOMAIN entries : r.pos <= j => iter.pos <= j
      BY <1>0, <1>a, <2>4, <2>6
    <3> QED BY <3>1 DEF Held
  <2>11. ASSUME NEW u \in Held(entries, iter.pos), Eligible(c, u, due)
         PROVE  u = entries[first] \/ u \in Held(entries, r.pos)
    <3>1. PICK j \in Ahead(iter.pos) : entries[j] = u
      BY <1>b, <2>11
    <3>2. j \in hits /\ j \in Live /\ j \in DOMAIN entries
      BY <1>a, <2>11, <3>1 DEF Ahead
    <3>3. j = first \/ r.pos <= j
      BY <1>a, <2>4, <2>6, <3>2
    <3> QED BY <1>a, <3>1, <3>2, <3>3 DEF Held
  <2>12. FirstFrom(c, due, iter.pos, r.pos, entries[first])
    BY <2>4, <2>8, <2>9, <2>10, <2>11 DEF FirstFrom
  <2> QED BY <2>6, <2>7, <2>12
<1> QED BY <1>1, <1>2

(***************************************************************************)
(* What a step of the iteration needs for the invariant: the states s may  *)
(* have moved on; what is taken as due is due; an event has what it must   *)
(* serve still before it, or it is accounted for.                          *)
(***************************************************************************)
MovesOn(s) ==
    /\ s \in [Agent -> {"idle", "working", "reporting", "waiting", "dead_letter"}]
    /\ \A a \in Agent :
          /\ s[a] \in Allowed(a)
          /\ state[a] # "idle" => s[a] # "idle"
          /\ state[a] \notin {"idle", "working"} => s[a] \notin {"idle", "working"}
          /\ lastOk'[a] = TRUE => s[a] \in {"waiting", "dead_letter"}

Ready(c, iter, due) ==
    /\ iter \in Iterator
    /\ due \subseteq Schedule \ OnEvent
    /\ UNCHANGED <<entries, enabled, current, overriding, retries, touched, removals>>
    /\ lastOk' \in [Agent -> BOOLEAN \cup {None}]
    /\ stale' \in [Coroutine -> BOOLEAN]
    /\ \A x \in Coroutine \ {c} : stale'[x] = stale[x]
    /\ age' \in [Schedule -> 0..Interval]
    /\ IF c = Loop THEN \A t \in due \cap Held(entries, iter.pos) : age'[t] = Interval
       ELSE /\ age' = age
            /\ Cardinality(LostAt(c, iter.pos)) + Cardinality(Free(entries)) <= removals

(***************************************************************************)
(* Halting and taking keep the invariant.                                  *)
(***************************************************************************)
LEMMA HaltStep ==
    ASSUME IInv, NEW c \in Coroutine, NEW iter, NEW due, NEW s, NEW w,
           Ready(c, iter, due), MovesOn(s), Halts(c, w, s),
           w # "raised" => \A t \in Held(entries, iter.pos) : ~Eligible(c, t, due)
    PROVE  IInv'
<1> USE DEF Running
<1>0. Loop \in Coroutine /\ OnEvent \subseteq Schedule
      /\ \A e \in Event : e \in Coroutine /\ e # Loop
  BY AgentSchedulerAssumption DEF Coroutine
<1>1. /\ pc'[c] = w /\ w \in {"raised", IF c = Loop THEN "sleep" ELSE "done"}
      /\ job'[c] = None /\ object'[c] = None
      /\ \A x \in Coroutine \ {c} : /\ pc'[x] = pc[x] /\ cursor'[x] = cursor[x] /\ job'[x] = job[x]
                                    /\ object'[x] = object[x] /\ stale'[x] = stale[x]
      /\ state' = s /\ served' = served /\ dueAtWake' \subseteq dueAtWake
      /\ c = Loop => pc'[c] # "done"
      /\ c # Loop => dueAtWake' = dueAtWake
  BY DEF Halts, Ready, IInv, Typed
<1>2. Typed'
  <2>1. /\ pc' \in [Coroutine -> {"sleep", "idle", "handlers", "execute", "report",
                                  "report_failure", "raised", "stopped", "done"}]
        /\ job' \in [Coroutine -> Schedule \cup {None}]
        /\ object' \in [Coroutine -> Agent \cup {None}]
    BY DEF Halts, IInv, Typed
  <2>2. cursor' \in [Coroutine -> Iterator]
    <3>1. Closed \in Iterator
      BY DEF Closed, Iterator
    <3> QED BY <3>1 DEF Halts, IInv, Typed
  <2>3. \A x \in Coroutine :
          IF pc'[x] \in Running
          THEN /\ job'[x] \in Schedule /\ object'[x] \in Agent
               /\ NameOf[object'[x]] = TargetOf[job'[x]]
          ELSE job'[x] = None /\ object'[x] = None
    BY <1>1 DEF IInv, Typed
  <2> QED BY <1>1, <2>1, <2>2, <2>3 DEF IInv, Typed, Ready, MovesOn, Name
<1>3. Passed'
  <2>1. \A x \in Coroutine :
           pc'[x] \in Running /\ ~stale'[x] => job'[x] \notin Held(entries, cursor'[x].pos)
    BY <1>1 DEF IInv, Passed
  <2> QED BY <2>1 DEF Passed, Ready
<1>4. Lives'
  <2>1. \A x \in Coroutine : pc'[x] \in Running =>
           pc'[x] = pc[x] /\ object'[x] = object[x] /\ object[x] \in Agent
    BY <1>1 DEF IInv, Typed
  <2> QED BY <1>1, <2>1 DEF IInv, Lives, MovesOn, Ready, Allowed
<1>5. Intact'
  BY DEF IInv, Intact, Untouched, Ready, Installed, Live
<1>6. Serving'
  <2>1. ASSUME NEW e \in Event, e # c
        PROVE  Accounted(e)'
    BY <1>0, <1>1, <2>1, AccountKept DEF Ready
  <2>2. ASSUME c \in Event
        PROVE  Accounted(c)'
    <3>1. Missed(c)' \in SUBSET LostAt(c, iter.pos) \/ w = "raised"
      <4> SUFFICES ASSUME w # "raised", NEW t \in OnEvent, t \notin served[c] \cup touched,
                          TargetOf[t] \notin touched
                   PROVE  t \in LostAt(c, iter.pos)
        BY <1>1 DEF Missed, Ready, LostAt
      <4>1. Eligible(c, t, due)
        BY <1>0, <2>2 DEF Eligible, IInv, Intact, Untouched
      <4>2. t \notin Held(entries, iter.pos)
        BY <4>1
      <4> QED BY <4>2 DEF LostAt, Untouched
    <3>2. LostAt(c, iter.pos) \in SUBSET OnEvent
      BY DEF LostAt
    <3>3. /\ Cardinality(Free(entries)) \in Nat /\ removals \in Nat
          /\ Cardinality(LostAt(c, iter.pos)) \in Nat
      BY <3>2, Countable, EntriesAre DEF IInv, Typed, Serving
    <3>4. Cardinality(LostAt(c, iter.pos)) + Cardinality(Free(entries)) <= removals
      BY <1>0, <2>2 DEF Ready
    <3>5. Cardinality(LostAt(c, iter.pos)) <= removals
      BY <3>3, <3>4
    <3>6. w # "raised" => Cardinality(Missed(c)') <= removals
      <4>1. SUFFICES ASSUME w # "raised" PROVE Cardinality(Missed(c)') <= removals
        OBVIOUS
      <4>2. /\ Cardinality(Missed(c)') \in Nat
            /\ Cardinality(Missed(c)') <= Cardinality(LostAt(c, iter.pos))
        BY <3>1, <3>2, <4>1, Countable
      <4> QED BY <3>3, <3>5, <4>2
    <3>7. removals' = removals /\ pc'[c] \notin Running /\ (pc'[c] = "done" => w # "raised")
      BY <1>1 DEF Ready
    <3> QED BY <3>6, <3>7 DEF Accounted
  <2>3. removals' \in Nat /\ Cardinality(Free(entries')) <= removals'
    BY DEF IInv, Serving, Ready
  <2> QED BY <2>1, <2>2, <2>3 DEF Serving
<1>7. DueIsDue'
  BY <1>0, <1>1 DEF IInv, DueIsDue, Ready
<1> QED BY <1>2, <1>3, <1>4, <1>5, <1>6, <1>7 DEF IInv

LEMMA TakeStep ==
    ASSUME IInv, NEW c \in Coroutine, NEW iter, NEW due, NEW s, NEW r \in Iterator, NEW t,
           Ready(c, iter, due), MovesOn(s), Takes(c, r, due, s, t),
           FirstFrom(c, due, iter.pos, r.pos, t)
    PROVE  IInv'
<1> USE DEF Running
<1> DEFINE a == current[TargetOf[t]]
<1>0. Loop \in Coroutine /\ OnEvent \subseteq Schedule /\ t \in Schedule
      /\ \A e \in Event : e \in Coroutine /\ e # Loop
  BY AgentSchedulerAssumption DEF Coroutine, FirstFrom
<1>1. a \in Agent /\ NameOf[a] = TargetOf[t]
  BY <1>0, AgentSchedulerAssumption DEF Eligible, FirstFrom, IInv, Typed
<1>2. PICK b : b = a
  OBVIOUS
<1>3. /\ pc' = [pc EXCEPT ![c] = "execute"]
      /\ cursor' = [cursor EXCEPT ![c] = r]
      /\ job' = [job EXCEPT ![c] = t]
      /\ object' = [object EXCEPT ![c] = b]
      /\ dueAtWake' = IF c = Loop THEN due ELSE dueAtWake
      /\ state' = [s EXCEPT ![b] = StateAtStart(b, s[b])]
      /\ served' = IF c = Loop THEN served ELSE [served EXCEPT ![c] = @ \cup {t}]
  BY <1>2 DEF Takes
<1> HIDE DEF a
<1>4. /\ pc'[c] = "execute" /\ cursor'[c] = r /\ job'[c] = t /\ object'[c] = b
      /\ \A x \in Coroutine \ {c} : /\ pc'[x] = pc[x] /\ cursor'[x] = cursor[x] /\ job'[x] = job[x]
                                    /\ object'[x] = object[x] /\ stale'[x] = stale[x]
  BY <1>3 DEF IInv, Typed, Ready
<1>5. /\ state' \in [Agent -> {"idle", "working", "reporting", "waiting", "dead_letter"}]
      /\ state'[b] # "idle"
      /\ \A x \in Agent : state'[x] = s[x] \/ (s[x] = "idle" /\ state'[x] = "working")
  <2>1. StateAtStart(b, s[b]) = IF s[b] = "idle" THEN "working" ELSE s[b]
    BY <1>1, <1>2, RunMoves DEF MovesOn, IInv, Lives
  <2>2. state'[b] = StateAtStart(b, s[b]) /\ \A x \in Agent \ {b} : state'[x] = s[x]
    BY <1>1, <1>2, <1>3 DEF MovesOn
  <2>3. StateAtStart(b, s[b]) \in {"idle", "working", "reporting", "waiting", "dead_letter"}
    BY <1>1, <1>2, <2>1 DEF MovesOn
  <2>4. state' \in [Agent -> {"idle", "working", "reporting", "waiting", "dead_letter"}]
    BY <1>3, <2>3 DEF MovesOn
  <2>5. state'[b] # "idle"
    BY <2>1, <2>2
  <2>6. \A x \in Agent : state'[x] = s[x] \/ (s[x] = "idle" /\ state'[x] = "working")
    BY <2>1, <2>2
  <2> QED BY <2>4, <2>5, <2>6
<1>6. Typed'
  <2>1. /\ pc' \in [Coroutine -> {"sleep", "idle", "handlers", "execute", "report",
                                  "report_failure", "raised", "stopped", "done"}]
        /\ cursor' \in [Coroutine -> Iterator]
        /\ job' \in [Coroutine -> Schedule \cup {None}]
        /\ object' \in [Coroutine -> Agent \cup {None}]
    BY <1>0, <1>1, <1>2, <1>3 DEF IInv, Typed
  <2>2. \A x \in Coroutine :
          IF pc'[x] \in Running
          THEN /\ job'[x] \in Schedule /\ object'[x] \in Agent
               /\ NameOf[object'[x]] = TargetOf[job'[x]]
          ELSE job'[x] = None /\ object'[x] = None
    <3>1. /\ job'[c] \in Schedule /\ object'[c] \in Agent
          /\ NameOf[object'[c]] = TargetOf[job'[c]] /\ pc'[c] \in Running
      BY <1>0, <1>1, <1>2, <1>4
    <3>2. \A x \in Coroutine \ {c} :
             IF pc'[x] \in Running
             THEN /\ job'[x] \in Schedule /\ object'[x] \in Agent
                  /\ NameOf[object'[x]] = TargetOf[job'[x]]
             ELSE job'[x] = None /\ object'[x] = None
      BY <1>4 DEF IInv, Typed
    <3> QED BY <3>1, <3>2
  <2>3. served' \in [Event -> SUBSET Schedule] /\ dueAtWake' \subseteq Schedule \ OnEvent
    BY <1>0, <1>3 DEF IInv, Typed, Ready
  <2> QED BY <1>5, <2>1, <2>2, <2>3 DEF IInv, Typed, Ready, Name
<1>7. Passed'
  <2>1. t \notin Held(entries, r.pos)
    BY DEF FirstFrom
  <2>2. \A x \in Coroutine :
           pc'[x] \in Running /\ ~stale'[x] => job'[x] \notin Held(entries, cursor'[x].pos)
    BY <1>4, <2>1 DEF IInv, Passed
  <2> QED BY <2>2 DEF Passed, Ready
<1>8. Lives'
  <2>1. \A x \in Coroutine :
          /\ pc'[x] \in Running => state'[object'[x]] # "idle"
          /\ pc'[x] = "report" => state'[object'[x]] # "working"
    <3> SUFFICES ASSUME NEW x \in Coroutine, x # c
                 PROVE  /\ pc[x] \in Running => state'[object[x]] # "idle"
                        /\ pc[x] = "report" => state'[object[x]] # "working"
      BY <1>4, <1>5
    <3>1. pc[x] \in Running => object[x] \in Agent
      BY DEF IInv, Typed
    <3> QED BY <1>5, <3>1 DEF IInv, Lives, MovesOn
  <2>2. \A x \in Agent : /\ state'[x] \in Allowed(x)'
                         /\ lastOk'[x] = TRUE => state'[x] \in {"waiting", "dead_letter"}
    BY <1>5 DEF MovesOn, Ready, Allowed
  <2> QED BY <2>1, <2>2 DEF Lives
<1>9. Intact'
  BY DEF IInv, Intact, Untouched, Ready, Installed, Live
<1>10. Serving'
  <2>1. ASSUME NEW e \in Event, e # c
        PROVE  Accounted(e)'
    <3>1. served'[e] = served[e]
      BY <1>0, <1>3, <2>1 DEF IInv, Typed
    <3> QED BY <1>0, <1>4, <2>1, <3>1, AccountKept DEF Ready
  <2>2. ASSUME c \in Event
        PROVE  Accounted(c)'
    <3>1. served'[c] = served[c] \cup {t}
      BY <1>0, <1>3, <2>2 DEF IInv, Typed
    <3>2. LostAt(c, r.pos)' \in SUBSET LostAt(c, iter.pos)
      <4> SUFFICES ASSUME NEW u \in OnEvent, Untouched(u), u \notin served[c], u # t,
                          u \notin Held(entries, r.pos), u \in Held(entries, iter.pos)
                   PROVE  FALSE
        BY <3>1 DEF LostAt, Untouched, Ready
      <4>1. Eligible(c, u, due)
        BY <1>0, <2>2 DEF Eligible, IInv, Intact
      <4> QED BY <4>1 DEF FirstFrom
    <3>3. LostAt(c, iter.pos) \in SUBSET OnEvent
      BY DEF LostAt
    <3>4. /\ Cardinality(Free(entries)) \in Nat /\ removals \in Nat
          /\ Cardinality(LostAt(c, iter.pos)) \in Nat
      BY <3>3, Countable, EntriesAre DEF IInv, Typed, Serving
    <3>5. /\ Cardinality(LostAt(c, r.pos)') \in Nat
          /\ Cardinality(LostAt(c, r.pos)') <= Cardinality(LostAt(c, iter.pos))
      BY <3>2, <3>3, Countable
    <3>6. Cardinality(LostAt(c, iter.pos)) + Cardinality(Free(entries)) <= removals
      BY <1>0, <2>2 DEF Ready
    <3>7. Cardinality(LostAt(c, r.pos)') + Cardinality(Free(entries)) <= removals
      BY <3>4, <3>5, <3>6
    <3>8. LostAt(c, cursor[c].pos)' = LostAt(c, r.pos)'
      BY <1>4 DEF LostAt
    <3> QED BY <1>4, <3>7, <3>8 DEF Accounted, Ready
  <2>3. removals' \in Nat /\ Cardinality(Free(entries')) <= removals'
    BY DEF IInv, Serving, Ready
  <2> QED BY <2>1, <2>2, <2>3 DEF Serving
<1>11. DueIsDue'
  <2>2. CASE c = Loop
    <3>1. Held(entries, r.pos) \subseteq Held(entries, iter.pos)
      BY DEF FirstFrom
    <3> QED BY <1>3, <1>4, <2>2, <3>1 DEF DueIsDue, Ready
  <2>3. CASE c # Loop
    BY <1>0, <1>3, <1>4, <2>3 DEF IInv, DueIsDue, Ready
  <2> QED BY <2>2, <2>3
<1> QED BY <1>6, <1>7, <1>8, <1>9, <1>10, <1>11 DEF IInv

LEMMA IterateStep ==
    ASSUME IInv, NEW c \in Coroutine, NEW iter, NEW due, NEW s,
           Ready(c, iter, due), MovesOn(s), Iterate(c, iter, due, s)
    PROVE  IInv'
<1>1. entries \in Slots /\ Once(entries) /\ iter \in Iterator
  BY DEF Ready, IInv, Typed
<1> QED BY <1>1, IterateIs, HaltStep, TakeStep

\* An iteration begins with everything before it.
LEMMA OpenedIs ==
    ASSUME IInv
    PROVE  /\ Opened \in Iterator /\ Opened.pos = 1
           /\ \A e \in Event : Cardinality(LostAt(e, 1)) + Cardinality(Free(entries)) <= removals
<1>1. Cardinality(Live) \in Nat
  BY EntriesAre, FS_CardinalityType DEF IInv, Typed
<1>2. Opened \in Iterator /\ Opened.pos = 1
  BY <1>1 DEF Opened, Iterator
<1>3. \A e \in Event : LostAt(e, 1) = {}
  <2>1. \A t : t \in Installed <=> t \in Held(entries, 1)
    BY EntriesAre DEF IInv, Typed
  <2>2. OnEvent \subseteq Schedule
    BY AgentSchedulerAssumption
  <2> QED BY <2>1, <2>2 DEF LostAt, IInv, Intact
<1>4. Cardinality({}) = 0
  BY FS_EmptySet
<1>5. Cardinality(Free(entries)) \in Nat /\ removals \in Nat /\ Cardinality(Free(entries)) <= removals
  BY EntriesAre DEF IInv, Typed, Serving
<1>6. 0 + Cardinality(Free(entries)) <= removals
  BY <1>5
<1> QED BY <1>2, <1>3, <1>4, <1>6


(***************************************************************************)
(* The loop wakes, and the handlers of an event have returned.             *)
(***************************************************************************)
LEMMA WakeStep == IInv /\ Wake => IInv'
<1> SUFFICES ASSUME IInv, Wake PROVE IInv'
  OBVIOUS
<1>0. Loop \in Coroutine
  BY DEF Coroutine
<1>1. UNCHANGED <<current, overriding, retries, lastOk, entries, enabled, age, touched, removals,
                  stale>>
  BY DEF Wake, scheduleVars, editVars
<1>2. CASE running
  <2>1. PICK iter, due, s : /\ iter = Opened /\ s = state
                            /\ due = {t \in Schedule \ OnEvent : age[t] = Interval}
    OBVIOUS
  <2>2. Iterate(Loop, iter, due, s)
    BY <1>2, <2>1 DEF Wake, Iterate
  <2>3. Ready(Loop, iter, due)
    BY <1>1, <2>1, OpenedIs DEF Ready, IInv, Typed
  <2>4. MovesOn(s)
    BY <1>1, <2>1 DEF MovesOn, IInv, Typed, Lives
  <2> QED BY <1>0, <2>2, <2>3, <2>4, IterateStep
<1>3. CASE ~running
  <2>1. /\ pc[Loop] = "sleep" /\ pc' = [pc EXCEPT ![Loop] = "stopped"]
        /\ UNCHANGED <<cursor, job, object, dueAtWake, served, state>>
    BY <1>3 DEF Wake
  <2>2. /\ pc'[Loop] = "stopped"
        /\ \A x \in Coroutine \ {Loop} : pc'[x] = pc[x]
    BY <1>0, <2>1 DEF IInv, Typed
  <2>3. Typed'
    BY <1>0, <1>1, <2>1, <2>2 DEF IInv, Typed, Running, Once, Name
  <2>4. Passed'
    BY <1>1, <2>1, <2>2 DEF IInv, Passed, Running
  <2>5. Lives'
    BY <1>1, <2>1, <2>2 DEF IInv, Lives, Running, Allowed
  <2>6. Intact' /\ DueIsDue'
    BY <1>1, <2>1, <2>2 DEF IInv, Intact, Untouched, DueIsDue, Running, Installed, Live
  <2>7. Serving'
    <3>1. \A e \in Event : e \in Coroutine \ {Loop}
      BY AgentSchedulerAssumption DEF Coroutine
    <3>2. \A e \in Event : pc'[e] = pc[e] /\ served'[e] = served[e] /\ cursor'[e] = cursor[e]
      BY <2>1, <2>2, <3>1
    <3>3. \A e \in Event : Accounted(e)'
      BY <1>1, <3>2, AccountKept
    <3> QED BY <1>1, <3>3 DEF IInv, Serving
  <2> QED BY <2>3, <2>4, <2>5, <2>6, <2>7 DEF IInv
<1> QED BY <1>2, <1>3

LEMMA HandlersStep ==
    ASSUME IInv, NEW e \in Event, HandlerReturns(e) PROVE IInv'
<1>0. e \in Coroutine /\ e # Loop
  BY AgentSchedulerAssumption DEF Coroutine
<1>1. UNCHANGED <<current, overriding, retries, lastOk, entries, enabled, age, touched, removals,
                  stale>>
  BY DEF HandlerReturns, scheduleVars, editVars
<1>2. CASE calls[e] < copies
  <2>1. UNCHANGED <<pc, cursor, job, object, dueAtWake, served, state>>
    BY <1>2 DEF HandlerReturns
  <2>2. \A x \in Event : Accounted(x)'
    BY <1>1, <2>1, AccountKept
  <2>3. Serving'
    BY <1>1, <2>2 DEF IInv, Serving
  <2> QED BY <1>1, <2>1, <2>3
          DEF IInv, Typed, Passed, Lives, Intact, DueIsDue, Running, Untouched, Allowed,
              Once, Name, Installed, Live
<1>3. CASE ~(calls[e] < copies)
  <2>1. PICK iter, due, s : iter = Opened /\ due = {} /\ s = state
    OBVIOUS
  <2>2. Iterate(e, iter, due, s)
    BY <1>3, <2>1 DEF HandlerReturns, Iterate
  <2>3. Ready(e, iter, due)
    BY <1>0, <1>1, <2>1, OpenedIs DEF Ready, IInv, Typed
  <2>4. MovesOn(s)
    BY <1>1, <2>1 DEF MovesOn, IInv, Typed, Lives
  <2> QED BY <1>0, <2>2, <2>3, <2>4, IterateStep
<1> QED BY <1>2, <1>3

(***************************************************************************)
(* A run ends, well or with a failure, and the iteration goes on.          *)
(***************************************************************************)
LEMMA EndStep ==
    ASSUME IInv, NEW c \in Coroutine, ReportSent(c) \/ FailureReported(c) PROVE IInv'
<1>0. pc[c] \in Running /\ object[c] \in Agent /\ job[c] \in Schedule
  BY DEF ReportSent, FailureReported, IInv, Typed, Running
<1>1. PICK iter, due : iter = cursor[c] /\ due = dueAtWake
  OBVIOUS
<1> DEFINE Ends(ok, returned, s) ==
             /\ RunEnds(c, ok, returned, s)
             /\ IF ok THEN /\ pc[c] = "report"
                           /\ s = [state EXCEPT ![object[c]] = Apply(object[c], @, "done")]
                ELSE s = state
<1>2. PICK ok \in BOOLEAN, returned \in BOOLEAN : \E s : Ends(ok, returned, s)
  <2>1. CASE ReportSent(c)
    <3>1. PICK s : s = [state EXCEPT ![object[c]] = Apply(object[c], @, "done")]
      OBVIOUS
    <3>2. RunEnds(c, TRUE, TRUE, s)
      BY <2>1, <3>1 DEF ReportSent, RunEnds, Iterate
    <3> QED BY <2>1, <3>1, <3>2 DEF ReportSent
  <2>2. CASE FailureReported(c)
    <3>1. PICK s : s = state
      OBVIOUS
    <3>2. PICK returned \in BOOLEAN : RunEnds(c, FALSE, returned, s)
      BY <2>2, <3>1 DEF FailureReported, RunEnds, Iterate
    <3> QED BY <3>1, <3>2
  <2> QED BY <2>1, <2>2
<1>2a. PICK s : Ends(ok, returned, s)
  BY <1>2
<1>3. /\ age' = IF returned /\ ~stale[c] /\ c = Loop THEN [age EXCEPT ![job[c]] = 0] ELSE age
      /\ lastOk' = [lastOk EXCEPT ![object[c]] = ok]
      /\ stale' = [stale EXCEPT ![c] = FALSE]
      /\ UNCHANGED <<current, overriding, retries, entries, enabled, touched, removals>>
  BY <1>2a DEF RunEnds, editVars
<1>4. Iterate(c, iter, due, s)
  BY <1>1, <1>2a DEF RunEnds, Iterate
<1>5. Ready(c, iter, due)
  <2>1. iter \in Iterator /\ due \subseteq Schedule \ OnEvent
    BY <1>1 DEF IInv, Typed
  <2>2. /\ lastOk' \in [Agent -> BOOLEAN \cup {None}]
        /\ stale' \in [Coroutine -> BOOLEAN]
        /\ \A x \in Coroutine \ {c} : stale'[x] = stale[x]
        /\ age' \in [Schedule -> 0..Interval]
    BY <1>0, <1>3, AgentSchedulerAssumption DEF IInv, Typed
  <2>3. CASE c = Loop
    <3>1. \A t \in due \cap Held(entries, iter.pos) : t \in Schedule /\ age[t] = Interval
      BY <1>0, <1>1, <2>1, <2>3 DEF IInv, DueIsDue
    <3>2. ~stale[c] => job[c] \notin Held(entries, iter.pos)
      BY <1>0, <1>1 DEF IInv, Passed
    <3>3. \A t \in due \cap Held(entries, iter.pos) : age'[t] = Interval
      BY <1>0, <1>3, <3>1, <3>2 DEF IInv, Typed
    <3> QED BY <1>3, <2>1, <2>2, <2>3, <3>3 DEF Ready
  <2>4. CASE c # Loop
    <3>1. c \in Event
      BY <2>4 DEF Coroutine
    <3>2. Cardinality(LostAt(c, iter.pos)) + Cardinality(Free(entries)) <= removals
      BY <1>0, <1>1, <3>1 DEF IInv, Serving, Accounted
    <3> QED BY <1>3, <2>1, <2>2, <2>4, <3>2 DEF Ready
  <2> QED BY <2>3, <2>4
<1>6. MovesOn(s)
  <2> DEFINE a == object[c]
  <2>0. state \in [Agent -> {"idle", "working", "reporting", "waiting", "dead_letter"}]
        /\ \A x \in Agent : state[x] \in Allowed(x)
    BY DEF IInv, Typed, Lives
  <2>1. \A x \in Agent \ {a} : s[x] = state[x] /\ lastOk'[x] = lastOk[x]
    BY <1>0, <1>2a, <1>3 DEF IInv, Typed
  <2>2. CASE ok
    <3>1. state[a] \in {"reporting", "waiting", "dead_letter"}
      BY <1>0, <1>2a, <2>0, <2>2 DEF IInv, Lives
    <3>2. Apply(a, state[a], "done") = IF state[a] = "reporting" THEN "waiting" ELSE state[a]
      BY <1>0, <2>0, RunMoves
    <3>3. s = [state EXCEPT ![a] = Apply(a, state[a], "done")]
      BY <1>2a, <2>2
    <3>4. s[a] \in {"waiting", "dead_letter"}
      BY <1>0, <2>0, <3>1, <3>2, <3>3
    <3>5. s \in [Agent -> {"idle", "working", "reporting", "waiting", "dead_letter"}]
      BY <1>0, <2>0, <3>2, <3>3, <3>4
    <3>6. {"waiting", "dead_letter"} \subseteq Allowed(a)
      BY DEF Allowed
    <3> HIDE DEF a
    <3> QED BY <2>0, <2>1, <3>4, <3>5, <3>6 DEF MovesOn, IInv, Lives
  <2>3. CASE ~ok
    <3>1. lastOk'[a] = FALSE /\ s = state
      BY <1>0, <1>2a, <1>3, <2>3 DEF IInv, Typed
    <3> HIDE DEF a
    <3> QED BY <2>0, <2>1, <3>1 DEF MovesOn, IInv, Lives
  <2> QED BY <2>2, <2>3
<1> QED BY <1>4, <1>5, <1>6, IterateStep

(***************************************************************************)
(* execute returns, or the run fails: the object moves on in its table.    *)
(***************************************************************************)
LEMMA WorkStep ==
    ASSUME IInv, NEW c \in Coroutine, ExecuteReturns(c) \/ RunFails(c) PROVE IInv'
<1> DEFINE a == object[c]
<1>0. a \in Agent /\ pc[c] \in Running /\ state[a] \in Allowed(a) /\ state[a] # "idle"
  BY DEF ExecuteReturns, RunFails, IInv, Typed, Lives, Running
<1>1. UNCHANGED <<current, overriding, lastOk, entries, enabled, age, cursor, job, object, stale,
                  dueAtWake, served, touched, removals>>
  BY DEF ExecuteReturns, RunFails, scheduleVars, editVars
<1>2. PICK x, at :
        /\ x \in Allowed(a) /\ x # "idle"
        /\ x \in {"idle", "working", "reporting", "waiting", "dead_letter"}
        /\ at = "report" => x # "working"
        /\ state[a] # "working" => x = state[a]
        /\ at \in {"report", "report_failure"}
        /\ state' = [state EXCEPT ![a] = x]
        /\ pc' = [pc EXCEPT ![c] = at]
  <2>1. CASE ExecuteReturns(c)
    <3> DEFINE x == StateAfterWork(a)
    <3>1. x = IF state[a] # "working" THEN state[a]
              ELSE IF a \in overriding THEN "waiting" ELSE "reporting"
      BY <1>0, RunMoves
    <3>2. x \in Allowed(a) /\ x \notin {"idle", "working"}
      BY <1>0, <3>1 DEF Allowed
    <3>3. state' = [state EXCEPT ![a] = x] /\ pc' = [pc EXCEPT ![c] = "report"]
      BY <2>1 DEF ExecuteReturns
    <3> HIDE DEF x, a
    <3> QED BY <3>1, <3>2, <3>3 DEF Allowed
  <2>2. CASE RunFails(c)
    <3> DEFINE x == StateAfterFailure(a)
    <3>1. x = IF a \in overriding \/ state[a] # "working" THEN state[a]
              ELSE IF retries[a] + 1 <= MaxRetries THEN "working" ELSE "dead_letter"
      BY <1>0, RunMoves
    <3>2. x \in Allowed(a) /\ x # "idle" /\ (state[a] # "working" => x = state[a])
      BY <1>0, <3>1 DEF Allowed
    <3>3. state' = [state EXCEPT ![a] = x] /\ pc' = [pc EXCEPT ![c] = "report_failure"]
      BY <2>2 DEF RunFails
    <3> HIDE DEF x, a
    <3> QED BY <3>2, <3>3 DEF Allowed
  <2> QED BY <2>1, <2>2
<1>3. retries' \in [Agent -> 0..MaxRetries + 1]
  <2>1. MaxRetries \in Nat /\ retries \in [Agent -> 0..MaxRetries + 1]
    BY AgentSchedulerAssumption DEF IInv, Typed
  <2>2. PICK y \in 0..MaxRetries + 1 : retries' = [retries EXCEPT ![a] = y]
    <3>1. CASE ExecuteReturns(c)
      <4>1. 0 \in 0..MaxRetries + 1
        BY <2>1
      <4> QED BY <3>1, <4>1 DEF ExecuteReturns
    <3>2. CASE RunFails(c)
      <4> DEFINE y == IF retries[a] > MaxRetries THEN retries[a] ELSE retries[a] + 1
      <4>1. retries[a] \in 0..MaxRetries + 1
        BY <1>0, <2>1
      <4>2. y \in 0..MaxRetries + 1
        BY <2>1, <4>1
      <4>3. retries' = [retries EXCEPT ![a] = y]
        BY <3>2 DEF RunFails
      <4> HIDE DEF y
      <4> QED BY <4>2, <4>3
    <3> QED BY <3>1, <3>2
  <2> QED BY <2>1, <2>2
<1> HIDE DEF a
<1>4. /\ pc'[c] = at /\ \A y \in Coroutine \ {c} : pc'[y] = pc[y]
      /\ state'[a] = x /\ \A y \in Agent \ {a} : state'[y] = state[y]
  BY <1>0, <1>2 DEF IInv, Typed
<1>5. Typed'
  BY <1>0, <1>1, <1>2, <1>3, <1>4 DEF IInv, Typed, Running, Once, Name
<1>6. Passed'
  BY <1>0, <1>1, <1>2, <1>4 DEF IInv, Passed, Running
<1>7. Lives'
  <2>1. \A y \in Agent : /\ state'[y] \in Allowed(y)'
                         /\ lastOk'[y] = TRUE => state'[y] \in {"waiting", "dead_letter"}
    <3> SUFFICES ASSUME NEW y \in Agent
                 PROVE  /\ state'[y] \in Allowed(y)
                        /\ lastOk[y] = TRUE => state'[y] \in {"waiting", "dead_letter"}
      BY <1>1 DEF Allowed
    <3> QED BY <1>0, <1>2, <1>4 DEF IInv, Lives
  <2>2. \A y \in Coroutine : pc[y] \in Running => object[y] \in Agent
    BY DEF IInv, Typed
  <2>3. \A y \in Coroutine : /\ pc'[y] \in Running => state'[object'[y]] # "idle"
                             /\ pc'[y] = "report" => state'[object'[y]] # "working"
    <3> SUFFICES ASSUME NEW y \in Coroutine
                 PROVE  /\ pc'[y] \in Running => state'[object[y]] # "idle"
                        /\ pc'[y] = "report" => state'[object[y]] # "working"
      BY <1>1
    <3>1. CASE y = c
      BY <1>2, <1>4, <3>1 DEF a
    <3>2. CASE y # c
      BY <1>2, <1>4, <2>2, <3>2 DEF IInv, Lives, Running
    <3> QED BY <3>1, <3>2
  <2> QED BY <2>1, <2>3 DEF Lives
<1>8. Intact'
  BY <1>1 DEF IInv, Intact, Untouched, Installed, Live
<1>9. Serving'
  <2>1. \A e \in Event : e \in Coroutine
    BY DEF Coroutine
  <2>2. ASSUME NEW e \in Event
        PROVE  (pc'[e] \in Running => pc[e] \in Running) /\ (pc'[e] = "done" => pc[e] = "done")
    BY <1>0, <1>2, <1>4, <2>1
  <2>3. \A e \in Event : Accounted(e)'
    BY <1>1, <2>2, AccountKept
  <2> QED BY <1>1, <2>3 DEF IInv, Serving
<1>10. DueIsDue'
  BY <1>0, <1>1, <1>2, <1>4 DEF IInv, DueIsDue, Running, Coroutine
<1> QED BY <1>5, <1>6, <1>7, <1>8, <1>9, <1>10 DEF IInv

LEMMA ArriveStep ==
    ASSUME IInv, NEW e \in Event, Arrive(e) PROVE IInv'
<1>0. e \in Coroutine /\ e # Loop
  BY AgentSchedulerAssumption DEF Coroutine
<1>1. /\ UNCHANGED <<agentVars, scheduleVars, touched, removals, cursor, job, object, stale,
                     dueAtWake, served>>
      /\ pc' = [pc EXCEPT ![e] = "handlers"] /\ pc[e] = "idle"
  BY DEF Arrive, editVars
<1>2. pc'[e] = "handlers" /\ \A y \in Coroutine \ {e} : pc'[y] = pc[y]
  BY <1>0, <1>1 DEF IInv, Typed
<1> USE DEF agentVars, scheduleVars, Running
<1>3. Typed'
  BY <1>0, <1>1, <1>2 DEF IInv, Typed, Once, Name
<1>4. Passed' /\ Lives' /\ Intact'
  BY <1>1, <1>2 DEF IInv, Passed, Lives, Allowed, Intact, Untouched, Installed, Live
<1>5. Serving'
  <2>1. ASSUME NEW x \in Event
        PROVE  (pc'[x] \in Running => pc[x] \in Running) /\ (pc'[x] = "done" => pc[x] = "done")
    BY <1>2 DEF Coroutine
  <2>2. \A x \in Event : Accounted(x)'
    BY <1>1, <2>1, AccountKept
  <2> QED BY <1>1, <2>2 DEF IInv, Serving
<1>6. DueIsDue'
  BY <1>0, <1>1, <1>2 DEF IInv, DueIsDue, Coroutine
<1> QED BY <1>3, <1>4, <1>5, <1>6 DEF IInv

(***************************************************************************)
(* A schedule is added, at the end of the dict unless it replaces another, *)
(* or removed.                                                             *)
(***************************************************************************)
LEMMA AddedIs ==
    ASSUME IInv, NEW t \in Schedule, AddSchedule(t)
    PROVE  /\ entries' \in Slots /\ Once(entries')
           /\ \A u : u \in Held(entries', 1) <=> u \in Installed \cup {t}
           /\ \A p \in Nat :
                 /\ Held(entries', p) \subseteq Held(entries, p) \cup {t}
                 /\ \E n \in Nat, f \in Nat, D \in SUBSET Installed :
                       /\ D = Held(entries, p) \ (Held(entries', p) \cup {t})
                       /\ IsFiniteSet(D)
                       /\ Cardinality(D) <= n /\ Cardinality(Free(entries')) = f
                       /\ n + f <= Cardinality(Free(entries))
<1>0. /\ entries \in Slots /\ Once(entries)
      /\ \A u : u \in Installed <=> u \in Held(entries, 1)
      /\ Cardinality(Free(entries)) \in Nat
      /\ \A p \in Nat : Held(entries, p) \in SUBSET Installed
  BY EntriesAre DEF IInv, Typed, Held, Installed, Live
<1>1. CASE t \in Installed
  <2>1. entries' = entries
    BY <1>1 DEF AddSchedule
  <2>2. IsFiniteSet({}) /\ Cardinality({}) = 0
    BY FS_EmptySet
  <2>3. ASSUME NEW p \in Nat
        PROVE  \E n \in Nat, f \in Nat, D \in SUBSET Installed :
                       /\ D = Held(entries, p) \ (Held(entries', p) \cup {t})
                       /\ IsFiniteSet(D)
                       /\ Cardinality(D) <= n /\ Cardinality(Free(entries')) = f
                       /\ n + f <= Cardinality(Free(entries))
    <3>1. {} = Held(entries, p) \ (Held(entries', p) \cup {t})
      BY <2>1
    <3>2. PICK f \in Nat : f = Cardinality(Free(entries))
      BY <1>0
    <3>3. 0 \in Nat /\ Cardinality({}) <= 0 /\ 0 + f <= Cardinality(Free(entries))
      BY <2>2, <3>2
    <3>4. {} \in SUBSET Installed
      OBVIOUS
    <3> QED BY <2>1, <2>2, <3>1, <3>2, <3>3, <3>4
  <2> QED BY <1>0, <1>1, <2>1, <2>3
<1>2. CASE t \notin Installed
  <2>1. PICK q \in {entries} \cup Rebuilt : entries' = Append(q, t)
    BY <1>2 DEF AddSchedule
  <2>2. /\ q \in Slots /\ Once(q)
        /\ \A u : u \in Held(q, 1) <=> u \in Installed
        /\ \A p \in Nat :
              /\ Held(q, p) \subseteq Held(entries, p)
              /\ IsFiniteSet(Held(entries, p) \ Held(q, p))
              /\ Cardinality(Held(entries, p) \ Held(q, p)) \in Nat
              /\ Cardinality(Free(q)) \in Nat
              /\ Cardinality(Held(entries, p) \ Held(q, p)) + Cardinality(Free(q))
                    <= Cardinality(Free(entries))
    BY <1>0, <2>1, ShiftIs
  <2>3. t \notin Held(q, 1)
    BY <1>2, <2>2
  <2>4. /\ entries' \in Slots /\ Once(entries') /\ Free(entries') = Free(q)
        /\ t \in Held(entries', 1)
        /\ \A p \in Nat : /\ Held(q, p) \subseteq Held(entries', p)
                          /\ Held(entries', p) \subseteq Held(q, p) \cup {t}
    BY <2>1, <2>2, <2>3, AppendedLast
  <2>5. \A u : u \in Held(entries', 1) <=> u \in Installed \cup {t}
    <3>1. /\ Held(q, 1) \subseteq Held(entries', 1)
          /\ Held(entries', 1) \subseteq Held(q, 1) \cup {t}
      BY <2>4
    <3> QED BY <2>2, <2>4, <3>1
  <2>6. ASSUME NEW p \in Nat
        PROVE  \E n \in Nat, f \in Nat, D \in SUBSET Installed :
                       /\ D = Held(entries, p) \ (Held(entries', p) \cup {t})
                       /\ IsFiniteSet(D)
                       /\ Cardinality(D) <= n /\ Cardinality(Free(entries')) = f
                       /\ n + f <= Cardinality(Free(entries))
    <3> DEFINE D == Held(entries, p) \ (Held(entries', p) \cup {t})
               B == Held(entries, p) \ Held(q, p)
    <3>1. D \in SUBSET Installed /\ D \in SUBSET B
      BY <1>0, <2>4
    <3>2. PICK n \in Nat, f \in Nat : n = Cardinality(B) /\ f = Cardinality(Free(q))
      BY <2>2
    <3>3. n + f <= Cardinality(Free(entries)) /\ IsFiniteSet(B)
      BY <2>2, <3>2
    <3>4. D = Held(entries, p) \ (Held(entries', p) \cup {t})
      OBVIOUS
    <3> HIDE DEF D, B
    <3>5. IsFiniteSet(D) /\ Cardinality(D) <= n
      BY <3>1, <3>2, <3>3, FS_Subset
    <3> QED BY <2>4, <3>1, <3>2, <3>3, <3>4, <3>5
  <2>7. \A p \in Nat : Held(entries', p) \subseteq Held(entries, p) \cup {t}
    BY <2>2, <2>4
  <2> QED BY <2>4, <2>5, <2>6, <2>7
<1> QED BY <1>1, <1>2

\* The events' accounts after a schedule was added.
LEMMA AddedAccounts ==
    ASSUME IInv, NEW t \in Schedule, AddSchedule(t), NEW e \in Event
    PROVE  Accounted(e)' /\ removals' \in Nat /\ Cardinality(Free(entries')) <= removals'
<1> DEFINE p == cursor[e].pos
<1>0. UNCHANGED <<pc, cursor, served, removals>> /\ touched' = touched \cup {t}
  BY DEF AddSchedule, Edit
<1>1. p \in Nat
  BY DEF IInv, Typed, Iterator, Coroutine
<1>2. PICK n \in Nat, f \in Nat, D \in SUBSET Installed :
         /\ D = Held(entries, p) \ (Held(entries', p) \cup {t})
         /\ IsFiniteSet(D)
         /\ Cardinality(D) <= n /\ Cardinality(Free(entries')) = f
         /\ n + f <= Cardinality(Free(entries))
  BY <1>1, AddedIs
<1>3. removals \in Nat /\ Cardinality(Free(entries)) \in Nat /\ Accounted(e)
      /\ Cardinality(Free(entries)) <= removals
  BY EntriesAre DEF IInv, Typed, Serving
<1>4. f <= removals
  BY <1>2, <1>3
<1>5. pc[e] \in Running => Cardinality(LostAt(e, p)') + f <= removals
  <2> SUFFICES ASSUME pc[e] \in Running PROVE Cardinality(LostAt(e, p)') + f <= removals
    OBVIOUS
  <2> DEFINE L == LostAt(e, p)
             M == LostAt(e, p)'
  <2>1. L \in SUBSET OnEvent /\ M \in SUBSET OnEvent
    BY DEF LostAt
  <2>2. M \subseteq L \cup D
    BY <1>0, <1>2 DEF LostAt, Untouched
  <2>3. Cardinality(L) + Cardinality(Free(entries)) <= removals
    BY <1>3 DEF Accounted
  <2> HIDE DEF L, M
  <2>4. IsFiniteSet(L) /\ Cardinality(L) \in Nat /\ IsFiniteSet(M) /\ Cardinality(M) \in Nat
        /\ Cardinality(D) \in Nat
    BY <1>2, <2>1, Countable, FS_CardinalityType
  <2>5. IsFiniteSet(L \cup D)
        /\ Cardinality(L \cup D) = Cardinality(L) + Cardinality(D) - Cardinality(L \cap D)
    BY <1>2, <2>4, FS_Union
  <2>6. Cardinality(L \cap D) \in Nat
    BY <2>4, FS_Intersection, FS_CardinalityType
  <2>7. Cardinality(M) <= Cardinality(L \cup D) /\ Cardinality(L \cup D) \in Nat
    BY <2>2, <2>5, FS_Subset, FS_CardinalityType
  <2>8. Cardinality(M) + f <= removals
    BY <1>2, <1>3, <2>3, <2>4, <2>5, <2>6, <2>7
  <2> QED BY <2>8 DEF M
<1>6. pc[e] = "done" => Cardinality(Missed(e)') <= removals
  <2>1. Missed(e)' \in SUBSET Missed(e) /\ Missed(e) \in SUBSET OnEvent
    BY <1>0 DEF Missed
  <2>2. /\ Cardinality(Missed(e)') \in Nat /\ Cardinality(Missed(e)) \in Nat
        /\ Cardinality(Missed(e)') <= Cardinality(Missed(e))
    BY <2>1, Countable
  <2> QED BY <1>3, <2>2 DEF Accounted
<1>7. LostAt(e, cursor[e].pos)' = LostAt(e, p)'
  BY <1>0 DEF LostAt
<1> QED BY <1>0, <1>2, <1>3, <1>4, <1>5, <1>6, <1>7 DEF Accounted

LEMMA AddStep ==
    ASSUME IInv, NEW t \in Schedule, AddSchedule(t) PROVE IInv'
<1> USE DEF agentVars, Running
<1>1. /\ UNCHANGED <<current, overriding, state, retries, lastOk, pc, cursor, job, object, served>>
      /\ enabled' = [enabled EXCEPT ![t] = TRUE]
      /\ age' = [age EXCEPT ![t] = Interval]
      /\ stale' = [c \in Coroutine |-> stale[c] \/ job[c] = t]
      /\ touched' = touched \cup {t}
      /\ dueAtWake' \subseteq Schedule \ OnEvent
      /\ dueAtWake' \subseteq dueAtWake \cup {t}
  BY DEF AddSchedule, Edit, IInv, Typed
<1>2. /\ entries' \in Slots /\ Once(entries')
      /\ \A u : u \in Held(entries', 1) <=> u \in Installed \cup {t}
      /\ \A p \in Nat : Held(entries', p) \subseteq Held(entries, p) \cup {t}
  BY AddedIs
<1>3. \A c \in Coroutine :
         Held(entries', cursor'[c].pos) \subseteq Held(entries, cursor[c].pos) \cup {t}
  BY <1>1, <1>2 DEF IInv, Typed, Iterator
<1>4. Typed'
  <2>1. age' \in [Schedule -> 0..Interval] /\ enabled' \in [Schedule -> BOOLEAN]
        /\ stale' \in [Coroutine -> BOOLEAN]
    BY <1>1, AgentSchedulerAssumption DEF IInv, Typed
  <2> QED BY <1>1, <1>2, <2>1 DEF IInv, Typed, Name
<1>5. Passed'
  BY <1>1, <1>3 DEF IInv, Passed
<1>6. Lives'
  BY <1>1 DEF IInv, Lives, Allowed
<1>7. Intact'
  <2> SUFFICES ASSUME NEW u \in Schedule, Untouched(u)'
               PROVE  u \in Installed' /\ enabled'[u] /\ current'[TargetOf[u]] # None
    BY DEF Intact
  <2>1. Untouched(u) /\ u # t
    BY <1>1 DEF Untouched
  <2>2. Held(entries', 1) \subseteq Installed'
    BY DEF Held, Installed, Live
  <2>3. u \in Installed'
    BY <1>2, <2>1, <2>2 DEF IInv, Intact
  <2> QED BY <1>1, <2>1, <2>3 DEF IInv, Intact, Typed
<1>8. Serving'
  <2>1. \A e \in Event : Accounted(e)'
    BY AddedAccounts
  <2>2. removals' = removals
    BY DEF AddSchedule
  <2>3. Cardinality(Free(entries')) <= removals /\ removals \in Nat
    <3>1. PICK n \in Nat, f \in Nat : /\ Cardinality(Free(entries')) = f
                                      /\ n + f <= Cardinality(Free(entries))
      <4>1. 0 \in Nat
        OBVIOUS
      <4> QED BY <4>1, AddedIs
    <3>2. /\ removals \in Nat /\ Cardinality(Free(entries)) \in Nat
          /\ Cardinality(Free(entries)) <= removals
      BY EntriesAre DEF IInv, Typed, Serving
    <3> QED BY <3>1, <3>2
  <2> QED BY <2>1, <2>2, <2>3 DEF Serving
<1>9. DueIsDue'
  <2> SUFFICES ASSUME pc'[Loop] \in Running,
                      NEW u \in dueAtWake' \cap Held(entries', cursor'[Loop].pos)
               PROVE  age'[u] = Interval
    BY DEF DueIsDue
  <2>0. u \in Schedule /\ Loop \in Coroutine
    BY <1>1 DEF Coroutine
  <2>1. CASE u = t
    BY <1>1, <2>1 DEF IInv, Typed
  <2>2. CASE u # t
    <3>1. u \in dueAtWake \cap Held(entries, cursor[Loop].pos)
      BY <1>1, <1>3, <2>0, <2>2
    <3> QED BY <1>1, <2>0, <2>2, <3>1 DEF IInv, DueIsDue, Typed
  <2> QED BY <2>1, <2>2
<1> QED BY <1>4, <1>5, <1>6, <1>7, <1>8, <1>9 DEF IInv

LEMMA RemoveStep ==
    ASSUME IInv, NEW t \in Schedule, RemoveSchedule(t) PROVE IInv'
<1> USE DEF agentVars, Running
<1>1. /\ UNCHANGED <<current, overriding, state, retries, lastOk, pc, cursor, job, object, served,
                     enabled, age, dueAtWake>>
      /\ stale' = [c \in Coroutine |-> stale[c] \/ job[c] = t]
      /\ touched' = touched \cup {t}
      /\ entries' = [i \in DOMAIN entries |-> IF entries[i] = t THEN None ELSE entries[i]]
      /\ removals' = removals + 1 /\ t \in Installed
  BY DEF RemoveSchedule, Edit
<1>2. /\ entries' \in Slots /\ Once(entries')
      /\ \A p : Held(entries', p) = Held(entries, p) \ {t}
      /\ Cardinality(Free(entries')) \in Nat
      /\ Cardinality(Free(entries')) <= Cardinality(Free(entries)) + 1
  <2>1. PICK q : q = [i \in DOMAIN entries |-> IF entries[i] = t THEN None ELSE entries[i]]
    OBVIOUS
  <2>2. /\ q \in Slots /\ Once(q)
        /\ \A p : Held(q, p) = Held(entries, p) \ {t}
        /\ Cardinality(Free(q)) \in Nat
        /\ Cardinality(Free(q)) <= Cardinality(Free(entries)) + 1
    BY <1>1, <2>1, Freed DEF IInv, Typed
  <2>3. q = entries'
    BY <1>1, <2>1
  <2> QED BY <2>2, <2>3
<1>3. Typed'
  <2>1. stale' \in [Coroutine -> BOOLEAN]
    BY <1>1 DEF IInv, Typed
  <2> QED BY <1>1, <1>2, <2>1 DEF IInv, Typed, Name
<1>4. Passed'
  BY <1>1, <1>2 DEF IInv, Passed
<1>5. Lives'
  BY <1>1 DEF IInv, Lives, Allowed
<1>6. Intact'
  <2> SUFFICES ASSUME NEW u \in Schedule, Untouched(u)'
               PROVE  u \in Installed' /\ enabled'[u] /\ current'[TargetOf[u]] # None
    BY DEF Intact
  <2>1. Untouched(u) /\ u # t
    BY <1>1 DEF Untouched
  <2>2. Held(entries', 1) \subseteq Installed'
    BY DEF Held, Installed, Live
  <2>3. u \in Held(entries, 1)
    BY <2>1, EntriesAre DEF IInv, Typed, Intact
  <2>4. u \in Installed'
    BY <1>2, <2>1, <2>2, <2>3
  <2> QED BY <1>1, <2>1, <2>4 DEF IInv, Intact
<1>7. Serving'
  <2>0. removals \in Nat /\ Cardinality(Free(entries)) \in Nat
        /\ Cardinality(Free(entries)) <= removals
    BY EntriesAre DEF IInv, Typed, Serving
  <2>1. ASSUME NEW e \in Event
        PROVE  Accounted(e)'
    <3> DEFINE p == cursor[e].pos
    <3>1. LostAt(e, p)' \in SUBSET LostAt(e, p) /\ LostAt(e, p) \in SUBSET OnEvent
      BY <1>1, <1>2 DEF LostAt, Untouched
    <3>2. Missed(e)' \in SUBSET Missed(e) /\ Missed(e) \in SUBSET OnEvent
      BY <1>1 DEF Missed
    <3>3. /\ Cardinality(LostAt(e, p)') \in Nat /\ Cardinality(LostAt(e, p)) \in Nat
          /\ Cardinality(LostAt(e, p)') <= Cardinality(LostAt(e, p))
      BY <3>1, Countable
    <3>4. /\ Cardinality(Missed(e)') \in Nat /\ Cardinality(Missed(e)) \in Nat
          /\ Cardinality(Missed(e)') <= Cardinality(Missed(e))
      BY <3>2, Countable
    <3>5. Accounted(e)
      BY DEF IInv, Serving
    <3>6. pc[e] \in Running =>
             Cardinality(LostAt(e, p)') + Cardinality(Free(entries')) <= removals + 1
      BY <1>2, <2>0, <3>3, <3>5 DEF Accounted
    <3>7. pc[e] = "done" => Cardinality(Missed(e)') <= removals + 1
      BY <2>0, <3>4, <3>5 DEF Accounted
    <3>8. LostAt(e, cursor[e].pos)' = LostAt(e, p)'
      BY <1>1 DEF LostAt
    <3> QED BY <1>1, <3>6, <3>7, <3>8 DEF Accounted
  <2>2. removals' \in Nat /\ Cardinality(Free(entries')) <= removals'
    BY <1>1, <1>2, <2>0
  <2> QED BY <2>1, <2>2 DEF Serving
<1>8. DueIsDue'
  BY <1>1, <1>2 DEF IInv, DueIsDue
<1> QED BY <1>3, <1>4, <1>5, <1>6, <1>7, <1>8 DEF IInv

(***************************************************************************)
(* The other edits touch neither what is iterated nor the objects, and     *)
(* leave a schedule nobody edits in force; time only makes schedules due.  *)
(***************************************************************************)
LEMMA EditStep ==
    ASSUME IInv,
           UNCHANGED <<overriding, state, retries, lastOk, entries, coVars, removals>>,
           touched \subseteq touched',
           current' \in [Name -> Agent \cup {None}],
           \A n \in Name : current'[n] # None => NameOf[current'[n]] = n,
           enabled' \in [Schedule -> BOOLEAN],
           age' \in [Schedule -> 0..Interval],
           \A t \in Schedule : age[t] = Interval => age'[t] = Interval,
           \A t \in Schedule : (/\ t \notin touched' /\ TargetOf[t] \notin touched'
                                /\ enabled[t] /\ current[TargetOf[t]] # None)
                               => enabled'[t] /\ current'[TargetOf[t]] # None
    PROVE  IInv'
<1> USE DEF coVars, Running
<1>1. Typed' /\ Passed'
  BY DEF IInv, Typed, Passed, Once, Name
<1>2. Lives'
  BY DEF IInv, Lives, Allowed
<1>3. Intact'
  <2> SUFFICES ASSUME NEW t \in Schedule, Untouched(t)'
               PROVE  t \in Installed /\ enabled'[t] /\ current'[TargetOf[t]] # None
    BY DEF Intact, Installed, Live
  <2>1. Untouched(t)
    BY DEF Untouched
  <2> QED BY <2>1 DEF IInv, Intact, Untouched
<1>4. Serving'
  <2>1. \A e \in Event : Accounted(e)'
    BY AccountKept
  <2> QED BY <2>1 DEF IInv, Serving
<1>5. DueIsDue'
  BY DEF IInv, Typed, DueIsDue
<1> QED BY <1>1, <1>2, <1>3, <1>4, <1>5 DEF IInv

LEMMA SetEnabledStep ==
    ASSUME IInv, NEW t \in Schedule, SetEnabled(t) PROVE IInv'
<1>1. /\ UNCHANGED <<overriding, state, retries, lastOk, entries, coVars, current, age, removals>>
      /\ enabled' = [enabled EXCEPT ![t] = ~@] /\ touched' = touched \cup {t}
  BY DEF SetEnabled, Edit, agentVars
<1>2. enabled' \in [Schedule -> BOOLEAN] /\ \A u \in Schedule \ {t} : enabled'[u] = enabled[u]
  BY <1>1 DEF IInv, Typed
<1> QED BY <1>1, <1>2, EditStep DEF IInv, Typed

LEMMA RegisterStep ==
    ASSUME IInv, NEW a \in Agent, Register(a) PROVE IInv'
<1>1. /\ UNCHANGED <<overriding, state, retries, lastOk, scheduleVars, coVars, removals>>
      /\ current' = [current EXCEPT ![NameOf[a]] = a] /\ touched' = touched \cup {NameOf[a]}
  BY DEF Register, Edit
<1>2. NameOf[a] \in Name /\ a # None
  BY AgentSchedulerAssumption DEF Name
<1>3. /\ current' \in [Name -> Agent \cup {None}]
      /\ \A n \in Name : current'[n] # None => NameOf[current'[n]] = n
      /\ \A n \in Name : current[n] # None => current'[n] # None
  BY <1>1, <1>2 DEF IInv, Typed
<1>4. \A t \in Schedule : TargetOf[t] \in Name
  BY AgentSchedulerAssumption
<1> QED BY <1>1, <1>3, <1>4, EditStep DEF IInv, Typed, scheduleVars

LEMMA UnregisterStep ==
    ASSUME IInv, NEW n \in Name, Unregister(n) PROVE IInv'
<1>1. /\ UNCHANGED <<overriding, state, retries, lastOk, scheduleVars, coVars, removals>>
      /\ current' = [current EXCEPT ![n] = None] /\ touched' = touched \cup {n}
  BY DEF Unregister, Edit
<1>2. /\ current' \in [Name -> Agent \cup {None}]
      /\ \A m \in Name : current'[m] # None => NameOf[current'[m]] = m
      /\ \A m \in Name \ {n} : current'[m] = current[m]
  BY <1>1 DEF IInv, Typed
<1>3. \A t \in Schedule : TargetOf[t] \in Name
  BY AgentSchedulerAssumption
<1> QED BY <1>1, <1>2, <1>3, EditStep DEF IInv, Typed, scheduleVars

LEMMA RestStep ==
    ASSUME IInv, Stop \/ Tick \/ UNCHANGED vars PROVE IInv'
<1>1. CASE Stop \/ UNCHANGED vars
  <2>1. /\ UNCHANGED <<overriding, state, retries, lastOk, entries, coVars, current, enabled, age,
                     removals>>
        /\ touched \subseteq touched'
    BY <1>1 DEF Stop, Edit, vars, agentVars, scheduleVars, editVars
  <2> QED BY <2>1, EditStep DEF IInv, Typed
<1>2. CASE Tick
  <2>1. /\ UNCHANGED <<overriding, state, retries, lastOk, entries, coVars, current, enabled, touched,
                     removals>>
        /\ age' = [t \in Schedule |-> IF age[t] < Interval THEN age[t] + 1 ELSE Interval]
    BY <1>2 DEF Tick, agentVars, editVars
  <2>2. Interval \in Nat
    BY AgentSchedulerAssumption
  <2>3. \A t \in Schedule : age[t] \in 0..Interval
    BY DEF IInv, Typed
  <2>4. /\ age' \in [Schedule -> 0..Interval]
        /\ \A t \in Schedule : age[t] = Interval => age'[t] = Interval
    BY <2>1, <2>2, <2>3
  <2> QED BY <2>1, <2>4, EditStep DEF IInv, Typed
<1> QED BY <1>1, <1>2

(***************************************************************************)
(* The invariant holds at the start, whatever the order of the schedules.  *)
(***************************************************************************)
LEMMA InitIInv == Init => IInv
<1> SUFFICES ASSUME Init PROVE IInv
  OBVIOUS
<1> USE AgentSchedulerAssumption
<1>1. PICK n \in Nat : n = Cardinality(Schedule)
  BY FS_CardinalityType
<1>2. entries \in [1..n -> Schedule] /\ \A t \in Schedule : \E i \in 1..n : entries[i] = t
  BY <1>1 DEF Init
<1>3. \A i, j \in 1..n : entries[i] = entries[j] => i = j
  <2>1. entries \in Surjection(1..n, Schedule)
    BY <1>2 DEF Surjection
  <2>2. IsFiniteSet(1..n) /\ Cardinality(1..n) = Cardinality(Schedule)
    BY <1>1, FS_Interval
  <2>3. entries \in Injection(1..n, Schedule)
    BY <2>1, <2>2, FS_SurjSameCardinalityImpliesInj
  <2> QED BY <2>3 DEF Injection, IsInjective
<1>4. entries \in Slots /\ Once(entries)
  <2>1. entries \in [1..n -> Schedule \cup {None}]
    BY <1>2
  <2> QED BY <1>2, <1>3, <2>1 DEF Once, Slots
<1>5. Free(entries) = {} /\ \A t \in Schedule : t \in Installed
  BY <1>2 DEF Free, Installed, Live
<1>6. \A m \in Name : current[m] \in Agent /\ NameOf[current[m]] = m
  <2> TAKE m \in Name
  <2>1. \E a \in Agent : NameOf[a] = m
    BY DEF Name
  <2>2. current[m] = CHOOSE a \in Agent : NameOf[a] = m
    BY DEF Init
  <2> QED BY <2>1, <2>2
<1>7. Typed
  <2>1. Closed \in Iterator
    BY DEF Closed, Iterator
  <2>2. \A c \in Coroutine : pc[c] \in {"sleep", "idle"}
    BY DEF Init
  <2>3. 0 \in 0..MaxRetries + 1 /\ Interval \in 0..Interval
    OBVIOUS
  <2>4. current \in [Name -> Agent \cup {None}]
    BY <1>6 DEF Init
  <2> QED BY <1>4, <1>6, <2>1, <2>2, <2>3, <2>4 DEF Init, Typed, Running
<1>8. Passed
  BY DEF Init, Passed, Running
<1>9. Lives
  BY DEF Init, Lives, Allowed, Running
<1>10. Intact
  BY <1>5, <1>6 DEF Init, Intact
<1>11. Serving /\ DueIsDue
  <2>1. Cardinality(Free(entries)) = 0
    BY <1>5, FS_EmptySet
  <2> QED BY <2>1 DEF Init, Serving, Accounted, DueIsDue, Running, Coroutine
<1> QED BY <1>7, <1>8, <1>9, <1>10, <1>11 DEF IInv

LEMMA StepIInv == IInv /\ [Next]_vars => IInv'
<1> SUFFICES ASSUME IInv, [Next]_vars PROVE IInv'
  OBVIOUS
<1>1. CASE Wake
  BY <1>1, WakeStep
<1>2. CASE \E e \in Event : Arrive(e) \/ HandlerReturns(e)
  BY <1>2, ArriveStep, HandlersStep
<1>3. CASE \E c \in Coroutine : Resume(c)
  BY <1>3, WorkStep, EndStep DEF Resume
<1>4. CASE \E t \in Schedule : AddSchedule(t) \/ RemoveSchedule(t) \/ SetEnabled(t)
  BY <1>4, AddStep, RemoveStep, SetEnabledStep
<1>5. CASE \E a \in Agent : Register(a)
  BY <1>5, RegisterStep
<1>6. CASE \E n \in Name : Unregister(n)
  BY <1>6, UnregisterStep
<1>7. CASE Stop \/ Tick \/ UNCHANGED vars
  BY <1>7, RestStep
<1> QED BY <1>1, <1>2, <1>3, <1>4, <1>5, <1>6, <1>7 DEF Next

\* The inductive invariant holds in every reachable state.
LEMMA Invariance == Spec => []IInv
BY InitIInv, StepIInv, PTL DEF Spec

(***************************************************************************)
(* Objects and coroutines are sound, whatever runs overlap: an object at   *)
(* rest whose last run ended well is waiting, or dead for good (run of     *)
(* BaseAgent, _dispatch of AgentScheduler).                                *)
(***************************************************************************)
THEOREM AgentsStaySound == Spec => []AgentsAreSound
<1>1. IInv => TypeOK
  <2> SUFFICES ASSUME IInv PROVE TypeOK
    OBVIOUS
  <2>1. Installed \subseteq Schedule
    BY EntriesAre DEF IInv, Typed
  <2>2. Cardinality(Live) = Cardinality(Installed)
    <3> DEFINE f == [i \in Live |-> entries[i]]
    <3>1. f \in Bijection(Live, Installed)
      <4>1. f \in [Live -> Installed]
        BY DEF Installed
      <4>2. \A i, j \in Live : f[i] = f[j] => i = j
        BY DEF IInv, Typed, Once, Live
      <4>3. \A t \in Installed : \E i \in Live : f[i] = t
        BY DEF Installed
      <4> HIDE DEF f
      <4> QED BY <4>1, <4>2, <4>3 DEF Bijection, Injection, IsInjective, Surjection
    <3>2. IsFiniteSet(Live)
      BY EntriesAre DEF IInv, Typed
    <3>3. ExistsBijection(Live, Installed)
      BY <3>1 DEF ExistsBijection
    <3> HIDE DEF f
    <3> QED BY <3>2, <3>3, FS_Bijection
  <2> QED BY <2>1, <2>2 DEF IInv, Typed, TypeOK, Running
<1>2. IInv => BusyAtRestOnlyAfterFailure
  BY DEF IInv, Lives, BusyAtRestOnlyAfterFailure
<1> QED BY <1>1, <1>2, Invariance, PTL DEF AgentsAreSound

(***************************************************************************)
(* An event that was handled to its end ran every schedule that waits for  *)
(* it and was not edited meanwhile, but for as many as schedules were      *)
(* removed (handle_event of AgentScheduler).                               *)
(***************************************************************************)
THEOREM EventsServe == Spec => []EventServesUntouched
<1>1. IInv => EventServesUntouched
  BY DEF IInv, Serving, Accounted, EventServesUntouched
<1> QED BY <1>1, Invariance, PTL

(***************************************************************************)
(* What the iteration of the loop starts was before it, and taken as due.  *)
(***************************************************************************)
LEMMA StartsWhatIsDue ==
    ASSUME IInv, NEW c \in Coroutine, NEW iter \in Iterator, NEW due, NEW s,
           Iterate(c, iter, due, s), NEW t \in Schedule, job[Loop] # t, job'[Loop] = t
    PROVE  c = Loop /\ t \in due \cap Held(entries, iter.pos)
<1>0. Loop \in Coroutine /\ t # None /\ job \in [Coroutine -> Schedule \cup {None}]
  BY AgentSchedulerAssumption DEF Coroutine, IInv, Typed
<1>1. ASSUME NEW w, Halts(c, w, s)
      PROVE  FALSE
  BY <1>0, <1>1 DEF Halts
<1>2. ASSUME NEW u, NEW r \in Iterator, Takes(c, r, due, s, u), FirstFrom(c, due, iter.pos, r.pos, u)
      PROVE  c = Loop /\ t \in due \cap Held(entries, iter.pos)
  <2>1. job' = [job EXCEPT ![c] = u]
    BY <1>2 DEF Takes
  <2>2. c = Loop /\ u = t
    BY <1>0, <2>1
  <2> QED BY <1>2, <2>2 DEF Eligible, FirstFrom
<1>3. entries \in Slots /\ Once(entries)
  BY DEF IInv, Typed
<1> QED BY <1>1, <1>2, <1>3, IterateIs

(***************************************************************************)
(* The loop starts interval schedules only, each an interval after its     *)
(* last run, although it goes by the time of its last wake-up and awaited  *)
(* other dispatches since (_check_schedules and _dispatch).                *)
(***************************************************************************)
THEOREM StartsAreSpaced == Spec => StartsSpaced
<1>1. ASSUME IInv, [Next]_vars, NEW t \in Schedule, job[Loop] # t, job'[Loop] = t
      PROVE  t \notin OnEvent /\ age[t] = Interval
  <2>0. Loop \in Coroutine /\ t # None
    BY AgentSchedulerAssumption DEF Coroutine
  <2>1. CASE Wake
    <3>1. CASE running
      <4>1. PICK iter, due, s : /\ iter = Opened /\ s = state
                                /\ due = {u \in Schedule \ OnEvent : age[u] = Interval}
        OBVIOUS
      <4>2. Iterate(Loop, iter, due, s)
        BY <2>1, <3>1, <4>1 DEF Wake, Iterate
      <4>3. iter \in Iterator
        BY <1>1, <4>1, OpenedIs
      <4> QED BY <1>1, <2>0, <4>1, <4>2, <4>3, StartsWhatIsDue
    <3> QED BY <1>1, <2>1, <3>1 DEF Wake
  <2>2. ASSUME NEW e \in Event, HandlerReturns(e) PROVE FALSE
    <3>1. e \in Coroutine /\ e # Loop
      BY AgentSchedulerAssumption DEF Coroutine
    <3>2. CASE calls[e] < copies
      BY <1>1, <2>2, <3>2 DEF HandlerReturns
    <3>3. CASE ~(calls[e] < copies)
      <4>1. PICK iter, due, s : iter = Opened /\ due = {} /\ s = state
        OBVIOUS
      <4>2. Iterate(e, iter, due, s)
        BY <2>2, <3>3, <4>1 DEF HandlerReturns, Iterate
      <4>3. iter \in Iterator
        BY <1>1, <4>1, OpenedIs
      <4> QED BY <1>1, <3>1, <4>2, <4>3, StartsWhatIsDue
    <3> QED BY <3>2, <3>3
  <2>3. ASSUME NEW c \in Coroutine, ReportSent(c) \/ FailureReported(c)
        PROVE  t \notin OnEvent /\ age[t] = Interval
    <3>1. PICK iter, due : iter = cursor[c] /\ due = dueAtWake
      OBVIOUS
    <3>2. PICK s : Iterate(c, iter, due, s)
      <4>1. CASE ReportSent(c)
        <5>1. PICK s : s = [state EXCEPT ![object[c]] = Apply(object[c], @, "done")]
          OBVIOUS
        <5>2. Iterate(c, iter, due, s)
          BY <3>1, <4>1, <5>1 DEF ReportSent, RunEnds, Iterate
        <5> QED BY <5>2
      <4>2. CASE FailureReported(c)
        <5>1. PICK s : s = state
          OBVIOUS
        <5>2. Iterate(c, iter, due, s)
          BY <3>1, <4>2, <5>1 DEF FailureReported, RunEnds, Iterate
        <5> QED BY <5>2
      <4> QED BY <2>3, <4>1, <4>2
    <3>3. iter \in Iterator /\ due \subseteq Schedule \ OnEvent
      BY <1>1, <3>1 DEF IInv, Typed
    <3>4. c = Loop /\ t \in due \cap Held(entries, iter.pos)
      BY <1>1, <3>2, <3>3, StartsWhatIsDue
    <3>5. pc[c] \in Running
      BY <2>3 DEF ReportSent, FailureReported, Running
    <3> QED BY <1>1, <3>1, <3>3, <3>4, <3>5 DEF IInv, DueIsDue
  <2>4. CASE UNCHANGED job
    BY <1>1, <2>4
  <2>5. \/ Wake \/ (\E e \in Event : HandlerReturns(e))
        \/ (\E c \in Coroutine : ReportSent(c) \/ FailureReported(c))
        \/ UNCHANGED job
    <3>1. \A e \in Event : Arrive(e) => UNCHANGED job
      BY DEF Arrive
    <3>2. \A c \in Coroutine : ExecuteReturns(c) \/ RunFails(c) => UNCHANGED job
      BY DEF ExecuteReturns, RunFails
    <3>3. \A u \in Schedule : AddSchedule(u) \/ RemoveSchedule(u) \/ SetEnabled(u) => UNCHANGED job
      BY DEF AddSchedule, RemoveSchedule, SetEnabled, coVars
    <3>4. (\E a \in Agent : Register(a)) \/ (\E n \in Name : Unregister(n)) => UNCHANGED job
      BY DEF Register, Unregister, coVars
    <3>5. Stop \/ Tick \/ UNCHANGED vars => UNCHANGED job
      BY DEF Stop, Tick, vars, coVars
    <3> QED BY <1>1, <3>1, <3>2, <3>3, <3>4, <3>5 DEF Next, Resume
  <2> QED BY <2>1, <2>2, <2>3, <2>4, <2>5
<1>2. IInv /\ [Next]_vars => [\A t \in Schedule : (job[Loop] # t /\ job'[Loop] = t)
                                => t \notin OnEvent /\ age[t] = Interval]_vars
  BY <1>1
<1> QED BY <1>2, Invariance, PTL DEF Spec, StartsSpaced
===============================================================================
