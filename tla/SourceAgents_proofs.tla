-------------------------- MODULE SourceAgents_proofs --------------------------
(***************************************************************************)
(* Proofs about source agents, for any number of runs, tasks, rivals and   *)
(* drafts.  Each has a specification and an invariant of its own.          *)
(***************************************************************************)
EXTENDS CompetitorWatch, ContentAudit, ContentPipeline, Crawler, DecisionEngine,
        RankTracking, TechnicalAudit, FiniteSetTheorems, SequenceTheorems, WellFoundedInduction, TLAPS

(***************************************************************************)
(* CompetitorWatch.  An article is reported each time it joins one of the  *)
(* sets of a domain, and only runs that began before the domain had a set  *)
(* made one.                                                               *)
(***************************************************************************)
Knowing(d, u) == {w \in Watch : u \in set[d][w]}

WatchTyped ==
    /\ known \in [Rival -> Watch \cup {NoSet}]
    /\ set \in [Rival -> [Watch -> SUBSET Article]]
    /\ handle \in [Watch -> Watch \cup {NoSet}]
    /\ turn \in [Watch -> 0..Len(Rivals) + 1]
    /\ reports \in [Rival -> [Article -> Nat]]
    /\ early \in [Rival -> SUBSET Watch]
HandlesAreOwned ==
    \A r \in Watch :
        /\ turn[r] \in DOMAIN Rivals => handle[r] \in early[Rivals[turn[r]]]
        /\ turn[r] \notin DOMAIN Rivals => handle[r] = NoSet
SetsAreOwned ==
    \A d \in Rival :
        /\ known[d] # NoSet => known[d] \in early[d]
        /\ \A w \in Watch : set[d][w] # {} => w \in early[d]
ReportsAreCounted ==
    \A d \in Rival, u \in Article : reports[d][u] = Cardinality(Knowing(d, u))
GapsAreTop ==
    /\ gaps.theirs \subseteq DOMAIN Volume
    /\ gaps.found = Top(gaps.theirs \ gaps.ours)

WatchInv ==
    /\ WatchTyped /\ HandlesAreOwned /\ SetsAreOwned
    /\ ReportsAreCounted /\ GapsAreTop

(***************************************************************************)
(* Competitors are counted from 1.                                         *)
(***************************************************************************)
LEMMA RivalsCounted ==
    /\ DOMAIN Rivals = 1..Len(Rivals) /\ Len(Rivals) \in Nat \ {0}
    /\ \A i \in DOMAIN Rivals : Rivals[i] \in Rival
BY WatchAssumption DEF Rival

(***************************************************************************)
(* Any set of runs is finite.                                              *)
(***************************************************************************)
LEMMA RunsFinite ==
    \A W \in SUBSET Watch : IsFiniteSet(W) /\ Cardinality(W) \in Nat
BY WatchAssumption, FS_Subset, FS_CardinalityType

(***************************************************************************)
(* The keywords with more searches than a given one are finitely many.     *)
(***************************************************************************)
Above(C, k) == {c \in C : Volume[c] > Volume[k]}

LEMMA AboveFinite ==
    ASSUME NEW C \in SUBSET DOMAIN Volume
    PROVE  \A k : IsFiniteSet(Above(C, k)) /\ Cardinality(Above(C, k)) \in Nat
<1> TAKE k
<1>1. Above(C, k) \in SUBSET DOMAIN Volume
    BY DEF Above
<1> QED BY <1>1, WatchAssumption, FS_Subset, FS_CardinalityType

(***************************************************************************)
(* A keyword with more searches has fewer above it.                        *)
(***************************************************************************)
LEMMA AboveShrinks ==
    ASSUME NEW C \in SUBSET DOMAIN Volume, NEW k \in C, NEW c \in C, Volume[c] > Volume[k]
    PROVE  /\ Cardinality(Above(C, c)) < Cardinality(Above(C, k))
           /\ Above(C, c) \subseteq Above(C, k)
<1>0. Volume[c] \in Nat /\ Volume[k] \in Nat
    BY WatchAssumption
<1>1. Above(C, c) \in SUBSET Above(C, k)
  <2> SUFFICES ASSUME NEW e \in C, Volume[e] > Volume[c] PROVE Volume[e] > Volume[k]
      BY DEF Above
  <2>1. Volume[e] \in Nat
      BY WatchAssumption
  <2> QED BY <1>0, <2>1
<1>2. c \in Above(C, k) /\ c \notin Above(C, c)
    BY <1>0 DEF Above
<1>3. IsFiniteSet(Above(C, k)) /\ Cardinality(Above(C, k)) \in Nat
      /\ Cardinality(Above(C, c)) \in Nat
    BY AboveFinite
<1>4. /\ Cardinality(Above(C, c)) <= Cardinality(Above(C, k))
      /\ Cardinality(Above(C, k)) = Cardinality(Above(C, c)) => Above(C, k) = Above(C, c)
    BY <1>1, <1>3, FS_Subset
<1> QED BY <1>1, <1>2, <1>3, <1>4

(***************************************************************************)
(* gaps[:50] of the sorted list are the largest gaps, and as many as there *)
(* are up to the limit: among those left out, take one with the least set  *)
(* above it; what is above it is listed, and is MaxGaps or more.           *)
(***************************************************************************)
LEMMA TopIsLargest ==
    ASSUME NEW C \in SUBSET DOMAIN Volume
    PROVE  /\ Top(C) \subseteq C
           /\ \A k \in C \ Top(C), g \in Top(C) : Volume[k] <= Volume[g]
           /\ Cardinality(Top(C)) >= IF Cardinality(C) < MaxGaps THEN Cardinality(C) ELSE MaxGaps
<1>1. Top(C) \subseteq C /\ \A k \in C : k \in Top(C) <=> Cardinality(Above(C, k)) < MaxGaps
    BY DEF Top, Above
<1>2. \A k \in C \ Top(C), g \in Top(C) : Volume[k] <= Volume[g]
  <2> SUFFICES ASSUME NEW k \in C \ Top(C), NEW g \in Top(C), Volume[k] > Volume[g]
               PROVE  FALSE
    <3>1. \A k \in C : Volume[k] \in Nat
        BY WatchAssumption
    <3> QED BY <1>1, <3>1
  <2>1. Cardinality(Above(C, k)) < Cardinality(Above(C, g))
      BY <1>1, AboveShrinks
  <2> QED BY <1>1, <2>1, AboveFinite, WatchAssumption
<1>3. IsFiniteSet(C) /\ IsFiniteSet(Top(C)) /\ Cardinality(C) \in Nat /\ Cardinality(Top(C)) \in Nat
  <2>1. IsFiniteSet(C)
      BY WatchAssumption, FS_Subset
  <2>2. IsFiniteSet(Top(C))
      BY <1>1, <2>1, FS_Subset
  <2> QED BY <2>1, <2>2, FS_CardinalityType
<1>4. CASE C = Top(C)
    BY <1>1, <1>2, <1>3, <1>4, WatchAssumption
<1>5. CASE C # Top(C)
  <2> DEFINE out == {Above(C, k) : k \in C \ Top(C)}
             less == StrictSubsetOrdering(C)
  <2>1. IsWellFoundedOn(less, FiniteSubsetsOf(C))
      BY FS_StrictSubsetOrderingWellFounded
  <2>2. out \subseteq FiniteSubsetsOf(C) /\ out # {}
      BY <1>1, <1>5, AboveFinite DEF FiniteSubsetsOf, Above
  <2>3. PICK few \in out : \A other \in out : ~(<<other, few>> \in less)
    <3> HIDE DEF out, less
    <3> QED BY <2>1, <2>2, WFMin
  <2>4. PICK k \in C \ Top(C) : few = Above(C, k)
      OBVIOUS
  <2>5. Above(C, k) \in SUBSET Top(C)
    <3> SUFFICES ASSUME NEW c \in Above(C, k), c \notin Top(C) PROVE FALSE
        OBVIOUS
    <3>1. c \in C /\ Volume[c] > Volume[k]
        BY DEF Above
    <3>2. Cardinality(Above(C, c)) < Cardinality(Above(C, k))
        BY <3>1, AboveShrinks
    <3>3. Above(C, c) \subseteq Above(C, k) /\ Above(C, c) # Above(C, k)
        BY <3>1, <3>2, AboveShrinks, AboveFinite
    <3>4. <<Above(C, c), Above(C, k)>> \in less
        BY <3>3 DEF StrictSubsetOrdering, Above
    <3> QED BY <2>3, <2>4, <3>1, <3>4
  <2>6. Cardinality(Above(C, k)) <= Cardinality(Top(C))
      BY <1>3, <2>5, FS_Subset
  <2>7. ~(Cardinality(Above(C, k)) < MaxGaps)
      BY <1>1, <2>4
  <2>8. Cardinality(Top(C)) >= MaxGaps
      BY <1>3, <2>6, <2>7, AboveFinite, WatchAssumption
  <2> QED BY <1>1, <1>2, <1>3, <2>8, WatchAssumption
<1> QED BY <1>4, <1>5

(***************************************************************************)
(* The inductive invariant says all that is promised of the reports.       *)
(***************************************************************************)
LEMMA IInvImplies == WatchInv => WatchIsSound
<1> SUFFICES ASSUME WatchInv PROVE WatchIsSound
    OBVIOUS
<1>1. WatchTypeOK
  <2>1. \A r \in Watch : turn[r] \in DOMAIN Rivals <=> handle[r] # NoSet
    <3> TAKE r \in Watch
    <3>1. turn[r] \in DOMAIN Rivals => handle[r] \in Watch
        BY RivalsCounted DEF WatchInv, WatchTyped, HandlesAreOwned
    <3> QED BY <3>1, WatchAssumption DEF WatchInv, HandlesAreOwned
  <2> QED BY <2>1 DEF WatchInv, WatchTyped, WatchTypeOK
<1>2. NewsIsNewOnce
  <2> SUFFICES ASSUME NEW d \in Rival, NEW u \in Article
               PROVE  reports[d][u] <= IF early[d] = {} THEN 0 ELSE Cardinality(early[d])
      BY DEF NewsIsNewOnce
  <2>1. Knowing(d, u) \in SUBSET early[d] /\ early[d] \in SUBSET Watch
      BY DEF Knowing, WatchInv, SetsAreOwned, WatchTyped
  <2>2. Cardinality(Knowing(d, u)) <= Cardinality(early[d])
      BY <2>1, RunsFinite, FS_Subset
  <2>3. reports[d][u] = Cardinality(Knowing(d, u))
      BY DEF WatchInv, ReportsAreCounted
  <2>4. early[d] = {} => Cardinality(early[d]) = 0
      BY FS_EmptySet
  <2> QED BY <2>1, <2>2, <2>3, <2>4, RunsFinite
<1>3. GapsAreTheLargest
  <2>1. gaps.theirs \ gaps.ours \in SUBSET DOMAIN Volume
      BY DEF WatchInv, GapsAreTop
  <2> QED BY <2>1, TopIsLargest DEF WatchInv, GapsAreTop, GapsAreTheLargest
<1> QED BY <1>1, <1>2, <1>3 DEF WatchIsSound

(***************************************************************************)
(* Initially nothing is known.                                             *)
(***************************************************************************)
LEMMA InitIInv == WatchInit => WatchInv
<1> SUFFICES ASSUME WatchInit PROVE WatchInv
    OBVIOUS
<1>1. WatchTyped
    BY RivalsCounted DEF WatchInit, WatchTyped
<1>2. HandlesAreOwned /\ SetsAreOwned
    BY RivalsCounted DEF WatchInit, HandlesAreOwned, SetsAreOwned
<1>3. ReportsAreCounted
  <2>1. \A d \in Rival, u \in Article : Knowing(d, u) = {} /\ reports[d][u] = 0
      BY DEF WatchInit, Knowing
  <2> QED BY <2>1, FS_EmptySet DEF ReportsAreCounted
<1>4. GapsAreTop
    BY DEF WatchInit, GapsAreTop, NoGaps, Top
<1> QED BY <1>1, <1>2, <1>3, <1>4 DEF WatchInv

(***************************************************************************)
(* A run that begins a domain takes the set of the domain, whose maker was *)
(* early, or makes one and is early itself.                                *)
(***************************************************************************)
LEMMA BeginOwns ==
    ASSUME WatchTyped, NEW r \in Watch, NEW d \in Rival, Begin(r, d),
           known[d] # NoSet => known[d] \in early[d]
    PROVE  /\ handle' \in [Watch -> Watch \cup {NoSet}] /\ handle'[r] \in early'[d]
           /\ early' \in [Rival -> SUBSET Watch]
           /\ \A w \in Watch \ {r} : handle'[w] = handle[w]
           /\ \A e \in Rival : early[e] \subseteq early'[e]
<1>1. CASE known[d] = NoSet
    BY <1>1 DEF Begin, WatchTyped
<1>2. CASE known[d] # NoSet
    BY <1>2 DEF Begin, WatchTyped
<1> QED BY <1>1, <1>2

(***************************************************************************)
(* A run begins with the first rival.                                      *)
(***************************************************************************)
LEMMA MonitorStep ==
    ASSUME WatchInv, NEW r \in Watch, Monitor(r)
    PROVE  WatchInv'
<1> USE RivalsCounted
<1>1. /\ Rivals[1] \in Rival /\ 1 \in DOMAIN Rivals
      /\ turn[r] = 0 /\ turn' = [turn EXCEPT ![r] = 1] /\ Begin(r, Rivals[1])
      /\ known' = known /\ set' = set /\ reports' = reports /\ gaps' = gaps
    BY DEF Monitor
<1>2. known[Rivals[1]] # NoSet => known[Rivals[1]] \in early[Rivals[1]]
    BY <1>1 DEF WatchInv, SetsAreOwned
<1>3. /\ handle' \in [Watch -> Watch \cup {NoSet}] /\ handle'[r] \in early'[Rivals[1]]
      /\ early' \in [Rival -> SUBSET Watch]
      /\ \A w \in Watch \ {r} : handle'[w] = handle[w]
      /\ \A e \in Rival : early[e] \subseteq early'[e]
    BY <1>1, <1>2, BeginOwns DEF WatchInv
<1>4. WatchTyped'
  <2>1. turn' \in [Watch -> 0..Len(Rivals) + 1]
      BY <1>1 DEF WatchInv, WatchTyped
  <2> QED BY <1>1, <1>3, <2>1 DEF WatchInv, WatchTyped
<1>5. HandlesAreOwned'
    BY <1>1, <1>3 DEF WatchInv, WatchTyped, HandlesAreOwned
<1>6. SetsAreOwned'
    BY <1>1, <1>3 DEF WatchInv, SetsAreOwned
<1>7. ReportsAreCounted' /\ GapsAreTop'
    BY <1>1 DEF WatchInv, ReportsAreCounted, Knowing, GapsAreTop, Top
<1> QED BY <1>4, <1>5, <1>6, <1>7 DEF WatchInv

(***************************************************************************)
(* A search that returns reports what joins the set that its run holds.    *)
(***************************************************************************)
LEMMA SearchedStep ==
    ASSUME WatchInv, NEW r \in Watch, Searched(r)
    PROVE  WatchInv'
<1> USE RivalsCounted
<1> DEFINE d == Rivals[turn[r]]
           owner == handle[r]
<1>1. turn[r] \in DOMAIN Rivals /\ d \in Rival
    BY DEF Searched
<1>2. owner \in early[d] /\ owner \in Watch
    BY <1>1 DEF WatchInv, HandlesAreOwned, WatchTyped
<1>3. PICK hits \in SUBSET Article :
        LET new == hits \ set[d][owner]
        IN  /\ reports' = [reports EXCEPT ![d] =
                              [u \in Article |-> @[u] + IF u \in new THEN 1 ELSE 0]]
            /\ set' = [set EXCEPT ![d][owner] = @ \cup new]
            /\ known' = [known EXCEPT ![d] = owner]
    BY DEF Searched
<1>4. turn' = [turn EXCEPT ![r] = @ + 1] /\ gaps' = gaps
    BY DEF Searched
<1>5. /\ handle' \in [Watch -> Watch \cup {NoSet}] /\ early' \in [Rival -> SUBSET Watch]
      /\ \A w \in Watch \ {r} : handle'[w] = handle[w]
      /\ \A e \in Rival : early[e] \subseteq early'[e]
      /\ turn[r] < Len(Rivals) => handle'[r] \in early'[Rivals[turn[r] + 1]]
      /\ turn[r] = Len(Rivals) => handle'[r] = NoSet
  <2>1. CASE turn[r] < Len(Rivals)
    <3>1. turn[r] + 1 \in DOMAIN Rivals /\ Rivals[turn[r] + 1] \in Rival
        BY <1>1, <2>1
    <3>2. Begin(r, Rivals[turn[r] + 1])
        BY <2>1 DEF Searched
    <3>3. known[Rivals[turn[r] + 1]] # NoSet
            => known[Rivals[turn[r] + 1]] \in early[Rivals[turn[r] + 1]]
        BY <3>1 DEF WatchInv, SetsAreOwned
    <3> QED BY <2>1, <3>1, <3>2, <3>3, BeginOwns DEF WatchInv
  <2>2. CASE ~(turn[r] < Len(Rivals))
      BY <2>2, <1>1 DEF Searched, WatchInv, WatchTyped
  <2> QED BY <2>1, <2>2
<1>6. /\ \A e \in Rival, w \in Watch : (e # d \/ w # owner) => set'[e][w] = set[e][w]
      /\ set'[d][owner] = set[d][owner] \cup hits
      /\ set' \in [Rival -> [Watch -> SUBSET Article]]
    BY <1>1, <1>2, <1>3 DEF WatchInv, WatchTyped
<1>7. WatchTyped'
  <2>1. reports' \in [Rival -> [Article -> Nat]]
      BY <1>1, <1>3 DEF WatchInv, WatchTyped
  <2>2. known' \in [Rival -> Watch \cup {NoSet}]
      BY <1>2, <1>3 DEF WatchInv, WatchTyped
  <2>3. turn' \in [Watch -> 0..Len(Rivals) + 1]
      BY <1>1, <1>4 DEF WatchInv, WatchTyped
  <2> QED BY <1>5, <1>6, <2>1, <2>2, <2>3 DEF WatchTyped
<1>8. HandlesAreOwned'
    BY <1>1, <1>4, <1>5 DEF WatchInv, WatchTyped, HandlesAreOwned
<1>9. SetsAreOwned'
  <2>1. \A e \in Rival : known'[e] = (IF e = d THEN owner ELSE known[e])
      BY <1>3 DEF WatchInv, WatchTyped
  <2> QED BY <1>2, <1>5, <1>6, <2>1 DEF WatchInv, SetsAreOwned
<1>10. ReportsAreCounted'
  <2> SUFFICES ASSUME NEW e \in Rival, NEW u \in Article
               PROVE  reports'[e][u] = Cardinality(Knowing(e, u)')
      BY DEF ReportsAreCounted
  <2>1. reports[e][u] = Cardinality(Knowing(e, u)) /\ Knowing(e, u) \in SUBSET Watch
      BY DEF WatchInv, ReportsAreCounted, Knowing
  <2>2. CASE e = d /\ u \in hits \ set[d][owner]
    <3>1. Knowing(e, u)' = Knowing(e, u) \cup {owner} /\ owner \notin Knowing(e, u)
        BY <1>2, <1>6, <2>2 DEF Knowing
    <3>2. reports'[e][u] = reports[e][u] + 1
        BY <1>1, <1>3, <2>2 DEF WatchInv, WatchTyped
    <3> QED BY <2>1, <3>1, <3>2, RunsFinite, FS_AddElement
  <2>3. CASE ~(e = d /\ u \in hits \ set[d][owner])
    <3>1. Knowing(e, u)' = Knowing(e, u)
        BY <1>2, <1>6, <2>3 DEF Knowing
    <3>2. reports'[e][u] = reports[e][u]
        BY <1>1, <1>3, <2>3 DEF WatchInv, WatchTyped
    <3> QED BY <2>1, <3>1, <3>2
  <2> QED BY <2>2, <2>3
<1>11. GapsAreTop'
    BY <1>4 DEF WatchInv, GapsAreTop, Top
<1> QED BY <1>7, <1>8, <1>9, <1>10, <1>11 DEF WatchInv

(***************************************************************************)
(* Every step keeps the inductive invariant.                               *)
(***************************************************************************)
LEMMA StepIInv == WatchInv /\ [WatchNext]_watchVars => WatchInv'
<1> SUFFICES ASSUME WatchInv, [WatchNext]_watchVars PROVE WatchInv'
    OBVIOUS
<1>1. CASE IdentifyGaps
  <2>1. UNCHANGED <<known, set, handle, turn, reports, early>>
      BY <1>1 DEF IdentifyGaps
  <2>2. GapsAreTop'
      BY <1>1 DEF IdentifyGaps, GapsAreTop, Top
  <2> QED BY <2>1, <2>2 DEF WatchInv, WatchTyped, HandlesAreOwned, SetsAreOwned,
                            ReportsAreCounted, Knowing
<1>2. CASE UNCHANGED watchVars
  <2>1. UNCHANGED <<known, set, handle, turn, reports, early>> /\ gaps' = gaps
      BY <1>2 DEF watchVars
  <2>2. GapsAreTop'
      BY <2>1 DEF WatchInv, GapsAreTop
  <2> QED BY <2>1, <2>2 DEF WatchInv, WatchTyped, HandlesAreOwned, SetsAreOwned,
                            ReportsAreCounted, Knowing
<1> QED BY <1>1, <1>2, MonitorStep, SearchedStep DEF WatchNext

(***************************************************************************)
(* However many runs of monitor_content overlap, over any rivals, news is  *)
(* reported once per run that was early, and identify_gaps lists the       *)
(* largest gaps.                                                           *)
(***************************************************************************)
THEOREM WatchSound == WatchSpec => []WatchIsSound
<1> QED BY InitIInv, StepIInv, IInvImplies, PTL DEF WatchSpec

(***************************************************************************)
(* The content agent.  Where a draft awaits says how many of its sections  *)
(* it has, and whether a bad answer is among what it was given.            *)
(***************************************************************************)
Content == {"written", "failed", "null"}
Call == Draft \cup Review
Stage == {"idle", "research", "serp", "outline", "section", "meta", "gaps", "done", "raised"}

ContentTyped ==
    /\ forgeState \in {"idle", "generating", "optimizing", "scoring"}
    /\ stage \in [Call -> Stage]
    /\ outline \in [Draft -> 0..MaxSections] /\ sections \in [Draft -> Seq(Content)]
    /\ answer \in [Draft -> {"text", "null"}]
    /\ package \in [Draft -> {"none", "generated", "blank", "keyword"}]
    /\ badAnswer \in [Draft -> BOOLEAN]

DraftAccounted(d) ==
    /\ Len(sections[d]) <= outline[d]
    /\ stage[d] # "done" => package[d] = "none"
    /\ stage[d] = "serp" => (badAnswer[d] <=> answer[d] = "null")
    /\ stage[d] = "outline" => ~badAnswer[d]
    /\ stage[d] = "section" => /\ badAnswer[d] <=> "null" \in ToSet(sections[d])
                               /\ Len(sections[d]) < outline[d]
    /\ stage[d] \in {"meta", "done"} => ~badAnswer[d] /\ Len(sections[d]) = outline[d]
    /\ stage[d] = "raised" => badAnswer[d]

ContentInv == ContentTyped /\ (\A d \in Draft : DraftAccounted(d)) /\ EndsIdle

LEMMA ContentStarts == ContentInit => ContentInv
<1> SUFFICES ASSUME ContentInit PROVE ContentInv
  OBVIOUS
<1>1. <<>> \in Seq(Content) /\ Len(<<>>) = 0
  OBVIOUS
<1>2. ContentTyped
  BY <1>1, ContentAssumption DEF ContentInit, ContentTyped, Call, Stage
<1>3. \A d \in Draft : DraftAccounted(d)
  BY <1>1 DEF ContentInit, DraftAccounted
<1> QED BY <1>2, <1>3 DEF ContentInv, EndsIdle, ContentInit

(***************************************************************************)
(* A call that goes on leaves the agent busy, one that ends leaves it idle.*)
(***************************************************************************)
LEMMA CallMoves ==
    ASSUME ContentTyped, NEW j \in Call, NEW to \in Stage, Goes(j, to),
           to # "idle", to = "done" => forgeState' = "idle"
    PROVE  /\ stage' \in [Call -> Stage] /\ stage'[j] = to
           /\ \A i \in Call : i # j => stage'[i] = stage[i]
           /\ EndsIdle'
<1>1. stage \in [Call -> Stage] /\ stage' = [stage EXCEPT ![j] = to]
  BY DEF ContentTyped, Goes
<1>2. stage'[j] = to
  BY <1>1
<1>3. EndsIdle'
  BY <1>2 DEF EndsIdle, Call
<1> QED BY <1>1, <1>2, <1>3

\* A step of one draft leaves the others as they are.
LEMMA OthersStay ==
    ASSUME ContentInv, NEW d \in Draft, DraftAccounted(d)',
           \A x \in Draft : x # d =>
              /\ stage'[x] = stage[x] /\ outline'[x] = outline[x] /\ sections'[x] = sections[x]
              /\ answer'[x] = answer[x] /\ package'[x] = package[x] /\ badAnswer'[x] = badAnswer[x]
    PROVE  \A x \in Draft : DraftAccounted(x)'
<1> TAKE x \in Draft
<1>1. CASE x = d
  BY <1>1
<1>2. CASE x # d
  <2>1. DraftAccounted(x)
    BY DEF ContentInv
  <2> QED BY <1>2, <2>1 DEF DraftAccounted
<1> QED BY <1>1, <1>2

\* A section more.
LEMMA OneMore ==
    ASSUME NEW q \in Seq(Content), NEW x \in Content
    PROVE  /\ Append(q, x) \in Seq(Content) /\ Len(Append(q, x)) = Len(q) + 1
           /\ ToSet(Append(q, x)) = ToSet(q) \cup {x}
<1>1. PICK n \in Nat : n = Len(q) /\ DOMAIN q = 1..n
  OBVIOUS
<1>2. PICK r : r = Append(q, x)
  OBVIOUS
<1>3. /\ r \in Seq(Content) /\ Len(r) = n + 1 /\ DOMAIN r = 1..n + 1
      /\ r[n + 1] = x /\ \A i \in 1..n : r[i] = q[i]
  BY <1>1, <1>2
<1>4. ToSet(r) \subseteq ToSet(q) \cup {x}
  <2> SUFFICES ASSUME NEW i \in 1..n + 1 PROVE r[i] \in ToSet(q) \cup {x}
    BY <1>3 DEF ToSet
  <2>1. i = n + 1 \/ i \in 1..n
    OBVIOUS
  <2> QED BY <1>1, <1>3, <2>1 DEF ToSet
<1>5. ToSet(q) \cup {x} \subseteq ToSet(r)
  <2>1. n + 1 \in 1..n + 1 /\ \A i \in 1..n : i \in 1..n + 1
    OBVIOUS
  <2> QED BY <1>1, <1>3, <2>1 DEF ToSet
<1> QED BY <1>1, <1>2, <1>3, <1>4, <1>5

(***************************************************************************)
(* The next section is asked for, or the outline is complete.              *)
(***************************************************************************)
LEMMA NextSectionStep ==
    ASSUME ContentInv, NEW d \in Draft, NEW n \in 0..MaxSections, NEW written \in Seq(Content),
           Len(written) <= n, NextSection(d, n, written),
           badAnswer' \in [Draft -> BOOLEAN], badAnswer'[d] <=> "null" \in ToSet(written),
           \A x \in Draft : x # d => badAnswer'[x] = badAnswer[x],
           stage[d] \in {"outline", "section"}, UNCHANGED <<answer, package>>
    PROVE  ContentInv'
<1>0. n \in Nat /\ Len(written) \in Nat /\ d \in Call
  BY ContentAssumption DEF Call
<1>1. /\ outline' = [outline EXCEPT ![d] = n]
      /\ sections' = [sections EXCEPT ![d] = written]
  BY DEF NextSection
<1>2. PICK to \in Stage :
        /\ Goes(d, to)
        /\ \/ to = "section" /\ Len(written) < n /\ forgeState' = forgeState
           \/ to = "raised" /\ "null" \in ToSet(written) /\ forgeState' = "optimizing"
           \/ to = "meta" /\ "null" \notin ToSet(written) /\ Len(written) = n /\ forgeState' = "optimizing"
  <2>1. CASE MoreToWrite(written, n)
    BY <2>1 DEF NextSection, MoreToWrite, Stage
  <2>2. CASE ~MoreToWrite(written, n)
    <3>1. Len(written) = n
      BY <1>0, <2>2 DEF MoreToWrite
    <3> QED BY <2>2, <3>1 DEF NextSection, Stage
  <2> QED BY <2>1, <2>2
<1>3. /\ stage' \in [Call -> Stage] /\ stage'[d] = to
      /\ \A i \in Call : i # d => stage'[i] = stage[i]
      /\ EndsIdle'
  <2>1. to # "idle" /\ to # "done"
    BY <1>2
  <2> QED BY <1>0, <1>2, <2>1, CallMoves DEF ContentInv
<1>4. /\ outline' \in [Draft -> 0..MaxSections] /\ sections' \in [Draft -> Seq(Content)]
      /\ outline'[d] = n /\ sections'[d] = written
      /\ \A x \in Draft : x # d => outline'[x] = outline[x] /\ sections'[x] = sections[x]
  BY <1>1 DEF ContentInv, ContentTyped
<1>5. ContentTyped'
  BY <1>2, <1>3, <1>4 DEF ContentInv, ContentTyped
<1>6. DraftAccounted(d)'
  <2>1. package'[d] = "none"
    BY DEF ContentInv, DraftAccounted
  <2> QED BY <1>2, <1>3, <1>4, <2>1 DEF DraftAccounted
<1>7. \A x \in Draft : DraftAccounted(x)'
  BY <1>3, <1>4, <1>6, OthersStay DEF Call
<1> QED BY <1>3, <1>5, <1>7 DEF ContentInv

LEMMA DraftStep ==
    ASSUME ContentInv, NEW d \in Draft,
           Generate(d) \/ Researched(d) \/ SerpAnswered(d) \/ MetaReturned(d)
    PROVE  ContentInv'
<1>0. d \in Call /\ outline[d] = outline[d]
  BY DEF Call
<1>1. /\ badAnswer \in [Draft -> BOOLEAN] /\ answer \in [Draft -> {"text", "null"}]
      /\ package \in [Draft -> {"none", "generated", "blank", "keyword"}]
      /\ DraftAccounted(d)
  BY DEF ContentInv, ContentTyped
<1>2. UNCHANGED <<outline, sections>>
  BY DEF Generate, Researched, SerpAnswered, MetaReturned
<1>3. ASSUME NEW to \in Stage, Goes(d, to), to # "idle", to = "done" => forgeState' = "idle",
             forgeState' \in {"idle", "generating", "optimizing", "scoring"},
             badAnswer' \in [Draft -> BOOLEAN], answer' \in [Draft -> {"text", "null"}],
             package' \in [Draft -> {"none", "generated", "blank", "keyword"}],
             \A x \in Draft : x # d =>
                badAnswer'[x] = badAnswer[x] /\ answer'[x] = answer[x] /\ package'[x] = package[x],
             stage'[d] = to => DraftAccounted(d)'
      PROVE  ContentInv'
  <2>1. /\ stage' \in [Call -> Stage] /\ stage'[d] = to
        /\ \A i \in Call : i # d => stage'[i] = stage[i]
        /\ EndsIdle'
    BY <1>0, <1>3, CallMoves DEF ContentInv
  <2>2. ContentTyped'
    BY <1>2, <1>3, <2>1 DEF ContentInv, ContentTyped
  <2>3. \A x \in Draft : DraftAccounted(x)'
    BY <1>2, <1>3, <2>1, OthersStay DEF Call
  <2> QED BY <2>1, <2>2, <2>3 DEF ContentInv
<1>4. CASE Generate(d)
  <2>1. /\ stage[d] = "idle" /\ Goes(d, "research") /\ forgeState' = "generating"
        /\ UNCHANGED <<outline, sections, answer, package, badAnswer>>
    BY <1>4 DEF Generate
  <2>2. stage'[d] = "research" => DraftAccounted(d)'
    BY <1>1, <2>1 DEF DraftAccounted
  <2>3. "research" \in Stage
    BY DEF Stage
  <2> QED BY <1>1, <1>3, <2>1, <2>2, <2>3
<1>5. CASE Researched(d)
  <2>1. PICK a \in {"text", "null"} :
          /\ answer' = [answer EXCEPT ![d] = a] /\ badAnswer' = [badAnswer EXCEPT ![d] = a = "null"]
          /\ stage[d] = "research" /\ Goes(d, "serp")
          /\ UNCHANGED <<forgeState, outline, sections, package>>
    BY <1>5 DEF Researched
  <2>2. answer'[d] = a /\ (badAnswer'[d] <=> a = "null")
    BY <1>1, <2>1
  <2>3. stage'[d] = "serp" => DraftAccounted(d)'
    BY <1>1, <2>1, <2>2 DEF DraftAccounted
  <2>4. /\ badAnswer' \in [Draft -> BOOLEAN] /\ answer' \in [Draft -> {"text", "null"}]
        /\ \A x \in Draft : x # d => badAnswer'[x] = badAnswer[x] /\ answer'[x] = answer[x]
    BY <1>1, <2>1
  <2>5. "serp" \in Stage /\ forgeState' \in {"idle", "generating", "optimizing", "scoring"}
    BY <2>1 DEF Stage, ContentInv, ContentTyped
  <2> QED BY <1>1, <1>3, <2>1, <2>3, <2>4, <2>5
<1>6. CASE SerpAnswered(d)
  <2>1. PICK null \in BOOLEAN :
          /\ badAnswer' = [badAnswer EXCEPT ![d] = badAnswer[d] \/ null]
          /\ Goes(d, IF null \/ answer[d] = "null" THEN "raised" ELSE "outline")
          /\ stage[d] = "serp" /\ UNCHANGED <<forgeState, outline, sections, answer, package>>
    BY <1>6 DEF SerpAnswered
  <2>2. /\ badAnswer' \in [Draft -> BOOLEAN] /\ (badAnswer'[d] <=> badAnswer[d] \/ null)
        /\ \A x \in Draft : x # d => badAnswer'[x] = badAnswer[x]
    BY <1>1, <2>1
  <2>3. PICK to \in Stage : to = IF null \/ answer[d] = "null" THEN "raised" ELSE "outline"
    BY DEF Stage
  <2>4. stage'[d] = to => DraftAccounted(d)'
    BY <1>1, <2>1, <2>2, <2>3 DEF DraftAccounted
  <2>5. forgeState' \in {"idle", "generating", "optimizing", "scoring"}
    BY <2>1 DEF ContentInv, ContentTyped
  <2>6. Goes(d, to) /\ to # "idle" /\ to # "done"
    BY <2>1, <2>3
  <2> QED BY <1>1, <1>3, <2>1, <2>2, <2>4, <2>5, <2>6
<1>7. CASE MetaReturned(d)
  <2>1. PICK title \in {"generated", "blank", "keyword"} :
          /\ package' = [package EXCEPT ![d] = title]
          /\ stage[d] = "meta" /\ Goes(d, "done") /\ forgeState' = "idle"
          /\ UNCHANGED <<outline, sections, answer, badAnswer>>
    BY <1>7 DEF MetaReturned
  <2>2. stage'[d] = "done" => DraftAccounted(d)'
    BY <1>1, <2>1 DEF DraftAccounted
  <2>3. /\ package' \in [Draft -> {"none", "generated", "blank", "keyword"}]
        /\ \A x \in Draft : x # d => package'[x] = package[x]
    BY <1>1, <2>1
  <2>4. "done" \in Stage
    BY DEF Stage
  <2> QED BY <1>1, <1>3, <2>1, <2>2, <2>3, <2>4
<1> QED BY <1>4, <1>5, <1>6, <1>7

LEMMA OutlinedStep ==
    ASSUME ContentInv, NEW d \in Draft, Outlined(d)
    PROVE  ContentInv'
<1>0. DraftAccounted(d) /\ badAnswer \in [Draft -> BOOLEAN] /\ d \in Call
  BY DEF ContentInv, ContentTyped, Call
<1>1. CASE \E n \in 0..MaxSections : NextSection(d, n, <<>>) /\ badAnswer' = badAnswer
  <2>1. PICK n \in 0..MaxSections : NextSection(d, n, <<>>) /\ badAnswer' = badAnswer
    BY <1>1
  <2>2. stage[d] = "outline" /\ UNCHANGED <<answer, package>>
    BY DEF Outlined
  <2>3. PICK q \in Seq(Content) : q = <<>> /\ Len(q) = 0 /\ ToSet(q) = {}
    <3>1. <<>> \in Seq(Content) /\ Len(<<>>) = 0 /\ ToSet(<<>>) = {}
      BY DEF ToSet
    <3> QED BY <3>1
  <2>4. ~badAnswer[d] /\ Len(q) <= n
    BY <1>0, <2>2, <2>3 DEF DraftAccounted
  <2>5. badAnswer' \in [Draft -> BOOLEAN] /\ (badAnswer'[d] <=> "null" \in ToSet(q))
    BY <1>0, <2>1, <2>3, <2>4
  <2>6. NextSection(d, n, q) /\ \A x \in Draft : x # d => badAnswer'[x] = badAnswer[x]
    BY <2>1, <2>3
  <2> QED BY <2>2, <2>4, <2>5, <2>6, NextSectionStep
<1>2. CASE /\ Goes(d, "raised") /\ badAnswer' = [badAnswer EXCEPT ![d] = TRUE]
           /\ UNCHANGED <<forgeState, outline, sections, answer, package>>
  <2>1. stage[d] = "outline"
    BY DEF Outlined
  <2>2. /\ stage' \in [Call -> Stage] /\ stage'[d] = "raised"
        /\ \A i \in Call : i # d => stage'[i] = stage[i]
        /\ EndsIdle'
    BY <1>0, <1>2, CallMoves DEF ContentInv, Stage
  <2>3. ContentTyped'
    BY <1>2, <2>2 DEF ContentInv, ContentTyped
  <2>4. /\ badAnswer'[d] /\ \A x \in Draft : x # d => badAnswer'[x] = badAnswer[x]
    BY <1>0, <1>2
  <2>5. DraftAccounted(d)'
    BY <1>0, <1>2, <2>1, <2>2, <2>4 DEF DraftAccounted
  <2>6. \A x \in Draft : DraftAccounted(x)'
    BY <1>2, <2>2, <2>4, <2>5, OthersStay DEF Call
  <2> QED BY <2>2, <2>3, <2>6 DEF ContentInv
<1> QED BY <1>1, <1>2 DEF Outlined

LEMMA SectionStep ==
    ASSUME ContentInv, NEW d \in Draft, SectionReturned(d)
    PROVE  ContentInv'
<1>1. PICK content \in Content :
        /\ NextSection(d, outline[d], Append(sections[d], content))
        /\ badAnswer' = [badAnswer EXCEPT ![d] = badAnswer[d] \/ content = "null"]
        /\ stage[d] = "section" /\ UNCHANGED <<answer, package>>
  BY DEF SectionReturned, Content
<1>2. /\ badAnswer \in [Draft -> BOOLEAN] /\ outline[d] \in 0..MaxSections
      /\ sections[d] \in Seq(Content) /\ DraftAccounted(d)
  BY DEF ContentInv, ContentTyped
<1>3. PICK q \in Seq(Content) : /\ q = Append(sections[d], content) /\ Len(q) = Len(sections[d]) + 1
                                /\ ToSet(q) = ToSet(sections[d]) \cup {content}
  BY <1>2, OneMore
<1>4. (badAnswer[d] <=> "null" \in ToSet(sections[d])) /\ Len(sections[d]) < outline[d]
  BY <1>1, <1>2 DEF DraftAccounted
<1>5. /\ badAnswer' \in [Draft -> BOOLEAN] /\ (badAnswer'[d] <=> badAnswer[d] \/ content = "null")
      /\ \A x \in Draft : x # d => badAnswer'[x] = badAnswer[x]
  BY <1>1, <1>2
<1>6. badAnswer'[d] <=> "null" \in ToSet(q)
  BY <1>3, <1>4, <1>5
<1>7. Len(q) <= outline[d]
  <2>1. PICK m, n \in Nat : m = Len(sections[d]) /\ n = outline[d]
    BY <1>2, ContentAssumption
  <2> QED BY <1>3, <1>4, <2>1
<1>8. NextSection(d, outline[d], q)
  BY <1>1, <1>3
<1> QED BY <1>1, <1>2, <1>5, <1>6, <1>7, <1>8, NextSectionStep

LEMMA ReviewStep ==
    ASSUME ContentInv, NEW r \in Review, Audit(r) \/ GapsAnalysed(r)
    PROVE  ContentInv'
<1>1. PICK to \in Stage :
        /\ Goes(r, to) /\ to # "idle" /\ (to = "done" => forgeState' = "idle")
        /\ forgeState' \in {"idle", "scoring"}
        /\ UNCHANGED <<outline, sections, answer, package, badAnswer>>
  BY DEF Audit, GapsAnalysed, Stage
<1>2. /\ stage' \in [Call -> Stage]
      /\ \A i \in Call : i # r => stage'[i] = stage[i]
      /\ EndsIdle'
  BY <1>1, CallMoves DEF ContentInv, Call
<1>3. ContentTyped'
  BY <1>1, <1>2 DEF ContentInv, ContentTyped
<1>4. \A x \in Draft : stage'[x] = stage[x]
  BY <1>2, ContentAssumption DEF Call
<1>5. \A x \in Draft : DraftAccounted(x)'
  BY <1>1, <1>4 DEF ContentInv, DraftAccounted
<1> QED BY <1>2, <1>3, <1>5 DEF ContentInv

LEMMA ContentStep == ContentInv /\ [ContentNext]_contentVars => ContentInv'
<1> SUFFICES ASSUME ContentInv, [ContentNext]_contentVars PROVE ContentInv'
  OBVIOUS
<1>1. CASE UNCHANGED contentVars
  BY <1>1 DEF contentVars, ContentInv, ContentTyped, DraftAccounted, EndsIdle
<1> QED BY <1>1, DraftStep, OutlinedStep, SectionStep, ReviewStep DEF ContentNext

(***************************************************************************)
(* Calls of the content agent end well, for any drafts, reviews and        *)
(* length of an outline.                                                   *)
(***************************************************************************)
THEOREM CallsOfForgeEndWell == ContentSpec => []CallsEndWell
<1>1. ContentInv => CallsEndWell
  BY DEF ContentInv, ContentTyped, DraftAccounted, CallsEndWell, ContentTypeOK, OutagesCostNoPackage
<1> QED BY <1>1, ContentStarts, ContentStep, PTL DEF ContentSpec
-------------------------------------------------------------------------------
(***************************************************************************)
(* What the agents of this file share: lists that are kept sorted by       *)
(* inserting behind all that goes first.                                   *)
(***************************************************************************)

\* A set of numbers has a smallest one.
LEMMA FirstExists ==
    ASSUME NEW S \in SUBSET Nat, S # {}
    PROVE  \E i \in S : \A j \in S : i <= j
<1>1. PICK i \in S : \A j \in S : ~ (<<j, i>> \in OpToRel(<, Nat))
  BY NatLessThanWellFounded, WFMin
<1>2. \A j \in S : ~ (j < i)
  BY <1>1 DEF OpToRel
<1> QED BY <1>2

\* The first k entries of a sequence and the others.
LEMMA PartsAre ==
    ASSUME NEW S, NEW q \in Seq(S), NEW n \in Nat, n = Len(q), NEW k \in Nat, k <= n,
           NEW a, a = SubSeq(q, 1, k), NEW b, b = SubSeq(q, k + 1, n)
    PROVE  /\ a \in Seq(S) /\ Len(a) = k /\ \A i \in 1..k : a[i] = q[i]
           /\ b \in Seq(S) /\ Len(b) = n - k /\ \A i \in 1..n - k : b[i] = q[k + i]
<1>1. a \in Seq(S)
  OBVIOUS
<1>2. Len(a) = k
  OBVIOUS
<1>3. \A i \in 1..k : a[i] = q[i]
  OBVIOUS
<1>4. b \in Seq(S)
  OBVIOUS
<1>5. Len(b) = n - k
  OBVIOUS
<1>6. \A i \in 1..n - k : b[i] = q[k + i]
  OBVIOUS
<1> QED BY <1>1, <1>2, <1>3, <1>4, <1>5, <1>6

\* Positions with all the positions before them are the first ones.
LEMMA PrefixIs ==
    ASSUME NEW n \in Nat, NEW S \in SUBSET (1..n), \A i \in S : \A j \in 1..n : j < i => j \in S
    PROVE  Cardinality(S) \in 0..n /\ S = 1..Cardinality(S)
<1> DEFINE R == (1..n + 1) \ S
<1>1. R \in SUBSET Nat /\ n + 1 \in R
  OBVIOUS
<1>2. PICK m \in R : \A j \in R : m <= j
  BY <1>1, FirstExists
<1>3. m \in Nat /\ m >= 1 /\ m <= n + 1 /\ m \notin S
  BY <1>2
<1>4. S = 1..m - 1
  <2>1. ASSUME NEW j \in S PROVE j \in 1..m - 1
    <3>1. j \in 1..n /\ j # m
      BY <1>3
    <3>2. ~ (m < j)
      BY <1>3, <3>1
    <3> QED BY <1>3, <3>1, <3>2
  <2>2. ASSUME NEW j \in 1..m - 1 PROVE j \in S
    <3>1. j \in 1..n + 1 /\ ~ (m <= j)
      BY <1>3
    <3> QED BY <1>2, <3>1
  <2> QED BY <2>1, <2>2
<1>5. Cardinality(S) = m - 1
  BY <1>3, <1>4, FS_Interval
<1> QED BY <1>3, <1>4, <1>5

\* A sequence with one more entry behind the first k.
IsInserted(r, q, k, e) ==
    /\ Len(r) = Len(q) + 1
    /\ \A i \in 1..Len(q) + 1 : r[i] = IF i <= k THEN q[i] ELSE IF i = k + 1 THEN e ELSE q[i - 1]

LEMMA InsertedIs ==
    ASSUME NEW S, NEW q \in Seq(S), NEW e \in S, NEW k \in 0..Len(q)
    PROVE  InsertAt(q, k + 1, e) \in Seq(S) /\ IsInserted(InsertAt(q, k + 1, e), q, k, e)
<1> PICK n \in Nat : n = Len(q)
  OBVIOUS
<1>a. PICK before : before = SubSeq(q, 1, k)
  OBVIOUS
<1>b. PICK after : after = SubSeq(q, k + 1, n)
  OBVIOUS
<1>c. PICK front : front = before \o <<e>>
  OBVIOUS
<1>d. PICK r : r = front \o after
  OBVIOUS
<1>1. k \in Nat /\ k <= n /\ (k + 1) - 1 = k
  OBVIOUS
<1>2. r = InsertAt(q, k + 1, e)
  <2>1. InsertAt(q, k + 1, e) = SubSeq(q, 1, (k + 1) - 1) \o <<e>> \o SubSeq(q, k + 1, Len(q))
    BY DEF InsertAt
  <2> QED BY <1>1, <1>a, <1>b, <1>c, <1>d, <2>1
<1>3. /\ before \in Seq(S) /\ Len(before) = k /\ \A i \in 1..k : before[i] = q[i]
      /\ after \in Seq(S) /\ Len(after) = n - k /\ \A i \in 1..n - k : after[i] = q[k + i]
  BY <1>1, <1>a, <1>b, PartsAre
<1>4. front \in Seq(S) /\ Len(front) = k + 1 /\ front[k + 1] = e /\ \A i \in 1..k : front[i] = q[i]
  <2>1. /\ <<e>> \in Seq(S) /\ Len(<<e>>) = 1 /\ <<e>>[1] = e
    OBVIOUS
  <2>2. /\ front \in Seq(S) /\ Len(front) = k + 1
        /\ \A i \in 1..k + 1 : front[i] = IF i <= k THEN before[i] ELSE <<e>>[i - k]
    BY <1>3, <1>c, <2>1, ConcatProperties
  <2>3. k + 1 \in 1..k + 1 /\ ~ (k + 1 <= k) /\ (k + 1) - k = 1
    BY <1>1
  <2>4. \A i \in 1..k : i \in 1..k + 1 /\ i <= k
    BY <1>1
  <2> QED BY <1>3, <2>1, <2>2, <2>3, <2>4
<1>5. /\ r \in Seq(S) /\ Len(r) = (k + 1) + (n - k)
      /\ \A i \in 1..k + 1 : r[i] = front[i]
      /\ \A i \in 1..n - k : r[(k + 1) + i] = after[i]
  <2>1. /\ r \in Seq(S) /\ Len(r) = (k + 1) + (n - k)
        /\ \A i \in 1..(k + 1) + (n - k) : r[i] = IF i <= k + 1 THEN front[i] ELSE after[i - (k + 1)]
    <3>1. front \in Seq(S) /\ after \in Seq(S) /\ Len(front) = k + 1 /\ Len(after) = n - k
      BY <1>3, <1>4
    <3>2. /\ r \in Seq(S) /\ Len(r) = Len(front) + Len(after)
          /\ \A i \in 1..Len(front) + Len(after) :
                r[i] = IF i <= Len(front) THEN front[i] ELSE after[i - Len(front)]
      BY <1>d, <3>1, ConcatProperties, Zenon
    <3> QED BY <3>1, <3>2, Zenon
  <2>2. \A i \in 1..k + 1 : i \in 1..(k + 1) + (n - k) /\ i <= k + 1
    BY <1>1
  <2>3. \A i \in 1..n - k : /\ (k + 1) + i \in 1..(k + 1) + (n - k)
                            /\ ~ ((k + 1) + i <= k + 1) /\ ((k + 1) + i) - (k + 1) = i
    BY <1>1
  <2>4. \A i \in 1..k + 1 : r[i] = front[i]
    BY <2>1, <2>2
  <2>5. \A i \in 1..n - k : r[(k + 1) + i] = after[i]
    <3> SUFFICES ASSUME NEW i \in 1..n - k PROVE r[(k + 1) + i] = after[i]
      OBVIOUS
    <3> PICK j : j = (k + 1) + i
      OBVIOUS
    <3>1. j \in 1..(k + 1) + (n - k) /\ ~ (j <= k + 1) /\ j - (k + 1) = i
      BY <2>3
    <3>2. r[j] = after[j - (k + 1)]
      BY <2>1, <3>1
    <3> QED BY <3>1, <3>2
  <2> QED BY <2>1, <2>4, <2>5
<1>6. Len(r) = n + 1
  BY <1>1, <1>5
<1>7. ASSUME NEW i \in 1..n + 1 PROVE r[i] = IF i <= k THEN q[i] ELSE IF i = k + 1 THEN e ELSE q[i - 1]
  <2>1. CASE i <= k
    <3>1. i \in 1..k /\ i \in 1..k + 1
      BY <1>1, <2>1
    <3> QED BY <1>4, <1>5, <2>1, <3>1
  <2>2. CASE i = k + 1
    <3>1. i \in 1..k + 1 /\ ~ (i <= k)
      BY <1>1, <2>2
    <3> QED BY <1>4, <1>5, <2>2, <3>1
  <2>3. CASE i > k + 1
    <3>1. PICK x \in 1..n - k : i = (k + 1) + x
      <4>1. i - (k + 1) \in 1..n - k /\ i = (k + 1) + (i - (k + 1))
        BY <1>1, <2>3
      <4> QED BY <4>1
    <3>2. r[i] = q[k + x]
      BY <1>3, <1>5, <3>1
    <3>3. k + x = i - 1 /\ ~ (i <= k) /\ i # k + 1
      BY <1>1, <2>3, <3>1
    <3> QED BY <3>2, <3>3
  <2> QED BY <1>1, <2>1, <2>2, <2>3
<1> QED BY <1>2, <1>5, <1>6, <1>7 DEF IsInserted

-------------------------------------------------------------------------------
(***************************************************************************)
(* DecisionEngine: scores                                                  *)
(***************************************************************************)

\* The smaller of two numbers.
LEMMA MinOfTwo ==
    ASSUME NEW m \in Nat, NEW n \in Nat
    PROVE  Min({m, n}) = IF m <= n THEN m ELSE n
<1> DEFINE P(x) == x \in {m, n} /\ \A y \in {m, n} : x =< y
<1>1. P(IF m <= n THEN m ELSE n)
  OBVIOUS
<1>2. P(CHOOSE x : P(x))
  BY <1>1
<1>3. Min({m, n}) = CHOOSE x : P(x)
  BY DEF Min
<1> QED BY <1>2, <1>3

\* The larger of two numbers.
LEMMA MaxOfTwo ==
    ASSUME NEW m \in Nat, NEW n \in Nat
    PROVE  Max({m, n}) = IF m >= n THEN m ELSE n
<1> DEFINE P(x) == x \in {m, n} /\ \A y \in {m, n} : x >= y
<1>1. P(IF m >= n THEN m ELSE n)
  OBVIOUS
<1>2. P(CHOOSE x : P(x))
  BY <1>1
<1>3. Max({m, n}) = CHOOSE x : P(x)
  BY DEF Max
<1> QED BY <1>2, <1>3

\* Zero, or what is more.
LEMMA MaxWithZero ==
    ASSUME NEW m \in Int
    PROVE  Max({0, m}) = IF m <= 0 THEN 0 ELSE m
<1> DEFINE P(x) == x \in {0, m} /\ \A y \in {0, m} : x >= y
<1>1. P(IF m <= 0 THEN 0 ELSE m)
  OBVIOUS
<1>2. P(CHOOSE x : P(x))
  BY <1>1
<1>3. Max({0, m}) = CHOOSE x : P(x)
  BY DEF Max
<1> QED BY <1>2, <1>3

\* More divided by the same is not less.
LEMMA DivMonotone ==
    ASSUME NEW m \in Nat, NEW n \in Nat, m <= n, NEW d \in Nat \ {0}
    PROVE  m \div d \in Nat /\ n \div d \in Nat /\ m \div d <= n \div d
<1>1. PICK a \in Int : a = m \div d
  OBVIOUS
<1>2. PICK b \in Int : b = n \div d
  OBVIOUS
<1>3. /\ d * a <= m /\ m < d * a + d /\ d * b <= n /\ n < d * b + d
  BY <1>1, <1>2
<1>4. a >= 0 /\ b >= 0
  <2>1. \A c \in Int : c < 0 => d * c <= 0 - d
    OBVIOUS
  <2> QED BY <1>3, <2>1
<1>5. a <= b
  <2> SUFFICES ASSUME a >= b + 1 PROVE FALSE
    OBVIOUS
  <2>1. d * a >= d * b + d
    OBVIOUS
  <2> QED BY <1>3, <2>1
<1> QED BY <1>1, <1>2, <1>4, <1>5

\* More of one factor and no less of another.
LEMMA TimesMonotone ==
    ASSUME NEW a \in Nat, NEW b \in Nat, NEW c \in Nat, NEW d \in Nat, a <= c, b <= d
    PROVE  a * b \in Nat /\ c * d \in Nat /\ a * b <= c * d
<1>1. a * b <= c * b
  OBVIOUS
<1>2. c * b <= c * d
  OBVIOUS
<1> QED BY <1>1, <1>2

LEMMA FactorsAre ==
    ASSUME NEW type
    PROVE  /\ Factors(type)[1] \in Nat /\ Factors(type)[2] \in Nat \ {0}
           /\ Factors(type)[3] \in Nat \ {0}
BY DEF Factors

\* Impact and urgency of a task that is in no respect worse.
LEMMA ImpactIs ==
    ASSUME NEW p, p.impact \in Nat
    PROVE  Impact(p) = IF p.impact <= 10 THEN p.impact ELSE 10
BY MinOfTwo DEF Impact

LEMMA UrgencyMonotone ==
    ASSUME NEW p, NEW q, p.type = q.type,
           {p.drop, p.deadline, p.waited, q.drop, q.deadline, q.waited} \subseteq Int,
           p.waited <= q.waited, p.drop <= q.drop, p.deadline >= q.deadline
    PROVE  Urgency(p) \in 5..10 /\ Urgency(q) \in 5..10 /\ Urgency(p) <= Urgency(q)
BY DEF Urgency, Ageing

Numerator(p) == Impact(p) * Urgency(p) * Factors(p.type)[1] * 8400
Denominator(p) == Factors(p.type)[2] * Factors(p.type)[3]
Quotient(p) == Numerator(p) \div Denominator(p)

LEMMA DenominatorIs ==
    ASSUME NEW p
    PROVE  Denominator(p) \in Nat \ {0}
<1>1. PICK g \in Nat \ {0} : g = Factors(p.type)[2]
  BY FactorsAre
<1>2. PICK h \in Nat \ {0} : h = Factors(p.type)[3]
  BY FactorsAre
<1>3. g * h \in Nat \ {0}
  OBVIOUS
<1> QED BY <1>1, <1>2, <1>3 DEF Denominator

LEMMA NumeratorMonotone ==
    ASSUME NEW p, NEW q, p.type = q.type, p.impact \in Nat, q.impact \in Nat, p.impact <= q.impact,
           {p.drop, p.deadline, p.waited, q.drop, q.deadline, q.waited} \subseteq Int,
           p.waited <= q.waited, p.drop <= q.drop, p.deadline >= q.deadline
    PROVE  Numerator(p) \in Nat /\ Numerator(q) \in Nat /\ Numerator(p) <= Numerator(q)
<1>1. PICK a \in Nat : a = Impact(p)
  BY ImpactIs
<1>2. PICK b \in Nat : b = Impact(q)
  BY ImpactIs
<1>3. a <= b
  BY <1>1, <1>2, ImpactIs
<1>4. PICK c \in Nat : c = Urgency(p)
  BY UrgencyMonotone
<1>5. PICK d \in Nat : d = Urgency(q)
  BY UrgencyMonotone
<1>6. c <= d
  BY <1>4, <1>5, UrgencyMonotone
<1>7. PICK f \in Nat : f = Factors(p.type)[1]
  BY FactorsAre
<1>8. a * c \in Nat /\ b * d \in Nat /\ a * c <= b * d
  BY <1>3, <1>6, TimesMonotone
<1>9. a * c * f \in Nat /\ b * d * f \in Nat /\ a * c * f <= b * d * f
  BY <1>8, TimesMonotone
<1>10. a * c * f * 8400 \in Nat /\ b * d * f * 8400 \in Nat /\ a * c * f * 8400 <= b * d * f * 8400
  BY <1>9
<1>11. Numerator(p) = a * c * f * 8400 /\ Numerator(q) = b * d * f * 8400
  BY <1>1, <1>2, <1>4, <1>5, <1>7 DEF Numerator
<1> QED BY <1>10, <1>11

LEMMA QuotientMonotone ==
    ASSUME NEW p, NEW q, p.type = q.type, p.impact \in Nat, q.impact \in Nat, p.impact <= q.impact,
           {p.drop, p.deadline, p.waited, q.drop, q.deadline, q.waited} \subseteq Int,
           p.waited <= q.waited, p.drop <= q.drop, p.deadline >= q.deadline
    PROVE  Quotient(p) \in Nat /\ Quotient(q) \in Nat /\ Quotient(p) <= Quotient(q)
<1>1. PICK x \in Nat : x = Numerator(p)
  BY NumeratorMonotone
<1>2. PICK y \in Nat : y = Numerator(q)
  BY NumeratorMonotone
<1>3. x <= y
  BY <1>1, <1>2, NumeratorMonotone
<1>4. PICK z \in Nat \ {0} : z = Denominator(p)
  BY DenominatorIs
<1>5. z = Denominator(q)
  BY <1>4 DEF Denominator
<1>6. x \div z \in Nat /\ y \div z \in Nat /\ x \div z <= y \div z
  BY <1>3, DivMonotone
<1>7. Quotient(p) = x \div z /\ Quotient(q) = y \div z
  BY <1>1, <1>2, <1>4, <1>5, Zenon DEF Quotient
<1> QED BY <1>6, <1>7, Zenon

\* The score of a task, and of one that is in no respect worse.
LEMMA ScoreMonotone ==
    ASSUME NEW t \in Task, NEW u \in Task,
           Profile[t].type = Profile[u].type, Profile[t].impact <= Profile[u].impact,
           Profile[t].waited <= Profile[u].waited, Profile[t].drop <= Profile[u].drop,
           Profile[t].deadline >= Profile[u].deadline
    PROVE  Normalized(Profile[t]) <= Normalized(Profile[u])
<1>1. PICK m \in Nat : m = Quotient(Profile[t])
  BY DecisionAssumption, QuotientMonotone
<1>2. PICK n \in Nat : n = Quotient(Profile[u])
  BY DecisionAssumption, QuotientMonotone
<1>3. m <= n
  BY <1>1, <1>2, DecisionAssumption, QuotientMonotone
<1>4. Normalized(Profile[t]) = Min({8400, m}) /\ Normalized(Profile[u]) = Min({8400, n})
  BY <1>1, <1>2 DEF Normalized, Quotient, Numerator, Denominator, Capped
<1> QED BY <1>3, <1>4, MinOfTwo

Scores == 0..8400

LEMMA ScoreIs ==
    ASSUME NEW t \in Task
    PROVE  Normalized(Profile[t]) \in Scores
<1>1. PICK m \in Nat : m = Quotient(Profile[t])
  BY DecisionAssumption, QuotientMonotone
<1>2. Normalized(Profile[t]) = Min({8400, m})
  BY <1>1 DEF Normalized, Quotient, Numerator, Denominator, Capped
<1>3. Min({8400, m}) = IF 8400 <= m THEN 8400 ELSE m
  BY MinOfTwo
<1>4. PICK z : z = Normalized(Profile[t])
  OBVIOUS
<1>5. z = IF 8400 <= m THEN 8400 ELSE m
  BY <1>2, <1>3, <1>4
<1>6. z \in 0..8400
  BY <1>5
<1>7. z \in Scores
  BY <1>6 DEF Scores
<1> QED BY <1>4, <1>7, Zenon

-------------------------------------------------------------------------------
(***************************************************************************)
(* DecisionEngine: the queue                                               *)
(***************************************************************************)
Entry == Task \X Scores
Job == [task : Task, priority : {"P0", "P1", "P2", "P3"}, granted : [ToSet(DispatchApis) -> Nat]]

Waiting(q) == {q[i][1] : i \in 1..Len(q)}
Sent(log) == {log[i].task : i \in 1..Len(log)}
Came(a, x, y) == \E k, l \in 1..Len(a) : a[k] = x /\ a[l] = y /\ k < l

\* Entries go by their scores, and by their arrival where those are equal.
InTurn(q, a) ==
    \A i, j \in 1..Len(q) : i < j =>
        \/ q[i][2] > q[j][2]
        \/ q[i][2] = q[j][2] /\ Came(a, q[i][1], q[j][1])

(***************************************************************************)
(* Nobody waits twice, who has come waits or was sent but not both, and    *)
(* whoever waits is in turn.                                               *)
(***************************************************************************)
QueueInv ==
    /\ queue \in Seq(Entry) /\ arrived \in Seq(Task) /\ dispatched \in Seq(Job)
    /\ \A i, j \in 1..Len(queue) : queue[i][1] = queue[j][1] => i = j
    /\ Waiting(queue) \cup Sent(dispatched) = ToSet(arrived)
    /\ Waiting(queue) \cap Sent(dispatched) = {}
    /\ Len(queue) + Len(dispatched) = Len(arrived)
    /\ InTurn(queue, arrived)

LEMMA EntryIs ==
    ASSUME NEW e \in Entry
    PROVE  e[1] \in Task /\ e[2] \in Int
<1>1. e[1] \in Task /\ e[2] \in Scores
  BY DEF Entry
<1>2. Scores \subseteq Int
  BY DEF Scores
<1> QED BY <1>1, <1>2, Zenon

LEMMA QueueInvImplies ==
    ASSUME QueueInv
    PROVE  QueueIsFair /\ \A i \in DOMAIN queue : queue[i] \in Entry
<1>1. DOMAIN queue = 1..Len(queue) /\ DOMAIN dispatched = 1..Len(dispatched) /\ DOMAIN arrived = 1..Len(arrived)
  BY DEF QueueInv
<1>2. \A i \in DOMAIN queue : queue[i] \in Entry
  BY <1>1 DEF QueueInv
<1>3. {queue[i][1] : i \in DOMAIN queue} = ToSet(arrived) \ {dispatched[i].task : i \in DOMAIN dispatched}
  BY <1>1, Zenon DEF QueueInv, Waiting, Sent
<1>4. ASSUME NEW i \in DOMAIN queue, NEW j \in DOMAIN queue, i < j
      PROVE  \/ queue[i][2] > queue[j][2]
             \/ /\ queue[i][2] = queue[j][2]
                /\ \E k, l \in DOMAIN arrived : arrived[k] = queue[i][1] /\ arrived[l] = queue[j][1] /\ k < l
  <2>1. InTurn(queue, arrived) /\ i \in 1..Len(queue) /\ j \in 1..Len(queue)
    BY <1>1 DEF QueueInv
  <2>2. \/ queue[i][2] > queue[j][2]
        \/ queue[i][2] = queue[j][2] /\ Came(arrived, queue[i][1], queue[j][1])
    BY <1>4, <2>1, Zenon DEF InTurn
  <2> QED BY <1>1, <2>2, Zenon DEF Came
<1>5. Len(queue) + Len(dispatched) = Len(arrived)
  BY DEF QueueInv
<1> QED BY <1>2, <1>3, <1>4, <1>5, Zenon DEF QueueIsFair

\* Where the entries of a sequence are when there is one more.
ArePlaced(r, q, k, e) ==
    /\ \A i \in 1..Len(r) : \/ i = k + 1 /\ r[i] = e
                            \/ \E m \in 1..Len(q) : r[i] = q[m] /\ i = IF m <= k THEN m ELSE m + 1
    /\ \A m \in 1..Len(q) : \E i \in 1..Len(r) : r[i] = q[m]
    /\ k + 1 \in 1..Len(r) /\ r[k + 1] = e

LEMMA Places ==
    ASSUME NEW S, NEW q \in Seq(S), NEW e \in S, NEW k \in 0..Len(q), NEW r, IsInserted(r, q, k, e)
    PROVE  ArePlaced(r, q, k, e)
<1> PICK n \in Nat : n = Len(q)
  OBVIOUS
<1>1. /\ k \in Nat /\ k <= n /\ Len(r) = n + 1
      /\ \A i \in 1..n + 1 : r[i] = IF i <= k THEN q[i] ELSE IF i = k + 1 THEN e ELSE q[i - 1]
  BY DEF IsInserted
<1>2. ASSUME NEW i \in 1..n + 1, i # k + 1
      PROVE  \E m \in 1..n : r[i] = q[m] /\ i = IF m <= k THEN m ELSE m + 1
  <2>1. CASE i <= k
    BY <1>1, <2>1
  <2>2. CASE i > k + 1
    <3>1. PICK m \in 1..n : m = i - 1
      BY <1>1, <2>2
    <3>2. r[i] = q[m] /\ ~ (m <= k) /\ i = m + 1
      BY <1>1, <2>2, <3>1
    <3> QED BY <3>2
  <2> QED BY <1>1, <1>2, <2>1, <2>2
<1>3. ASSUME NEW m \in 1..n PROVE \E i \in 1..n + 1 : r[i] = q[m]
  <2>1. CASE m <= k
    BY <1>1, <2>1
  <2>2. CASE m > k
    <3>1. PICK i \in 1..n + 1 : i = m + 1
      OBVIOUS
    <3>2. ~ (i <= k) /\ i # k + 1 /\ i - 1 = m
      BY <1>1, <2>2, <3>1
    <3>3. r[i] = q[m]
      BY <1>1, <3>2
    <3> QED BY <3>3
  <2> QED BY <1>1, <2>1, <2>2
<1>4. k + 1 \in 1..n + 1 /\ r[k + 1] = e
  BY <1>1
<1> QED BY <1>1, <1>2, <1>3, <1>4 DEF ArePlaced

\* In a queue in turn the entries that go before a new one are the first ones.
LEMMA AheadIs ==
    ASSUME NEW q \in Seq(Entry), NEW a, InTurn(q, a), NEW e \in Entry
    PROVE  /\ Cardinality(AheadOf(q, e)) \in 0..Len(q)
           /\ AheadOf(q, e) = 1..Cardinality(AheadOf(q, e))
<1> PICK n \in Nat : n = Len(q)
  OBVIOUS
<1>1. DOMAIN q = 1..n /\ AheadOf(q, e) = {i \in 1..n : q[i][2] >= e[2]}
  BY DEF AheadOf
<1>2. e[2] \in Int /\ \A i \in 1..n : q[i][2] \in Int
  <2>1. \A i \in 1..n : q[i] \in Entry
    OBVIOUS
  <2> QED BY <2>1, EntryIs
<1>3. ASSUME NEW i \in AheadOf(q, e), NEW j \in 1..n, j < i PROVE j \in AheadOf(q, e)
  <2>1. i \in 1..n /\ q[i][2] >= e[2]
    BY <1>1
  <2>2. q[j][2] >= q[i][2]
    BY <1>2, <1>3, <2>1 DEF InTurn
  <2>3. q[j][2] >= e[2]
    BY <1>2, <2>1, <2>2
  <2> QED BY <1>1, <2>3
<1>4. AheadOf(q, e) \in SUBSET (1..n)
  BY <1>1
<1> QED BY <1>3, <1>4, PrefixIs

LEMMA ArriveStep ==
    ASSUME QueueInv, NEW t \in Task, ScoreAndQueue(t)
    PROVE  QueueInv'
<1>a. PICK e : e = <<t, Normalized(Profile[t])>>
  OBVIOUS
<1>1. e \in Entry /\ e[1] = t
  <2>1. PICK s \in Scores : s = Normalized(Profile[t])
    BY ScoreIs, Zenon
  <2>2. e = <<t, s>>
    BY <1>a, <2>1, Zenon
  <2> QED BY <2>2 DEF Entry
<1>b. PICK k : k = Cardinality(AheadOf(queue, e))
  OBVIOUS
<1>2. k \in 0..Len(queue) /\ AheadOf(queue, e) = 1..k
  BY <1>1, <1>b, AheadIs DEF QueueInv
<1>3. queue' = InsertAt(queue, k + 1, e)
  BY <1>a, <1>b DEF ScoreAndQueue, Sorted
<1>4. queue' \in Seq(Entry) /\ IsInserted(queue', queue, k, e)
  BY <1>1, <1>2, <1>3, InsertedIs DEF QueueInv
<1>5. PICK n \in Nat : n = Len(queue)
  BY DEF QueueInv
<1>6. PICK c \in Nat : c = Len(arrived)
  BY DEF QueueInv
<1>7. Len(queue') = n + 1 /\ k \in Nat /\ k <= n
  BY <1>2, <1>4, <1>5 DEF IsInserted
<1>8. /\ \A i \in 1..n + 1 : \/ i = k + 1 /\ queue'[i] = e
                             \/ \E m \in 1..n : queue'[i] = queue[m] /\ i = IF m <= k THEN m ELSE m + 1
      /\ \A m \in 1..n : \E i \in 1..n + 1 : queue'[i] = queue[m]
      /\ k + 1 \in 1..n + 1 /\ queue'[k + 1] = e
  <2>1. queue \in Seq(Entry)
    BY DEF QueueInv
  <2>2. ArePlaced(queue', queue, k, e)
    BY <1>1, <1>2, <1>4, <2>1, Places, Zenon
  <2> QED BY <1>5, <1>7, <2>2 DEF ArePlaced
<1>9. /\ t \notin ToSet(arrived) /\ arrived' = Append(arrived, t) /\ dispatched' = dispatched
  BY DEF ScoreAndQueue
<1>10. /\ arrived' \in Seq(Task) /\ Len(arrived') = c + 1 /\ arrived'[c + 1] = t
       /\ \A i \in 1..c : arrived'[i] = arrived[i]
  BY <1>6, <1>9, AppendProperties DEF QueueInv
<1>11. ToSet(arrived) = {arrived[i] : i \in 1..c}
  <2>1. DOMAIN arrived = 1..c
    BY <1>6 DEF QueueInv
  <2> QED BY <2>1, Zenon DEF ToSet
<1>12. ToSet(arrived') = ToSet(arrived) \cup {t}
  <2>1. ToSet(arrived') = {arrived'[i] : i \in 1..c + 1}
    BY <1>10 DEF ToSet
  <2> QED BY <1>10, <1>11, <2>1
<1>13. Waiting(queue) = {queue[i][1] : i \in 1..n} /\ Waiting(queue') = {queue'[i][1] : i \in 1..n + 1}
  BY <1>5, <1>7 DEF Waiting
<1>14. t \notin Waiting(queue) /\ t \notin Sent(dispatched)
  BY <1>9 DEF QueueInv
<1>15. Waiting(queue') = Waiting(queue) \cup {t}
  BY <1>1, <1>8, <1>13
<1>16. \A m \in 1..n : queue[m][1] # t
  BY <1>13, <1>14
<1>17. ASSUME NEW i \in 1..n + 1, NEW j \in 1..n + 1, queue'[i][1] = queue'[j][1] PROVE i = j
  <2>1. \A m, l \in 1..n : queue[m][1] = queue[l][1] => m = l
    BY <1>5 DEF QueueInv
  <2>2. CASE i = k + 1
    <3>1. queue'[j][1] = t
      BY <1>1, <1>8, <1>17, <2>2
    <3> QED BY <1>8, <1>16, <2>2, <3>1
  <2>3. CASE j = k + 1
    <3>1. queue'[i][1] = t
      BY <1>1, <1>8, <1>17, <2>3
    <3> QED BY <1>8, <1>16, <2>3, <3>1
  <2>4. CASE i # k + 1 /\ j # k + 1
    <3>1. PICK m \in 1..n : queue'[i] = queue[m] /\ i = IF m <= k THEN m ELSE m + 1
      BY <1>8, <2>4
    <3>2. PICK l \in 1..n : queue'[j] = queue[l] /\ j = IF l <= k THEN l ELSE l + 1
      BY <1>8, <2>4
    <3>3. m = l
      BY <1>17, <2>1, <3>1, <3>2
    <3> QED BY <3>1, <3>2, <3>3
  <2> QED BY <2>2, <2>3, <2>4
<1>18. \A x, y : Came(arrived, x, y) => Came(arrived', x, y)
  BY <1>6, <1>10 DEF Came
<1>19. \A m \in 1..n : Came(arrived', queue[m][1], t)
  <2> SUFFICES ASSUME NEW m \in 1..n PROVE Came(arrived', queue[m][1], t)
    OBVIOUS
  <2>1. queue[m][1] \in ToSet(arrived)
    BY <1>13 DEF QueueInv
  <2>2. PICK h \in 1..c : arrived[h] = queue[m][1]
    BY <1>11, <2>1
  <2>3. arrived'[h] = queue[m][1] /\ h \in 1..c + 1 /\ c + 1 \in 1..c + 1 /\ h < c + 1
    BY <1>10, <2>2
  <2> QED BY <1>10, <2>3 DEF Came
<1>20. \A m \in 1..n : /\ queue[m][2] \in Int
                       /\ m <= k => queue[m][2] >= e[2]
                       /\ k < m => queue[m][2] < e[2]
  <2> SUFFICES ASSUME NEW m \in 1..n
               PROVE  /\ queue[m][2] \in Int
                      /\ m <= k => queue[m][2] >= e[2]
                      /\ k < m => queue[m][2] < e[2]
    OBVIOUS
  <2>1. queue[m][2] \in Int /\ e[2] \in Int
    <3>1. queue[m] \in Entry
      BY <1>5 DEF QueueInv
    <3> QED BY <1>1, <3>1, EntryIs
  <2>2. m \in DOMAIN queue
    BY <1>5 DEF QueueInv
  <2>3. m \in AheadOf(queue, e) <=> queue[m][2] >= e[2]
    BY <2>2 DEF AheadOf
  <2>4. m \in 1..k <=> m <= k
    BY <1>7
  <2> QED BY <1>2, <1>7, <2>1, <2>3, <2>4
<1>21. ASSUME NEW i \in 1..n + 1, NEW j \in 1..n + 1, i < j
       PROVE  \/ queue'[i][2] > queue'[j][2]
              \/ queue'[i][2] = queue'[j][2] /\ Came(arrived', queue'[i][1], queue'[j][1])
  <2>1. CASE i = k + 1
    <3>1. queue'[i] = e /\ j # k + 1
      BY <1>8, <1>21, <2>1
    <3>2. PICK m \in 1..n : queue'[j] = queue[m] /\ j = IF m <= k THEN m ELSE m + 1
      BY <1>8, <3>1
    <3>3. k < m
      BY <1>7, <1>21, <2>1, <3>2
    <3>4. queue[m][2] < e[2] /\ queue[m][2] \in Int /\ e[2] \in Int
      BY <1>1, <1>20, <3>3, EntryIs
    <3>5. e[2] > queue[m][2]
      BY <3>4
    <3> QED BY <3>1, <3>2, <3>5
  <2>2. CASE j = k + 1
    <3>1. queue'[j] = e /\ i # k + 1
      BY <1>8, <1>21, <2>2
    <3>2. PICK m \in 1..n : queue'[i] = queue[m] /\ i = IF m <= k THEN m ELSE m + 1
      BY <1>8, <3>1
    <3>3. m <= k
      BY <1>7, <1>21, <2>2, <3>2
    <3>4. queue[m][2] >= e[2] /\ queue[m][2] \in Int /\ e[2] \in Int
      BY <1>1, <1>20, <3>3, EntryIs
    <3>5. queue[m][2] > e[2] \/ queue[m][2] = e[2]
      BY <3>4
    <3> QED BY <1>1, <1>19, <3>1, <3>2, <3>5
  <2>3. CASE i # k + 1 /\ j # k + 1
    <3>1. PICK m \in 1..n : queue'[i] = queue[m] /\ i = IF m <= k THEN m ELSE m + 1
      BY <1>8, <2>3
    <3>2. PICK l \in 1..n : queue'[j] = queue[l] /\ j = IF l <= k THEN l ELSE l + 1
      BY <1>8, <2>3
    <3>3. m < l
      BY <1>7, <1>21, <3>1, <3>2
    <3>4. \/ queue[m][2] > queue[l][2]
          \/ queue[m][2] = queue[l][2] /\ Came(arrived, queue[m][1], queue[l][1])
      BY <1>5, <3>3 DEF QueueInv, InTurn
    <3> QED BY <1>18, <3>1, <3>2, <3>4
  <2> QED BY <2>1, <2>2, <2>3
<1>22. InTurn(queue', arrived')
  BY <1>7, <1>21 DEF InTurn
<1>23. Len(dispatched) \in Nat /\ n + Len(dispatched) = c
  BY <1>5, <1>6 DEF QueueInv
<1>24. Len(queue') + Len(dispatched') = Len(arrived')
  <2>1. PICK d \in Nat : d = Len(dispatched)
    BY <1>23
  <2>2. Len(dispatched') = d /\ (n + 1) + d = c + 1
    BY <1>9, <1>23, <2>1
  <2> QED BY <1>7, <1>10, <2>2
<1>25. dispatched' \in Seq(Job) /\ Sent(dispatched') = Sent(dispatched)
  BY <1>9 DEF QueueInv
<1>26. /\ Waiting(queue') \cup Sent(dispatched') = ToSet(arrived')
       /\ Waiting(queue') \cap Sent(dispatched') = {}
  BY <1>12, <1>14, <1>15, <1>25 DEF QueueInv
<1>27. \A i, j \in 1..Len(queue') : queue'[i][1] = queue'[j][1] => i = j
  BY <1>7, <1>17
<1> QED BY <1>4, <1>10, <1>22, <1>24, <1>25, <1>26, <1>27 DEF QueueInv

LEMMA SendStep ==
    ASSUME QueueInv, queue # <<>>, queue' = Tail(queue), arrived' = arrived,
           NEW job \in Job, job.task = Head(queue)[1], dispatched' = Append(dispatched, job)
    PROVE  QueueInv'
<1>1. PICK n \in Nat : n = Len(queue)
  BY DEF QueueInv
<1>2. PICK c \in Nat : c = Len(arrived)
  BY DEF QueueInv
<1>3. PICK d \in Nat : d = Len(dispatched)
  BY DEF QueueInv
<1>4. /\ n # 0 /\ Head(queue) = queue[1] /\ queue' \in Seq(Entry) /\ Len(queue') = n - 1
      /\ \A i \in 1..n - 1 : queue'[i] = queue[i + 1]
  <2>1. queue \in Seq(Entry)
    BY DEF QueueInv
  <2>2. n # 0
    BY <1>1, <2>1, EmptySeq, Zenon
  <2> QED BY <1>1, <2>1, <2>2, HeadTailProperties
<1>5. /\ dispatched' \in Seq(Job) /\ Len(dispatched') = d + 1 /\ dispatched'[d + 1] = job
      /\ \A i \in 1..d : dispatched'[i] = dispatched[i]
  BY <1>3, AppendProperties DEF QueueInv
<1>6. Waiting(queue) = {queue[i][1] : i \in 1..n} /\ Waiting(queue') = {queue'[i][1] : i \in 1..n - 1}
  BY <1>1, <1>4 DEF Waiting
<1>7. Sent(dispatched) = {dispatched[i].task : i \in 1..d} /\ Sent(dispatched') = {dispatched'[i].task : i \in 1..d + 1}
  BY <1>3, <1>5 DEF Sent
<1>8. Sent(dispatched') = Sent(dispatched) \cup {queue[1][1]}
  BY <1>4, <1>5, <1>7
<1>9. \A i, j \in 1..n : queue[i][1] = queue[j][1] => i = j
  BY <1>1 DEF QueueInv
<1>10. Waiting(queue) = Waiting(queue') \cup {queue[1][1]} /\ queue[1][1] \notin Waiting(queue')
  <2>1. \A i \in 1..n : i = 1 \/ (i - 1 \in 1..n - 1 /\ (i - 1) + 1 = i)
    OBVIOUS
  <2>2. \A i \in 1..n - 1 : i + 1 \in 1..n /\ i + 1 # 1
    OBVIOUS
  <2>3. 1 \in 1..n
    BY <1>4
  <2>4. Waiting(queue) \subseteq Waiting(queue') \cup {queue[1][1]}
    <3> SUFFICES ASSUME NEW i \in 1..n PROVE queue[i][1] \in Waiting(queue') \cup {queue[1][1]}
      BY <1>6
    <3>1. CASE i = 1
      BY <3>1
    <3>2. CASE i # 1
      <4>1. PICK j \in 1..n - 1 : j + 1 = i
        BY <2>1, <3>2
      <4>2. queue'[j][1] = queue[i][1]
        BY <1>4, <4>1
      <4> QED BY <1>6, <4>2
    <3> QED BY <3>1, <3>2
  <2>5. Waiting(queue') \subseteq Waiting(queue) /\ queue[1][1] \in Waiting(queue)
    BY <1>4, <1>6, <2>2, <2>3
  <2>6. queue[1][1] \notin Waiting(queue')
    BY <1>4, <1>6, <1>9, <2>2, <2>3
  <2> QED BY <2>4, <2>5, <2>6
<1>11. /\ Waiting(queue') \cup Sent(dispatched') = ToSet(arrived')
       /\ Waiting(queue') \cap Sent(dispatched') = {}
  <2>1. /\ Waiting(queue) \cup Sent(dispatched) = ToSet(arrived)
        /\ Waiting(queue) \cap Sent(dispatched) = {}
        /\ ToSet(arrived') = ToSet(arrived)
    BY DEF QueueInv
  <2> QED BY <1>8, <1>10, <2>1
<1>12. Len(queue') + Len(dispatched') = Len(arrived')
  <2>1. n + d = c
    BY <1>1, <1>2, <1>3 DEF QueueInv
  <2>2. (n - 1) + (d + 1) = c
    BY <2>1
  <2>3. Len(arrived') = c
    BY <1>2
  <2> QED BY <1>4, <1>5, <2>2, <2>3
<1>13. ASSUME NEW i \in 1..n - 1, NEW j \in 1..n - 1, queue'[i][1] = queue'[j][1] PROVE i = j
  <2>1. i + 1 \in 1..n /\ j + 1 \in 1..n /\ queue'[i] = queue[i + 1] /\ queue'[j] = queue[j + 1]
    BY <1>4
  <2>2. i + 1 = j + 1
    BY <1>9, <1>13, <2>1
  <2> QED BY <2>2
<1>14. ASSUME NEW i \in 1..n - 1, NEW j \in 1..n - 1, i < j
       PROVE  \/ queue'[i][2] > queue'[j][2]
              \/ queue'[i][2] = queue'[j][2] /\ Came(arrived, queue'[i][1], queue'[j][1])
  <2>1. i + 1 \in 1..n /\ j + 1 \in 1..n /\ queue'[i] = queue[i + 1] /\ queue'[j] = queue[j + 1] /\ i + 1 < j + 1
    BY <1>4, <1>14
  <2>2. InTurn(queue, arrived)
    BY DEF QueueInv
  <2> QED BY <1>1, <2>1, <2>2 DEF InTurn
<1>15. InTurn(queue', arrived')
  BY <1>4, <1>14 DEF InTurn
<1>16. \A i, j \in 1..Len(queue') : queue'[i][1] = queue'[j][1] => i = j
  BY <1>4, <1>13
<1>17. arrived' \in Seq(Task)
  BY DEF QueueInv
<1> QED BY <1>4, <1>5, <1>11, <1>12, <1>15, <1>16, <1>17 DEF QueueInv

LEMMA QueueStutter ==
    ASSUME QueueInv, UNCHANGED <<queue, dispatched, arrived>>
    PROVE  QueueInv'
<1>1. queue' = queue /\ dispatched' = dispatched /\ arrived' = arrived
  OBVIOUS
<1> QED BY <1>1, Zenon DEF QueueInv

LEMMA QueueStart == DecisionInit => QueueInv
<1> SUFFICES ASSUME DecisionInit PROVE QueueInv
  OBVIOUS
<1>1. queue = <<>> /\ dispatched = <<>> /\ arrived = <<>>
  BY DEF DecisionInit
<1>2. /\ Len(queue) = 0 /\ Len(dispatched) = 0 /\ Len(arrived) = 0
      /\ queue \in Seq(Entry) /\ dispatched \in Seq(Job) /\ arrived \in Seq(Task)
  BY <1>1
<1>3. Waiting(queue) = {} /\ Sent(dispatched) = {} /\ ToSet(arrived) = {}
  BY <1>1, <1>2 DEF Waiting, Sent, ToSet
<1>4. InTurn(queue, arrived)
  BY <1>2 DEF InTurn
<1> QED BY <1>2, <1>3, <1>4 DEF QueueInv

-------------------------------------------------------------------------------
(***************************************************************************)
(* DecisionEngine: budgets                                                 *)
(***************************************************************************)
BudgetInv == used \in [Agent -> [Api -> Nat]] /\ GrantsWithinBudget

\* What has a budget has no share, so nobody has one of its own.
LEMMA DailyIs ==
    ASSUME NEW api
    PROVE  Daily(api) \in Nat
BY DEF Daily, DailyBudget

LEMMA ShareIs ==
    ASSUME NEW api, NEW agent \in Agent
    PROVE  Share(agent, api) \in Nat /\ (Daily(api) = 0 \/ Share(agent, api) = 0)
<1>1. \A record : record \in {Percent.sentinel, Percent.forge, Percent.technical, Percent.scout, Percent.outreach,
                              Percent.competitor} =>
          /\ api \in DOMAIN record => record[api] \in Nat
          /\ api \in DOMAIN record => api \notin DOMAIN DailyBudget
  BY DEF Percent, DailyBudget
<1>2. Percent[agent] \in {Percent.sentinel, Percent.forge, Percent.technical, Percent.scout, Percent.outreach,
                          Percent.competitor}
  BY DEF Agent, Percent
<1> QED BY <1>1, <1>2 DEF Share, Daily

LEMMA OwnIs ==
    ASSUME NEW api, NEW agent \in Agent
    PROVE  (Daily(api) * Share(agent, api)) \div 100 = 0
<1>1. PICK x \in Nat : x = Daily(api)
  BY DailyIs
<1>2. PICK y \in Nat : y = Share(agent, api)
  BY ShareIs
<1>3. x = 0 \/ y = 0
  BY <1>1, <1>2, ShareIs
<1>4. x * y = 0
  BY <1>3
<1>5. 0 \div 100 = 0
  OBVIOUS
<1>6. Daily(api) * Share(agent, api) = 0
  BY <1>1, <1>2, <1>4
<1> QED BY <1>5, <1>6

LEMMA TotalIs ==
    ASSUME NEW u \in [Agent -> [Api -> Nat]], NEW api \in Api
    PROVE  TotalUsed(u, api) \in Nat /\ \A agent \in Agent : u[agent][api] \in Nat
<1>1. \A agent \in Agent : u[agent][api] \in Nat
  OBVIOUS
<1> QED BY <1>1 DEF TotalUsed, Agent

LEMMA GrantedIs ==
    ASSUME BudgetInv, NEW agent \in Agent, NEW api \in Api, NEW n \in Nat
    PROVE  /\ Granted(used, agent, api, n) \in Nat
           /\ TotalUsed(used, api) + Granted(used, agent, api, n) <= Daily(api)
<1>1. PICK total \in Nat : total = TotalUsed(used, api)
  BY TotalIs DEF BudgetInv
<1>2. PICK daily \in Nat : daily = Daily(api)
  BY DailyIs
<1>3. total <= daily
  BY <1>1, <1>2 DEF BudgetInv, GrantsWithinBudget
<1>4. PICK mine \in Nat : mine = used[agent][api]
  BY TotalIs DEF BudgetInv
<1>5. Pool(used, api) = daily - total
  <2>1. Pool(used, api) = Max({0, daily - total})
    BY <1>1, <1>2 DEF Pool
  <2>2. daily - total \in Int
    OBVIOUS
  <2>3. Max({0, daily - total}) = IF daily - total <= 0 THEN 0 ELSE daily - total
    BY <2>2, MaxWithZero
  <2> QED BY <1>3, <2>1, <2>3
<1>6. Max({0, (Daily(api) * Share(agent, api)) \div 100 - used[agent][api]}) = 0
  <2>1. (Daily(api) * Share(agent, api)) \div 100 - used[agent][api] = 0 - mine
    BY <1>4, OwnIs
  <2>2. 0 - mine \in Int /\ 0 - mine <= 0
    OBVIOUS
  <2> QED BY <2>1, <2>2, MaxWithZero
<1>7. PICK most \in Nat : most = IF 0 < n THEN daily - total ELSE 0
  <2>1. (IF 0 < n THEN daily - total ELSE 0) \in Nat
    BY <1>3
  <2> QED BY <2>1, Zenon
<1>8. Granted(used, agent, api, n) = Min({n, most})
  <2>1. Granted(used, agent, api, n) = Min({n, IF 0 < n THEN 0 + Pool(used, api) ELSE 0})
    BY <1>6 DEF Granted
  <2>2. (IF 0 < n THEN 0 + Pool(used, api) ELSE 0) = most
    BY <1>3, <1>5, <1>7
  <2> QED BY <2>1, <2>2
<1>9. PICK g : g = Granted(used, agent, api, n)
  OBVIOUS
<1>10. g = IF n <= most THEN n ELSE most
  BY <1>8, <1>9, MinOfTwo
<1>11. g \in Nat /\ total + g <= daily
  BY <1>3, <1>7, <1>10
<1> QED BY <1>1, <1>2, <1>9, <1>11

\* An agent gets some of several APIs, of each no more than is left.
LEMMA UsedMore ==
    ASSUME BudgetInv, NEW agent \in Agent, NEW x \in [Api -> Nat],
           \A api \in Api : TotalUsed(used, api) + x[api] <= Daily(api),
           used' = [used EXCEPT ![agent] = [api \in Api |-> used[agent][api] + x[api]]]
    PROVE  BudgetInv'
<1>1. /\ used' \in [Agent -> [Api -> Nat]]
      /\ \A api \in Api : used'[agent][api] = used[agent][api] + x[api]
      /\ \A other \in Agent \ {agent} : used'[other] = used[other]
  BY DEF BudgetInv
<1>2. ASSUME NEW api \in Api PROVE TotalUsed(used', api) = TotalUsed(used, api) + x[api]
  <2>1. \A other \in Agent : used[other][api] \in Nat
    BY TotalIs DEF BudgetInv
  <2>2. PICK g \in Nat : g = x[api]
    OBVIOUS
  <2>3. \A other \in Agent :
           used'[other][api] = IF other = agent THEN used[other][api] + g ELSE used[other][api]
    BY <1>1, <2>2
  <2> QED BY <2>1, <2>2, <2>3 DEF TotalUsed, Agent
<1>3. GrantsWithinBudget'
  BY <1>2 DEF GrantsWithinBudget
<1> QED BY <1>1, <1>3 DEF BudgetInv

LEMMA ApisAre == ToSet(DispatchApis) \subseteq Api /\ {"gmail", "gmail_sends"} \subseteq Api
<1>1. DOMAIN DispatchApis = 1..6 /\ \A i \in 1..6 : DispatchApis[i] \in
         {"dataforseo", "gsc", "exa", "tavily", "gmail", "llm"}
  BY DEF DispatchApis
<1>2. ToSet(DispatchApis) \subseteq {"dataforseo", "gsc", "exa", "tavily", "gmail", "llm"}
  BY <1>1 DEF ToSet
<1>3. {"dataforseo", "gsc", "exa", "tavily", "gmail", "llm"} \subseteq DOMAIN Percent["forge"] \cup DOMAIN Percent["outreach"]
  BY DEF Percent
<1>4. {"forge", "outreach"} \subseteq Agent
  BY DEF Agent
<1>5. DOMAIN Percent["forge"] \subseteq Api /\ DOMAIN Percent["outreach"] \subseteq Api
  BY <1>4 DEF Api
<1>6. "gmail_sends" \in DOMAIN DailyBudget
  BY DEF DailyBudget
<1>7. "gmail_sends" \in Api
  BY <1>6 DEF Api
<1> QED BY <1>2, <1>3, <1>5, <1>7

LEMMA AllocateStep ==
    ASSUME BudgetInv, NEW agent \in Agent, NEW api \in Api, NEW n \in Nat, Allocate(agent, api, n)
    PROVE  BudgetInv'
<1>1. PICK g \in Nat : g = Granted(used, agent, api, n) /\ TotalUsed(used, api) + g <= Daily(api)
  BY GrantedIs
<1>2. PICK x : x = [b \in Api |-> IF b = api THEN g ELSE 0]
  OBVIOUS
<1>3. x \in [Api -> Nat]
  BY <1>2
<1>4. ASSUME NEW b \in Api PROVE TotalUsed(used, b) + x[b] <= Daily(b)
  <2>1. CASE b = api
    BY <1>1, <1>2, <2>1
  <2>2. CASE b # api
    <3>1. x[b] = 0 /\ TotalUsed(used, b) \in Nat
      BY <1>2, <2>2, TotalIs DEF BudgetInv
    <3> QED BY <3>1 DEF BudgetInv, GrantsWithinBudget
  <2> QED BY <2>1, <2>2
<1>5. used \in [Agent -> [Api -> Nat]] /\ used' = [used EXCEPT ![agent][api] = used[agent][api] + g]
  BY <1>1 DEF Allocate, BudgetInv
<1>6. [used[agent] EXCEPT ![api] = used[agent][api] + g] = [b \in Api |-> used[agent][b] + x[b]]
  <2>1. PICK h \in [Api -> Nat] : h = used[agent]
    BY <1>5
  <2>2. \A b \in Api : [h EXCEPT ![api] = h[api] + g][b] = h[b] + x[b]
    BY <1>2
  <2>3. [h EXCEPT ![api] = h[api] + g] = [b \in Api |-> h[b] + x[b]]
    BY <2>2
  <2> QED BY <2>1, <2>3
<1>7. used' = [used EXCEPT ![agent] = [b \in Api |-> used[agent][b] + x[b]]]
  BY <1>5, <1>6
<1> QED BY <1>3, <1>4, <1>7, UsedMore

LEMMA DispatchStep ==
    ASSUME QueueInv, BudgetInv, Dispatch
    PROVE  QueueInv' /\ BudgetInv'
<1>1. PICK t : t = Head(queue)[1]
  OBVIOUS
<1>2. queue # <<>> /\ queue \in Seq(Entry)
  BY DEF Dispatch, QueueInv
<1>3. t \in Task
  <2>1. Head(queue) \in Entry
    BY <1>2, HeadTailProperties
  <2> QED BY <1>1, <2>1, EntryIs
<1>4. PICK agent \in Agent : agent = Target[t]
  BY <1>3, DecisionAssumption
<1>5. PICK got : got = [api \in ToSet(DispatchApis) |-> Granted(used, agent, api, 10)]
  OBVIOUS
<1>6. 10 \in Nat /\ \A api \in ToSet(DispatchApis) :
          Granted(used, agent, api, 10) \in Nat /\ TotalUsed(used, api) + Granted(used, agent, api, 10) <= Daily(api)
  BY GrantedIs, ApisAre
<1>7. got \in [ToSet(DispatchApis) -> Nat] /\ \A api \in ToSet(DispatchApis) : TotalUsed(used, api) + got[api] <= Daily(api)
  BY <1>5, <1>6
<1>8. PICK job : job = [task |-> t, priority |-> Priority(Head(queue)[2]), granted |-> got]
  OBVIOUS
<1>9. job \in Job /\ job.task = Head(queue)[1]
  <2>1. Priority(Head(queue)[2]) \in {"P0", "P1", "P2", "P3"}
    BY DEF Priority
  <2> QED BY <1>1, <1>3, <1>7, <1>8, <2>1 DEF Job
<1>10. /\ dispatched' = Append(dispatched, job) /\ queue' = Tail(queue) /\ arrived' = arrived
       /\ used' = [used EXCEPT ![agent] =
                      [api \in Api |-> used[agent][api] + IF api \in DOMAIN got THEN got[api] ELSE 0]]
  BY <1>1, <1>4, <1>5, <1>8 DEF Dispatch
<1>11. QueueInv'
  BY <1>2, <1>9, <1>10, SendStep
<1>12. PICK x : x = [api \in Api |-> IF api \in ToSet(DispatchApis) THEN got[api] ELSE 0]
  OBVIOUS
<1>13. x \in [Api -> Nat]
  BY <1>7, <1>12
<1>14. used' = [used EXCEPT ![agent] = [api \in Api |-> used[agent][api] + x[api]]]
  BY <1>7, <1>10, <1>12
<1>15. ASSUME NEW api \in Api PROVE TotalUsed(used, api) + x[api] <= Daily(api)
  <2>1. CASE api \in ToSet(DispatchApis)
    BY <1>7, <1>12, <2>1
  <2>2. CASE api \notin ToSet(DispatchApis)
    <3>1. x[api] = 0 /\ TotalUsed(used, api) \in Nat
      BY <1>12, <2>2, TotalIs DEF BudgetInv
    <3> QED BY <3>1 DEF BudgetInv, GrantsWithinBudget
  <2> QED BY <2>1, <2>2
<1>16. BudgetInv'
  BY <1>13, <1>14, <1>15, UsedMore
<1> QED BY <1>11, <1>16

LEMMA BudgetStart == DecisionInit => BudgetInv
<1> SUFFICES ASSUME DecisionInit PROVE BudgetInv
  OBVIOUS
<1>1. used = [a \in Agent |-> [api \in Api |-> 0]]
  BY DEF DecisionInit
<1>2. used \in [Agent -> [Api -> Nat]]
  BY <1>1
<1>3. ASSUME NEW api \in Api PROVE TotalUsed(used, api) <= Daily(api)
  <2>1. \A a \in Agent : used[a][api] = 0
    BY <1>1
  <2>2. TotalUsed(used, api) = 0
    BY <2>1 DEF TotalUsed, Agent
  <2> QED BY <2>2, DailyIs
<1> QED BY <1>2, <1>3 DEF BudgetInv, GrantsWithinBudget

-------------------------------------------------------------------------------
(***************************************************************************)
(* DecisionEngine: claims, and all of it                                   *)
(***************************************************************************)

\* One of finitely many claims has the highest score.
LEMMA HighestExists ==
    ASSUME NEW n \in Nat \ {0}, NEW score, \A i \in 1..n : score[i] \in Int
    PROVE  \E i \in 1..n : \A j \in 1..n : score[j] <= score[i]
<1> DEFINE Highest(i, m) == \A j \in 1..m : score[j] <= score[i]
           S == {m \in 1..n : ~ \E i \in 1..m : Highest(i, m)}
<1> SUFFICES ASSUME n \in S PROVE FALSE
  OBVIOUS
<1>1. S \in SUBSET Nat /\ S # {}
  <2>1. S \subseteq 1..n /\ 1..n \subseteq Nat
    <3>1. \A i \in 1..n : i \in Nat
      OBVIOUS
    <3> QED BY <3>1, Zenon
  <2> QED BY <2>1, Zenon
<1>2. PICK m \in S : \A l \in S : m <= l
  BY <1>1, FirstExists
<1>3. m \in 1..n /\ ~ \E i \in 1..m : Highest(i, m)
  OBVIOUS
<1>4. m # 1
  <2> SUFFICES ASSUME m = 1 PROVE FALSE
    OBVIOUS
  <2>1. 1 \in 1..m /\ Highest(1, m)
    OBVIOUS
  <2> QED BY <1>3, <2>1
<1>5. m - 1 \in 1..n /\ m - 1 \notin S
  <2>1. m - 1 \in 1..n /\ ~ (m <= m - 1)
    <3>1. m \in 1..n
      BY <1>3
    <3> HIDE DEF S
    <3> QED BY <1>4, <3>1
  <2> QED BY <1>2, <2>1, Zenon
<1>6. PICK i \in 1..m - 1 : Highest(i, m - 1)
  BY <1>5
<1>7. i \in 1..m /\ m \in 1..m /\ score[i] \in Int /\ score[m] \in Int
  BY <1>3
<1>8. \A j \in 1..m : j \in 1..m - 1 \/ j = m
  BY <1>3
<1>9. CASE score[m] <= score[i]
  <2>1. Highest(i, m)
    BY <1>6, <1>8, <1>9
  <2> QED BY <1>3, <1>7, <2>1
<1>10. CASE score[i] <= score[m]
  <2>1. Highest(m, m)
    <3> SUFFICES ASSUME NEW j \in 1..m PROVE score[j] <= score[m]
      OBVIOUS
    <3>1. score[j] \in Int
      BY <1>3
    <3>2. j = m \/ score[j] <= score[i]
      BY <1>6, <1>8
    <3> QED BY <1>7, <1>10, <3>1, <3>2
  <2> QED BY <1>3, <1>7, <2>1
<1> QED BY <1>7, <1>9, <1>10

LEMMA WinnerIs ==
    ASSUME NEW claims \in Claims
    PROVE  /\ DOMAIN claims = 1..Len(claims) /\ Winner(claims) \in DOMAIN claims
           /\ \A j \in DOMAIN claims : claims[j].score <= claims[Winner(claims)].score
<1>1. PICK n \in Nat \ {0} : n = Len(claims)
  BY DecisionAssumption
<1>2. DOMAIN claims = 1..n /\ \A i \in 1..n : claims[i].score \in Int
  BY <1>1, DecisionAssumption
<1>3. PICK score : score = [i \in 1..n |-> claims[i].score]
  OBVIOUS
<1>4. \A i \in 1..n : score[i] = claims[i].score
  BY <1>3
<1>5. \E i \in 1..n : \A j \in 1..n : score[j] <= score[i]
  BY <1>2, <1>4, HighestExists
<1>6. PICK I : I = {i \in 1..n : \A j \in 1..n : claims[j].score <= claims[i].score}
  OBVIOUS
<1>7. I \in SUBSET Nat /\ I # {} /\ I \subseteq 1..n
  BY <1>4, <1>5, <1>6
<1>8. Winner(claims) = Min(I)
  <2>1. Winner(claims) =
           LET J == {i \in 1..Len(claims) : \A j \in DOMAIN claims : claims[j].score <= claims[i].score}
           IN  IF J # {} THEN Min(J) ELSE 0
    BY DEF Winner, SelectInSeq
  <2>2. {i \in 1..Len(claims) : \A j \in DOMAIN claims : claims[j].score <= claims[i].score} = I
    BY <1>1, <1>2, <1>6
  <2> QED BY <1>7, <2>1, <2>2
<1>9. Min(I) \in I
  <2>1. \E x \in I : \A y \in I : x <= y
    BY <1>7, FirstExists
  <2> QED BY <2>1 DEF Min
<1>10. PICK w : w = Winner(claims)
  OBVIOUS
<1>11. w \in I
  BY <1>8, <1>9, <1>10
<1>12. w \in 1..n /\ \A j \in 1..n : claims[j].score <= claims[w].score
  BY <1>6, <1>11
<1> QED BY <1>1, <1>2, <1>10, <1>12

LEMMA ResolveStep ==
    ASSUME NEW type \in {"api_budget", "same_url_task", "llm_contention"}, NEW claims \in Claims, Resolve(type, claims)
    PROVE  EveryClaimIsSettled'
<1>1. PICK w : w = Winner(claims)
  OBVIOUS
<1>2. w \in DOMAIN claims /\ \A j \in DOMAIN claims : claims[j].score <= claims[w].score
  BY <1>1, WinnerIs
<1>3. PICK losers : losers = Losers(type, claims)
  OBVIOUS
<1>4. /\ resolution'.claims = claims /\ resolution'.winner = claims[w].agent /\ resolution'.losers = losers
  BY <1>1, <1>3 DEF Resolve
<1>5. {claims[i].agent : i \in DOMAIN claims} = {claims[w].agent} \cup losers
  <2>1. CASE type = "llm_contention"
    <3>1. losers = {claims[i].agent : i \in DOMAIN claims \ {w}}
      BY <1>1, <1>3, <2>1 DEF Losers
    <3> QED BY <1>2, <3>1
  <2>2. CASE type # "llm_contention"
    <3>1. losers = {claims[i].agent : i \in {j \in DOMAIN claims : claims[j] # claims[w]}}
      BY <1>1, <1>3, <2>2 DEF Losers
    <3> QED BY <1>2, <3>1
  <2> QED BY <2>1, <2>2
<1> QED BY <1>2, <1>4, <1>5 DEF EveryClaimIsSettled

DecisionInv == QueueInv /\ BudgetInv /\ EveryClaimIsSettled

LEMMA DecisionInvImplies == DecisionInv => DecisionsAreFair
<1> SUFFICES ASSUME DecisionInv PROVE DecisionsAreFair
  OBVIOUS
<1>1. QueueInv /\ BudgetInv /\ EveryClaimIsSettled
  BY DEF DecisionInv
<1>2. QueueIsFair /\ \A i \in DOMAIN queue : queue[i] \in Entry
  BY <1>1, QueueInvImplies
<1>3. DecisionTypeOK
  <2>1. Entry = Task \X (0..8400)
    BY DEF Entry, Scores
  <2>2. \A i \in DOMAIN queue : queue[i] \in Task \X (0..8400)
    BY <1>2, <2>1
  <2>3. \A i \in DOMAIN dispatched : dispatched[i].task \in Task
    <3>1. dispatched \in Seq(Job)
      BY <1>1 DEF QueueInv
    <3>2. \A i \in DOMAIN dispatched : dispatched[i] \in Job
      BY <3>1
    <3>3. \A job \in Job : job.task \in Task
      BY DEF Job
    <3> QED BY <3>2, <3>3
  <2>4. used \in [Agent -> [Api -> Nat]]
    BY <1>1 DEF BudgetInv
  <2> QED BY <2>2, <2>3, <2>4 DEF DecisionTypeOK
<1>4. WorseNeverScoresLower
  <2>1. ToSet(arrived) \subseteq Task
    BY <1>1 DEF QueueInv, ToSet
  <2> QED BY <2>1, ScoreMonotone DEF WorseNeverScoresLower
<1> QED BY <1>1, <1>2, <1>3, <1>4 DEF BudgetInv, DecisionsAreFair

LEMMA DecisionStart == DecisionInit => DecisionInv
BY QueueStart, BudgetStart DEF DecisionInit, DecisionInv, EveryClaimIsSettled

LEMMA DecisionStep ==
    ASSUME DecisionInv, [DecisionNext]_decisionVars
    PROVE  DecisionInv'
<1>1. QueueInv /\ BudgetInv /\ EveryClaimIsSettled
  BY DEF DecisionInv
<1>2. ASSUME NEW t \in Task, ScoreAndQueue(t) PROVE DecisionInv'
  <2>1. used' = used /\ resolution' = Quiet
    BY <1>2 DEF ScoreAndQueue
  <2>2. BudgetInv' /\ EveryClaimIsSettled'
    BY <1>1, <2>1 DEF BudgetInv, GrantsWithinBudget, EveryClaimIsSettled
  <2> QED BY <1>1, <1>2, <2>2, ArriveStep DEF DecisionInv
<1>3. ASSUME Dispatch PROVE DecisionInv'
  <2>1. resolution' = Quiet
    BY <1>3 DEF Dispatch
  <2> QED BY <1>1, <1>3, <2>1, DispatchStep DEF DecisionInv, EveryClaimIsSettled
<1>4. ASSUME NEW a \in {"outreach", "forge"}, NEW api \in {"gmail", "gmail_sends"}, NEW n \in Requests, Allocate(a, api, n)
      PROVE  DecisionInv'
  <2>1. a \in Agent /\ api \in Api /\ n \in Nat
    BY ApisAre, DecisionAssumption DEF Agent
  <2>2. BudgetInv'
    BY <1>1, <1>4, <2>1, AllocateStep
  <2>3. UNCHANGED <<queue, dispatched, arrived>> /\ resolution' = Quiet
    BY <1>4 DEF Allocate
  <2> QED BY <1>1, <2>2, <2>3, QueueStutter DEF DecisionInv, EveryClaimIsSettled
<1>5. ASSUME NEW type \in {"api_budget", "same_url_task", "llm_contention"}, NEW claims \in Claims, Resolve(type, claims)
      PROVE  DecisionInv'
  <2>1. UNCHANGED <<queue, dispatched, arrived>> /\ used' = used
    BY <1>5 DEF Resolve
  <2>2. BudgetInv'
    BY <1>1, <2>1 DEF BudgetInv, GrantsWithinBudget
  <2> QED BY <1>1, <1>5, <2>1, <2>2, QueueStutter, ResolveStep DEF DecisionInv
<1>6. CASE UNCHANGED decisionVars
  <2>1. UNCHANGED <<queue, dispatched, arrived>> /\ used' = used /\ resolution' = resolution
    BY <1>6 DEF decisionVars
  <2> QED BY <1>1, <2>1, QueueStutter DEF DecisionInv, BudgetInv, GrantsWithinBudget, EveryClaimIsSettled
<1> QED BY <1>2, <1>3, <1>4, <1>5, <1>6 DEF DecisionNext

(***************************************************************************)
(* The decision engine is fair: whatever order tasks come and go in, none  *)
(* is lost or overtaken by one that scores no more; no API is granted      *)
(* beyond its budget; who is in no respect worse scores no lower; and      *)
(* every claim has its outcome, for any tasks, requests and claims.        *)
(***************************************************************************)
THEOREM DecisionsStayFair == DecisionSpec => []DecisionsAreFair
<1>1. DecisionInv /\ [DecisionNext]_decisionVars => DecisionInv'
  BY DecisionStep
<1> QED BY <1>1, DecisionStart, DecisionInvImplies, PTL DEF DecisionSpec

(***************************************************************************)
(* Crawler: the frontier.                                                  *)
(***************************************************************************)
Ticket == Nat \X Url \X (0..MaxDepth)
Finding == Url \X Outcome

\* What goes before what in the frontier; nothing is in it twice.
GoesBefore(e, f) == e[2] # f[2] /\ (e[1] < f[1] \/ (e[1] = f[1] /\ e[3] <= f[3]))
InLine(q) == \A i, j \in 1..Len(q) : i < j => GoesBefore(q[i], q[j])
UrlsOf(q) == {q[i][2] : i \in 1..Len(q)}

LEMMA TicketIs ==
    ASSUME NEW e \in Ticket
    PROVE  e[1] \in Nat /\ e[2] \in Url /\ e[3] \in Nat /\ e[3] <= MaxDepth
<1>1. e[1] \in Nat /\ e[2] \in Url /\ e[3] \in 0..MaxDepth
  BY DEF Ticket
<1>2. \A d \in 0..MaxDepth : d \in Nat /\ d <= MaxDepth
  BY CrawlerAssumption
<1> QED BY <1>1, <1>2, Zenon

LEMMA TicketMade ==
    ASSUME NEW p \in Nat, NEW u \in Url, NEW d \in 0..MaxDepth
    PROVE  <<p, u, d>> \in Ticket /\ <<p, u, d>>[1] = p /\ <<p, u, d>>[2] = u /\ <<p, u, d>>[3] = d
BY DEF Ticket

\* The entries of several urls are all of them, once.
LEMMA EntriesAre ==
    ASSUME NEW urls \in SUBSET Url, NEW p \in Nat, NEW d \in Nat, urls = {} \/ d <= MaxDepth
    PROVE  /\ Entries(urls, p, d) \in Seq(Ticket) /\ UrlsOf(Entries(urls, p, d)) = urls
           /\ \A i \in 1..Len(Entries(urls, p, d)) :
                 Entries(urls, p, d)[i][1] = p /\ Entries(urls, p, d)[i][3] = d
           /\ \A i, j \in 1..Len(Entries(urls, p, d)) :
                 i < j => Entries(urls, p, d)[i][2] # Entries(urls, p, d)[j][2]
<1>1. IsFiniteSet(urls)
  BY CrawlerAssumption, FS_Subset
<1>2. PICK c \in Nat : c = Cardinality(urls) /\ ExistsBijection(1..c, urls)
  BY <1>1, FS_CardinalityType
<1>3. PICK order : order = SetToSeq(urls)
  OBVIOUS
<1>4. order \in [1..c -> urls] /\ IsInjective(order)
  <2>1. \E f \in [1..c -> urls] : IsInjective(f)
    BY <1>2 DEF ExistsBijection, Bijection, Injection
  <2> QED BY <1>2, <1>3, <2>1 DEF SetToSeq
<1>5. \A u \in urls : \E i \in 1..c : order[i] = u
  <2>1. IsFiniteSet(1..c) /\ Cardinality(1..c) = c
    BY FS_Interval
  <2>2. order \in Injection(1..c, urls)
    BY <1>4 DEF Injection
  <2>3. order \in Surjection(1..c, urls)
    BY <1>1, <1>2, <2>1, <2>2, FS_Injection
  <2> QED BY <2>3 DEF Surjection
<1>6. PICK new : new = Entries(urls, p, d)
  OBVIOUS
<1>7. new = [i \in 1..c |-> <<p, order[i], d>>]
  BY <1>3, <1>4, <1>6 DEF Entries
<1>8. \A i \in 1..c : order[i] \in Url /\ new[i] = <<p, order[i], d>>
  BY <1>4, <1>7
<1>9. \A i \in 1..c : new[i] \in Ticket /\ new[i][1] = p /\ new[i][2] = order[i] /\ new[i][3] = d
  <2> SUFFICES ASSUME NEW i \in 1..c
               PROVE  new[i] \in Ticket /\ new[i][1] = p /\ new[i][2] = order[i] /\ new[i][3] = d
    OBVIOUS
  <2>1. urls # {}
    BY <1>4
  <2>2. d \in 0..MaxDepth
    BY <2>1, CrawlerAssumption
  <2>3. PICK u \in Url : u = order[i]
    BY <1>8
  <2>4. new[i] = <<p, u, d>>
    BY <1>8, <2>3
  <2>5. <<p, u, d>> \in Ticket /\ <<p, u, d>>[1] = p /\ <<p, u, d>>[2] = u /\ <<p, u, d>>[3] = d
    BY <2>2, TicketMade
  <2> QED BY <2>3, <2>4, <2>5, Zenon
<1>10. new \in Seq(Ticket) /\ Len(new) = c
  BY <1>7, <1>9
<1>11. UrlsOf(new) = urls
  BY <1>4, <1>5, <1>9, <1>10 DEF UrlsOf
<1>12. \A i, j \in 1..c : i < j => new[i][2] # new[j][2]
  <2> SUFFICES ASSUME NEW i \in 1..c, NEW j \in 1..c, i < j, order[i] = order[j] PROVE FALSE
    BY <1>9
  <2>1. i = j
    BY <1>4 DEF IsInjective
  <2> QED BY <2>1
<1> QED BY <1>6, <1>9, <1>10, <1>11, <1>12

\* A sequence with several more entries behind the first k.
AreSpliced(r, q, k, m) ==
    /\ Len(r) = Len(q) + Len(m)
    /\ \A i \in 1..Len(r) : \/ i <= k /\ i \in 1..Len(q) /\ r[i] = q[i]
                            \/ k < i /\ i - k \in 1..Len(m) /\ r[i] = m[i - k]
                            \/ k + Len(m) < i /\ i - Len(m) \in 1..Len(q) /\ r[i] = q[i - Len(m)]
    /\ \A i \in 1..Len(q) : \E j \in 1..Len(r) : r[j] = q[i]
    /\ \A i \in 1..Len(m) : \E j \in 1..Len(r) : r[j] = m[i]

LEMMA SplicedAre ==
    ASSUME NEW S, NEW q \in Seq(S), NEW m \in Seq(S), NEW k \in 0..Len(q),
           NEW r, r = SubSeq(q, 1, k) \o m \o SubSeq(q, k + 1, Len(q))
    PROVE  r \in Seq(S) /\ AreSpliced(r, q, k, m)
<1> PICK n \in Nat : n = Len(q)
  OBVIOUS
<1> PICK c \in Nat : c = Len(m)
  OBVIOUS
<1>1. k \in Nat /\ k <= n
  OBVIOUS
<1>a. PICK before : before = SubSeq(q, 1, k)
  OBVIOUS
<1>b. PICK behind : behind = SubSeq(q, k + 1, n)
  OBVIOUS
<1>c. PICK front : front = before \o m
  OBVIOUS
<1>2. r = front \o behind
  BY <1>a, <1>b, <1>c
<1>3. /\ before \in Seq(S) /\ Len(before) = k /\ \A i \in 1..k : before[i] = q[i]
      /\ behind \in Seq(S) /\ Len(behind) = n - k /\ \A i \in 1..n - k : behind[i] = q[k + i]
  BY <1>1, <1>a, <1>b, PartsAre
<1>4. /\ front \in Seq(S) /\ Len(front) = k + c
      /\ \A i \in 1..k + c : front[i] = IF i <= k THEN before[i] ELSE m[i - k]
  <2>1. /\ front \in Seq(S) /\ Len(front) = Len(before) + Len(m)
        /\ \A i \in 1..Len(before) + Len(m) :
              front[i] = IF i <= Len(before) THEN before[i] ELSE m[i - Len(before)]
    BY <1>3, <1>c, ConcatProperties, Zenon
  <2> QED BY <1>3, <2>1
<1>5. /\ r \in Seq(S) /\ Len(r) = (k + c) + (n - k)
      /\ \A i \in 1..(k + c) + (n - k) : r[i] = IF i <= k + c THEN front[i] ELSE behind[i - (k + c)]
  <2>1. /\ r \in Seq(S) /\ Len(r) = Len(front) + Len(behind)
        /\ \A i \in 1..Len(front) + Len(behind) :
              r[i] = IF i <= Len(front) THEN front[i] ELSE behind[i - Len(front)]
    <3>1. front \in Seq(S) /\ behind \in Seq(S)
      BY <1>3, <1>4
    <3>2. /\ front \o behind \in Seq(S) /\ Len(front \o behind) = Len(front) + Len(behind)
          /\ \A i \in 1..Len(front) + Len(behind) :
                (front \o behind)[i] = IF i <= Len(front) THEN front[i] ELSE behind[i - Len(front)]
      BY <3>1, ConcatProperties, Zenon
    <3> QED BY <1>2, <3>2, Zenon
  <2>2. Len(front) = k + c /\ Len(behind) = n - k
    BY <1>3, <1>4
  <2> QED BY <2>1, <2>2, Zenon
<1>6. (k + c) + (n - k) = n + c
  BY <1>1
<1>7. ASSUME NEW i \in 1..n + c
      PROVE  \/ i <= k /\ i \in 1..n /\ r[i] = q[i]
             \/ k < i /\ i - k \in 1..c /\ r[i] = m[i - k]
             \/ k + c < i /\ i - c \in 1..n /\ r[i] = q[i - c]
  <2>1. r[i] = IF i <= k + c THEN front[i] ELSE behind[i - (k + c)]
    BY <1>5, <1>6
  <2>2. CASE i <= k
    <3>1. i \in 1..k + c /\ i <= k + c /\ i \in 1..k /\ i \in 1..n
      BY <1>1, <2>2
    <3> QED BY <1>3, <1>4, <2>1, <2>2, <3>1
  <2>3. CASE k < i /\ i <= k + c
    <3>1. i \in 1..k + c /\ i - k \in 1..c /\ ~ (i <= k)
      BY <1>1, <2>3
    <3> QED BY <1>4, <2>1, <2>3, <3>1
  <2>4. CASE k + c < i
    <3>1. PICK j \in 1..n - k : i = (k + c) + j
      <4>1. i - (k + c) \in 1..n - k /\ i = (k + c) + (i - (k + c))
        BY <1>1, <2>4
      <4> QED BY <4>1
    <3>2. ~ (i <= k + c) /\ i - (k + c) = j /\ i - c = k + j /\ k + j \in 1..n
      BY <1>1, <3>1
    <3> QED BY <1>3, <2>1, <2>4, <3>2
  <2>5. i <= k \/ (k < i /\ i <= k + c) \/ k + c < i
    BY <1>1
  <2> QED BY <2>2, <2>3, <2>4, <2>5, Zenon
<1>8. ASSUME NEW i \in 1..n PROVE \E j \in 1..n + c : r[j] = q[i]
  <2>1. CASE i <= k
    <3>1. i \in 1..n + c /\ i <= k + c /\ i \in 1..k + c /\ i \in 1..k
      BY <1>1, <2>1
    <3>2. r[i] = q[i]
      BY <1>3, <1>4, <1>5, <1>6, <2>1, <3>1
    <3> QED BY <3>1, <3>2
  <2>2. CASE k < i
    <3>1. PICK j \in 1..n - k : i = k + j
      <4>1. i - k \in 1..n - k /\ i = k + (i - k)
        BY <1>1, <2>2
      <4> QED BY <4>1
    <3>2. PICK l \in 1..n + c : l = (k + c) + j
      BY <1>1
    <3>3. ~ (l <= k + c) /\ l - (k + c) = j
      BY <1>1, <3>2
    <3>4. r[l] = behind[j]
      BY <1>5, <1>6, <3>3
    <3> QED BY <1>3, <3>1, <3>4
  <2>3. i <= k \/ k < i
    BY <1>1
  <2> QED BY <2>1, <2>2, <2>3, Zenon
<1>9. ASSUME NEW i \in 1..c PROVE \E j \in 1..n + c : r[j] = m[i]
  <2>1. PICK l \in 1..n + c : l = k + i
    BY <1>1
  <2>2. l \in 1..k + c /\ l <= k + c /\ ~ (l <= k) /\ l - k = i
    BY <1>1, <2>1
  <2>3. r[l] = m[i]
    BY <1>4, <1>5, <1>6, <2>2
  <2> QED BY <2>3
<1>10. Len(r) = n + c
  BY <1>5, <1>6
<1>11. AreSpliced(r, q, k, m)
  <2>1. \A i \in 1..Len(r) :
           \/ i <= k /\ i \in 1..Len(q) /\ r[i] = q[i]
           \/ k < i /\ i - k \in 1..Len(m) /\ r[i] = m[i - k]
           \/ k + Len(m) < i /\ i - Len(m) \in 1..Len(q) /\ r[i] = q[i - Len(m)]
    BY <1>7, <1>10, Zenon
  <2>2. \A i \in 1..Len(q) : \E j \in 1..Len(r) : r[j] = q[i]
    BY <1>8, <1>10, Zenon
  <2>3. \A i \in 1..Len(m) : \E j \in 1..Len(r) : r[j] = m[i]
    BY <1>9, <1>10, Zenon
  <2> QED BY <1>10, <2>1, <2>2, <2>3 DEF AreSpliced
<1> QED BY <1>5, <1>11

\* Urls that are added to the frontier keep it in line.
LEMMA AddedIs ==
    ASSUME NEW q \in Seq(Ticket), InLine(q), NEW urls \in SUBSET Url, UrlsOf(q) \cap urls = {},
           NEW p \in Nat, NEW d \in Nat, urls = {} \/ d <= MaxDepth
    PROVE  /\ Added(q, urls, p, d) \in Seq(Ticket) /\ InLine(Added(q, urls, p, d))
           /\ UrlsOf(Added(q, urls, p, d)) = UrlsOf(q) \cup urls
<1> PICK n \in Nat : n = Len(q)
  OBVIOUS
<1>a. PICK m : m = Entries(urls, p, d)
  OBVIOUS
<1>1. /\ m \in Seq(Ticket) /\ UrlsOf(m) = urls
      /\ \A i \in 1..Len(m) : m[i][1] = p /\ m[i][3] = d
      /\ \A i, j \in 1..Len(m) : i < j => m[i][2] # m[j][2]
  <2>1. urls \in SUBSET Url /\ p \in Nat /\ d \in Nat /\ (urls = {} \/ d <= MaxDepth)
    OBVIOUS
  <2>2. /\ Entries(urls, p, d) \in Seq(Ticket) /\ UrlsOf(Entries(urls, p, d)) = urls
        /\ \A i \in 1..Len(Entries(urls, p, d)) :
              Entries(urls, p, d)[i][1] = p /\ Entries(urls, p, d)[i][3] = d
        /\ \A i, j \in 1..Len(Entries(urls, p, d)) :
              i < j => Entries(urls, p, d)[i][2] # Entries(urls, p, d)[j][2]
    BY <2>1, EntriesAre, Zenon
  <2> QED BY <1>a, <2>2, Zenon
<1>2. PICK c \in Nat : c = Len(m)
  BY <1>1
<1>3. d \in Nat
  OBVIOUS
<1>4. \A i \in 1..n : q[i][1] \in Nat /\ q[i][2] \in Url /\ q[i][3] \in Nat
  <2>1. \A i \in 1..n : q[i] \in Ticket
    OBVIOUS
  <2> QED BY <2>1, TicketIs
<1>5. \A i, j \in 1..n : i < j => GoesBefore(q[i], q[j])
  BY DEF InLine
<1>6. DOMAIN q = 1..n /\ Ranked(q, p, d) =
         {i \in 1..n : q[i][1] < p \/ (q[i][1] = p /\ q[i][3] <= d)}
  BY DEF Ranked
<1>b. PICK k : k = Cardinality(Ranked(q, p, d))
  OBVIOUS
<1>7. k \in 0..n /\ Ranked(q, p, d) = 1..k
  <2>1. Ranked(q, p, d) \in SUBSET (1..n)
    BY <1>6
  <2>2. ASSUME NEW i \in Ranked(q, p, d), NEW j \in 1..n, j < i PROVE j \in Ranked(q, p, d)
    <3>1. i \in 1..n /\ (q[i][1] < p \/ (q[i][1] = p /\ q[i][3] <= d))
      BY <1>6
    <3>2. q[j][1] < q[i][1] \/ (q[j][1] = q[i][1] /\ q[j][3] <= q[i][3])
      BY <1>5, <2>2, <3>1 DEF GoesBefore
    <3>3. q[j][1] < p \/ (q[j][1] = p /\ q[j][3] <= d)
      BY <1>3, <1>4, <3>1, <3>2
    <3> QED BY <1>6, <3>3
  <2> QED BY <1>b, <2>1, <2>2, PrefixIs
<1>8. k \in Nat /\ k <= n
  BY <1>7
<1>c. PICK r : r = Added(q, urls, p, d)
  OBVIOUS
<1>9. r = SubSeq(q, 1, k) \o m \o SubSeq(q, k + 1, Len(q))
  BY <1>a, <1>b, <1>c DEF Added
<1>10. r \in Seq(Ticket) /\ AreSpliced(r, q, k, m)
  BY <1>1, <1>7, <1>9, SplicedAre
<1>11. Len(r) = n + c
  BY <1>2, <1>10 DEF AreSpliced
<1>12. \A i \in 1..n + c :
          \/ i <= k /\ i \in 1..n /\ r[i] = q[i]
          \/ k < i /\ i - k \in 1..c /\ r[i] = m[i - k]
          \/ k + c < i /\ i - c \in 1..n /\ r[i] = q[i - c]
  BY <1>2, <1>10, <1>11, Zenon DEF AreSpliced
<1>13. /\ \A i \in 1..n : \E j \in 1..n + c : r[j] = q[i]
       /\ \A i \in 1..c : \E j \in 1..n + c : r[j] = m[i]
  BY <1>2, <1>10, <1>11 DEF AreSpliced
<1>14. UrlsOf(q) = {q[i][2] : i \in 1..n} /\ UrlsOf(m) = {m[i][2] : i \in 1..c}
       /\ UrlsOf(r) = {r[i][2] : i \in 1..n + c}
  BY <1>2, <1>11 DEF UrlsOf
<1>15. UrlsOf(r) = UrlsOf(q) \cup urls
  <2>1. UrlsOf(r) \subseteq UrlsOf(q) \cup UrlsOf(m)
    BY <1>12, <1>14
  <2>2. UrlsOf(q) \subseteq UrlsOf(r) /\ UrlsOf(m) \subseteq UrlsOf(r)
    <3>1. ASSUME NEW u \in UrlsOf(q) PROVE u \in UrlsOf(r)
      <4>1. PICK i \in 1..n : u = q[i][2]
        BY <1>14
      <4>2. PICK j \in 1..n + c : r[j] = q[i]
        BY <1>13
      <4> QED BY <1>14, <4>1, <4>2
    <3>2. ASSUME NEW u \in UrlsOf(m) PROVE u \in UrlsOf(r)
      <4>1. PICK i \in 1..c : u = m[i][2]
        BY <1>14
      <4>2. PICK j \in 1..n + c : r[j] = m[i]
        BY <1>13
      <4> QED BY <1>14, <4>1, <4>2
    <3> QED BY <3>1, <3>2
  <2> QED BY <1>1, <2>1, <2>2
<1>16. \A i \in 1..n, j \in 1..c : q[i][2] # m[j][2] /\ m[j][2] # q[i][2]
  <2> SUFFICES ASSUME NEW i \in 1..n, NEW j \in 1..c, q[i][2] = m[j][2] PROVE FALSE
    OBVIOUS
  <2>1. q[i][2] \in UrlsOf(q) /\ m[j][2] \in urls
    BY <1>1, <1>14
  <2> QED BY <2>1
<1>17. \A j \in 1..c : m[j][1] = p /\ m[j][3] = d
  BY <1>1, <1>2
<1>18. ASSUME NEW i \in 1..n, NEW j \in 1..c, i <= k PROVE GoesBefore(q[i], m[j])
  <2>1. i \in Ranked(q, p, d)
    BY <1>7, <1>8, <1>18
  <2>2. q[i][1] < p \/ (q[i][1] = p /\ q[i][3] <= d)
    BY <1>6, <2>1
  <2> QED BY <1>16, <1>17, <2>2 DEF GoesBefore
<1>19. ASSUME NEW i \in 1..n, NEW j \in 1..c, k < i PROVE GoesBefore(m[j], q[i])
  <2>1. i \notin Ranked(q, p, d)
    BY <1>7, <1>8, <1>19
  <2>2. ~ (q[i][1] < p \/ (q[i][1] = p /\ q[i][3] <= d))
    BY <1>6, <2>1
  <2>3. p < q[i][1] \/ (p = q[i][1] /\ d <= q[i][3])
    BY <1>3, <1>4, <2>2
  <2> QED BY <1>16, <1>17, <2>3 DEF GoesBefore
<1>20. ASSUME NEW i \in 1..c, NEW j \in 1..c, i < j PROVE GoesBefore(m[i], m[j])
  <2>1. m[i][2] # m[j][2]
    BY <1>1, <1>2, <1>20
  <2> QED BY <1>3, <1>17, <2>1 DEF GoesBefore
<1>21. ASSUME NEW i \in 1..n + c, NEW j \in 1..n + c, i < j PROVE GoesBefore(r[i], r[j])
  <2>1. CASE i <= k /\ i \in 1..n /\ r[i] = q[i]
    <3>1. CASE j <= k /\ j \in 1..n /\ r[j] = q[j]
      BY <1>5, <1>21, <2>1, <3>1
    <3>2. CASE k < j /\ j - k \in 1..c /\ r[j] = m[j - k]
      BY <1>18, <2>1, <3>2
    <3>3. CASE k + c < j /\ j - c \in 1..n /\ r[j] = q[j - c]
      <4>1. i < j - c
        BY <1>8, <2>1, <3>3
      <4> QED BY <1>5, <2>1, <3>3, <4>1
    <3> QED BY <1>12, <3>1, <3>2, <3>3
  <2>2. CASE k < i /\ i - k \in 1..c /\ r[i] = m[i - k]
    <3>1. ~ (j <= k)
      BY <1>8, <1>21, <2>2
    <3>2. CASE k < j /\ j - k \in 1..c /\ r[j] = m[j - k]
      <4>1. i - k < j - k
        BY <1>8, <1>21
      <4> QED BY <1>20, <2>2, <3>2, <4>1
    <3>3. CASE k + c < j /\ j - c \in 1..n /\ r[j] = q[j - c]
      <4>1. k < j - c
        BY <1>8, <3>3
      <4> QED BY <1>19, <2>2, <3>3, <4>1
    <3> QED BY <1>12, <3>1, <3>2, <3>3
  <2>3. CASE k + c < i /\ i - c \in 1..n /\ r[i] = q[i - c]
    <3>1. ~ (j <= k) /\ ~ (j - k \in 1..c)
      BY <1>8, <1>21, <2>3
    <3>2. CASE k + c < j /\ j - c \in 1..n /\ r[j] = q[j - c]
      <4>1. i - c < j - c
        BY <1>8, <1>21
      <4> QED BY <1>5, <2>3, <3>2, <4>1
    <3> QED BY <1>12, <3>1, <3>2
  <2> QED BY <1>12, <2>1, <2>2, <2>3
<1>22. InLine(r)
  BY <1>11, <1>21 DEF InLine
<1> QED BY <1>10, <1>15, <1>22, <1>c

\* Part of a sequence, and what becomes of it.
IsPart(r, q, k) == \A i \in 1..Len(r) : i + k \in 1..Len(q) /\ r[i] = q[i + k]

LEMMA PartInLine ==
    ASSUME NEW q \in Seq(Ticket), InLine(q), NEW r \in Seq(Ticket), NEW k \in Nat, IsPart(r, q, k)
    PROVE  InLine(r) /\ UrlsOf(r) \subseteq UrlsOf(q)
<1>1. ASSUME NEW i \in 1..Len(r), NEW j \in 1..Len(r), i < j PROVE GoesBefore(r[i], r[j])
  <2>1. /\ i + k \in 1..Len(q) /\ r[i] = q[i + k]
        /\ j + k \in 1..Len(q) /\ r[j] = q[j + k] /\ i + k < j + k
    BY <1>1 DEF IsPart
  <2> QED BY <2>1 DEF InLine
<1>2. \A i \in 1..Len(r) : r[i][2] \in UrlsOf(q)
  BY DEF IsPart, UrlsOf
<1> QED BY <1>1, <1>2 DEF InLine, UrlsOf

\* The rest of a batch.
LEMMA TailIs ==
    ASSUME NEW q \in Seq(Ticket), InLine(q), q # <<>>
    PROVE  /\ Head(q) \in Ticket /\ Tail(q) \in Seq(Ticket) /\ Len(Tail(q)) = Len(q) - 1 /\ Len(q) \in Nat \ {0}
           /\ InLine(Tail(q)) /\ Head(q)[2] \notin UrlsOf(Tail(q))
           /\ UrlsOf(q) = UrlsOf(Tail(q)) \cup {Head(q)[2]}
<1> PICK n \in Nat : n = Len(q)
  OBVIOUS
<1>1. n # 0
  BY EmptySeq, Zenon
<1>2. PICK r : r = Tail(q)
  OBVIOUS
<1>3. /\ r \in Seq(Ticket) /\ Len(r) = n - 1 /\ Head(q) = q[1] /\ q[1] \in Ticket
      /\ \A i \in 1..n - 1 : r[i] = q[i + 1]
  BY <1>1, <1>2, HeadTailProperties
<1>4. IsPart(r, q, 1)
  BY <1>3 DEF IsPart
<1>5. InLine(r)
  BY <1>3, <1>4, PartInLine
<1>6. UrlsOf(q) = {q[i][2] : i \in 1..n} /\ UrlsOf(r) = {r[i][2] : i \in 1..n - 1}
  BY <1>3 DEF UrlsOf
<1>7. q[1][2] \notin UrlsOf(r)
  <2> SUFFICES ASSUME NEW i \in 1..n - 1, r[i][2] = q[1][2] PROVE FALSE
    BY <1>6
  <2>1. 1 \in 1..n /\ i + 1 \in 1..n /\ 1 < i + 1 /\ r[i] = q[i + 1]
    BY <1>1, <1>3
  <2> QED BY <2>1 DEF InLine, GoesBefore
<1>8. UrlsOf(q) \subseteq UrlsOf(r) \cup {q[1][2]}
  <2> SUFFICES ASSUME NEW i \in 1..n, i # 1 PROVE q[i][2] \in UrlsOf(r)
    BY <1>6
  <2>1. PICK j \in 1..n - 1 : j + 1 = i
    <3>1. i - 1 \in 1..n - 1 /\ (i - 1) + 1 = i
      OBVIOUS
    <3> QED BY <3>1
  <2>2. r[j][2] = q[i][2]
    BY <1>3, <2>1
  <2> QED BY <1>6, <2>2
<1>9. q[1][2] \in UrlsOf(q) /\ UrlsOf(r) \subseteq UrlsOf(q)
  <2>1. 1 \in 1..n
    BY <1>1
  <2>2. UrlsOf(r) \subseteq UrlsOf(q)
    BY <1>3, <1>4, PartInLine
  <2> QED BY <1>6, <2>1, <2>2
<1> QED BY <1>1, <1>2, <1>3, <1>5, <1>7, <1>8, <1>9

\* A batch and what it leaves behind.
AreSplit(t, b, q, k) ==
    /\ t \in Seq(Ticket) /\ InLine(t) /\ Len(t) = k
    /\ b \in Seq(Ticket) /\ InLine(b)
    /\ UrlsOf(t) \cup UrlsOf(b) = UrlsOf(q) /\ UrlsOf(t) \cap UrlsOf(b) = {}
    /\ \A i \in 1..Len(t), j \in 1..Len(b) : t[i][1] <= b[j][1]

LEMMA SplitIs ==
    ASSUME NEW q \in Seq(Ticket), InLine(q), NEW k \in 0..Len(q),
           NEW t, t = SubSeq(q, 1, k), NEW b, b = SubSeq(q, k + 1, Len(q))
    PROVE  AreSplit(t, b, q, k)
<1> PICK n \in Nat : n = Len(q)
  OBVIOUS
<1>1. k \in Nat /\ k <= n
  OBVIOUS
<1>2. /\ t \in Seq(Ticket) /\ Len(t) = k /\ \A i \in 1..k : t[i] = q[i]
      /\ b \in Seq(Ticket) /\ Len(b) = n - k /\ \A i \in 1..n - k : b[i] = q[k + i]
  BY <1>1, PartsAre
<1>3. IsPart(t, q, 0)
  BY <1>1, <1>2 DEF IsPart
<1>4. IsPart(b, q, k)
  <2> SUFFICES ASSUME NEW i \in 1..n - k PROVE i + k \in 1..n /\ b[i] = q[i + k]
    BY <1>2 DEF IsPart
  <2>1. i + k \in 1..n /\ k + i = i + k
    BY <1>1
  <2> QED BY <1>2, <2>1
<1>5. InLine(t) /\ UrlsOf(t) \subseteq UrlsOf(q) /\ InLine(b) /\ UrlsOf(b) \subseteq UrlsOf(q)
  BY <1>1, <1>2, <1>3, <1>4, PartInLine
<1>6. \A i, j \in 1..n : i < j => GoesBefore(q[i], q[j])
  BY DEF InLine
<1>7. ASSUME NEW i \in 1..k, NEW j \in 1..n - k PROVE GoesBefore(t[i], b[j])
  <2>1. i \in 1..n /\ k + j \in 1..n /\ i < k + j
    BY <1>1
  <2> QED BY <1>2, <1>6, <2>1
<1>8. UrlsOf(q) = {q[i][2] : i \in 1..n} /\ UrlsOf(t) = {t[i][2] : i \in 1..k} /\ UrlsOf(b) = {b[i][2] : i \in 1..n - k}
  BY <1>2 DEF UrlsOf
<1>9. UrlsOf(q) \subseteq UrlsOf(t) \cup UrlsOf(b)
  <2> SUFFICES ASSUME NEW i \in 1..n PROVE q[i][2] \in UrlsOf(t) \cup UrlsOf(b)
    BY <1>8
  <2>1. CASE i \in 1..k
    <3>1. t[i][2] = q[i][2]
      BY <1>2, <2>1
    <3> QED BY <1>8, <2>1, <3>1
  <2>2. CASE i \notin 1..k
    <3>1. PICK j \in 1..n - k : k + j = i
      <4>1. i - k \in 1..n - k /\ k + (i - k) = i
        BY <1>1, <2>2
      <4> QED BY <4>1
    <3>2. b[j][2] = q[i][2]
      BY <1>2, <3>1
    <3> QED BY <1>8, <3>2
  <2> QED BY <2>1, <2>2
<1>10. UrlsOf(t) \cap UrlsOf(b) = {}
  <2> SUFFICES ASSUME NEW i \in 1..k, NEW j \in 1..n - k, t[i][2] = b[j][2] PROVE FALSE
    BY <1>8
  <2>1. GoesBefore(t[i], b[j])
    BY <1>7
  <2> QED BY <2>1 DEF GoesBefore
<1>11. ASSUME NEW i \in 1..k, NEW j \in 1..n - k PROVE t[i][1] <= b[j][1]
  <2>1. t[i] \in Ticket /\ b[j] \in Ticket
    <3>1. i \in 1..Len(t) /\ j \in 1..Len(b) /\ t \in Seq(Ticket) /\ b \in Seq(Ticket)
      BY <1>2
    <3> QED BY <3>1, ElementOfSeq, Zenon
  <2>2. t[i][1] \in Nat /\ b[j][1] \in Nat
    BY <2>1, TicketIs
  <2>3. GoesBefore(t[i], b[j])
    BY <1>7
  <2> QED BY <2>2, <2>3 DEF GoesBefore
<1> QED BY <1>2, <1>5, <1>9, <1>10, <1>11 DEF AreSplit

(***************************************************************************)
(* Crawler: what holds between two awaits.                                 *)
(***************************************************************************)
FoundIn(s) == {s[i][1] : i \in 1..Len(s)}
Held(r) == UrlsOf(batch[r]) \cup FoundIn(results[r])

Await == {"idle", "robots", "robots_event", "sitemaps", "limited", "fetch",
          "broken_event", "index", "done", "failed"}

CrawlTyped ==
    /\ frontier \in Seq(Ticket) /\ seen \subseteq Url /\ step \in [Crawl -> Await]
    /\ batch \in [Crawl -> Seq(Ticket)] /\ results \in [Crawl -> Seq(Finding)]
    /\ fetched \in [Url -> Nat]

\* The frontier and the batches are in line, and what is in a batch has no result yet.
LinesHold ==
    /\ InLine(frontier)
    /\ \A r \in Crawl : InLine(batch[r]) /\ UrlsOf(batch[r]) \cap FoundIn(results[r]) = {}

\* What was seen is in one place.
Accounted ==
    /\ UrlsOf(frontier) \subseteq seen /\ dropped \subseteq seen
    /\ \A r \in Crawl : Held(r) \subseteq seen /\ UrlsOf(frontier) \cap Held(r) = {}
    /\ \A u \in seen : u \in UrlsOf(frontier) \/ u \in dropped \/ \E r \in Crawl : u \in Held(r)
    /\ \A r, other \in Crawl : r # other => Held(r) \cap Held(other) = {}

\* What was fetched has a result.
FetchesReported ==
    \A u \in Url : /\ fetched[u] <= 1
                   /\ fetched[u] > 0 => \E r \in Crawl : u \in FoundIn(results[r])

\* A run has a batch while it visits urls, and nothing before that.
PhasesHold ==
    \A r \in Crawl :
        /\ step[r] \in {"idle", "robots", "robots_event", "sitemaps"} => batch[r] = <<>> /\ results[r] = <<>>
        /\ step[r] \in {"limited", "fetch"} => batch[r] # <<>>

\* Where a run that is through can have left something behind.
LeftBehind ==
    \A r \in Crawl :
        (step[r] \in {"index", "done"} /\ frontier # <<>> /\ Len(results[r]) < MaxUrls)
            => \E other \in Crawl \ {r} : step[other] \notin {"idle", "robots"}
SizesHold == \A r \in Crawl : Len(results[r]) + Len(batch[r]) < MaxUrls + Burst

CrawlInv ==
    CrawlTyped /\ LinesHold /\ Accounted /\ FetchesReported /\ PhasesHold /\ LeftBehind /\ SizesHold

\* The loop goes on with the rest of its batch, with a new one, or ends.
ContinueDone(r, q, over, done) ==
    /\ frontier' \in Seq(Ticket) /\ InLine(frontier')
    /\ batch' \in [Crawl -> Seq(Ticket)] /\ InLine(batch'[r])
    /\ step' \in [Crawl -> Await] /\ results' = [results EXCEPT ![r] = done]
    /\ \A x \in Crawl \ {r} : batch'[x] = batch[x] /\ step'[x] = step[x]
    /\ UrlsOf(frontier') \cup UrlsOf(batch'[r]) = UrlsOf(q) \cup UrlsOf(over)
    /\ UrlsOf(frontier') \cap UrlsOf(batch'[r]) = {} /\ UrlsOf(frontier') \subseteq UrlsOf(q)
    /\ \/ batch'[r] = over /\ frontier' = q
       \/ /\ Len(done) < MaxUrls /\ Len(batch'[r]) <= Burst
          /\ \A i \in 1..Len(batch'[r]), j \in 1..Len(frontier') : batch'[r][i][1] <= frontier'[j][1]
    /\ step'[r] \in {"limited", "index", "done"} /\ (step'[r] = "limited" => batch'[r] # <<>>)
    /\ step'[r] \in {"index", "done"} => frontier' = <<>> \/ ~ (Len(done) < MaxUrls)

LEMMA ContinueIs ==
    ASSUME CrawlTyped, NEW r \in Crawl, NEW q \in Seq(Ticket), InLine(q), NEW over \in Seq(Ticket), InLine(over),
           UrlsOf(q) \cap UrlsOf(over) = {}, NEW done, Continue(r, q, over, done)
    PROVE  ContinueDone(r, q, over, done)
<1>a. PICK k : k = IF Len(q) < Burst THEN Len(q) ELSE Burst
  OBVIOUS
<1>1. k \in 0..Len(q) /\ k <= Burst /\ (Len(q) # 0 => k # 0)
  BY <1>a, CrawlerAssumption
<1>b. PICK taken : taken = SubSeq(q, 1, k)
  OBVIOUS
<1>c. PICK left : left = SubSeq(q, k + 1, Len(q))
  OBVIOUS
<1>2. /\ taken \in Seq(Ticket) /\ InLine(taken) /\ Len(taken) = k
      /\ left \in Seq(Ticket) /\ InLine(left)
      /\ UrlsOf(taken) \cup UrlsOf(left) = UrlsOf(q) /\ UrlsOf(taken) \cap UrlsOf(left) = {}
      /\ \A i \in 1..Len(taken), j \in 1..Len(left) : taken[i][1] <= left[j][1]
  <2>1. AreSplit(taken, left, q, k)
    BY <1>1, <1>b, <1>c, SplitIs, Zenon
  <2> QED BY <2>1 DEF AreSplit
<1>3. left = Behind(q, Len(taken))
  BY <1>2, <1>c DEF Behind
<1>4. /\ results' = [results EXCEPT ![r] = done]
      /\ frontier' = IF over = <<>> /\ q # <<>> /\ BelowLimit(done) THEN left ELSE q
      /\ batch' = [batch EXCEPT ![r] = IF over = <<>> /\ q # <<>> /\ BelowLimit(done) THEN taken ELSE over]
      /\ step' = [step EXCEPT ![r] =
                     IF (over = <<>> /\ q # <<>> /\ BelowLimit(done)) \/ over # <<>> THEN "limited"
                     ELSE IF \E i \in DOMAIN done : done[i][2] = "ok" THEN "index" ELSE "done"]
  BY <1>a, <1>b, <1>3 DEF Continue
<1>5. /\ batch \in [Crawl -> Seq(Ticket)] /\ step \in [Crawl -> Await]
  BY DEF CrawlTyped
<1>6. \A x \in Crawl \ {r} : batch'[x] = batch[x] /\ step'[x] = step[x]
  BY <1>4, <1>5
<1>7. CASE over = <<>> /\ q # <<>> /\ BelowLimit(done)
  <2>1. frontier' = left /\ batch' = [batch EXCEPT ![r] = taken] /\ step' = [step EXCEPT ![r] = "limited"]
    BY <1>4, <1>7
  <2>2. batch'[r] = taken /\ batch' \in [Crawl -> Seq(Ticket)] /\ step'[r] = "limited" /\ step' \in [Crawl -> Await]
    BY <1>2, <1>5, <2>1 DEF Await
  <2>3. UrlsOf(over) = {}
    BY <1>7 DEF UrlsOf
  <2>4. taken # <<>>
    <3>1. Len(q) # 0
      BY <1>7, EmptySeq, Zenon
    <3>2. Len(taken) # 0
      BY <1>1, <1>2, <3>1
    <3>3. Len(<<>>) = 0
      OBVIOUS
    <3> QED BY <3>2, <3>3, Zenon
  <2>5. Len(done) < MaxUrls
    BY <1>7 DEF BelowLimit
  <2>6. Len(batch'[r]) <= Burst
    BY <1>1, <1>2, <2>2
  <2> QED BY <1>2, <1>4, <1>6, <2>1, <2>2, <2>3, <2>4, <2>5, <2>6 DEF ContinueDone
<1>8. CASE ~ (over = <<>> /\ q # <<>> /\ BelowLimit(done))
  <2>1. frontier' = q /\ batch' = [batch EXCEPT ![r] = over]
    BY <1>4, <1>8
  <2>2. PICK s \in {"limited", "index", "done"} :
           step' = [step EXCEPT ![r] = s] /\ (s = "limited" => over # <<>>) /\ (s # "limited" => over = <<>>)
    <3>1. CASE over # <<>>
      BY <1>4, <3>1
    <3>2. CASE over = <<>>
      <4>1. step' = [step EXCEPT ![r] = IF \E i \in DOMAIN done : done[i][2] = "ok" THEN "index" ELSE "done"]
        BY <1>4, <1>8, <3>2
      <4> QED BY <3>2, <4>1
    <3> QED BY <3>1, <3>2
  <2>3. batch'[r] = over /\ batch' \in [Crawl -> Seq(Ticket)] /\ step'[r] = s /\ step' \in [Crawl -> Await]
    BY <1>5, <2>1, <2>2 DEF Await
  <2>4. s # "limited" => q = <<>> \/ ~ (Len(done) < MaxUrls)
    BY <1>8, <2>2 DEF BelowLimit
  <2> QED BY <1>4, <1>6, <2>1, <2>2, <2>3, <2>4 DEF ContinueDone
<1> QED BY <1>7, <1>8

\* What a run found stays in one place, whatever place that is.
LEMMA AccountStep ==
    ASSUME Accounted, NEW r \in Crawl, NEW fresh, fresh \cap seen = {}, seen' = seen \cup fresh,
           \A x \in Crawl \ {r} : Held(x)' = Held(x),
           UrlsOf(frontier)' \subseteq UrlsOf(frontier) \cup fresh,
           dropped \subseteq dropped', dropped' \subseteq dropped \cup Held(r),
           Held(r)' \subseteq Held(r) \cup UrlsOf(frontier) \cup fresh,
           UrlsOf(frontier) \cup fresh \cup Held(r) \subseteq UrlsOf(frontier)' \cup Held(r)' \cup dropped',
           UrlsOf(frontier)' \cap Held(r)' = {}
    PROVE  Accounted'
<1>1. /\ UrlsOf(frontier) \subseteq seen /\ dropped \subseteq seen
      /\ \A x \in Crawl : Held(x) \subseteq seen /\ UrlsOf(frontier) \cap Held(x) = {}
      /\ \A u \in seen : u \in UrlsOf(frontier) \/ u \in dropped \/ \E x \in Crawl : u \in Held(x)
      /\ \A x, other \in Crawl : x # other => Held(x) \cap Held(other) = {}
  BY DEF Accounted
<1>2. UrlsOf(frontier)' \subseteq seen' /\ dropped' \subseteq seen'
  BY <1>1
<1>3. ASSUME NEW x \in Crawl PROVE Held(x)' \subseteq seen' /\ UrlsOf(frontier)' \cap Held(x)' = {}
  <2>1. CASE x = r
    BY <1>1, <2>1
  <2>2. CASE x # r
    BY <1>1, <2>2
  <2> QED BY <2>1, <2>2
<1>4. ASSUME NEW u \in seen' PROVE u \in UrlsOf(frontier)' \/ u \in dropped' \/ \E x \in Crawl : u \in Held(x)'
  <2>1. CASE u \in UrlsOf(frontier) \cup fresh \cup Held(r)
    BY <2>1
  <2>2. CASE u \notin UrlsOf(frontier) \cup fresh \cup Held(r)
    <3>1. u \in dropped \/ \E x \in Crawl \ {r} : u \in Held(x)
      BY <1>1, <2>2
    <3> QED BY <3>1
  <2> QED BY <2>1, <2>2
<1>5. ASSUME NEW x \in Crawl, NEW other \in Crawl, x # other PROVE Held(x)' \cap Held(other)' = {}
  <2>1. \A y \in Crawl \ {r} : Held(y)' \cap Held(r)' = {}
    BY <1>1
  <2>2. CASE x = r
    BY <1>5, <2>1, <2>2
  <2>3. CASE other = r
    BY <1>5, <2>1, <2>3
  <2>4. CASE x # r /\ other # r
    BY <1>1, <1>5, <2>4
  <2> QED BY <2>2, <2>3, <2>4
<1> QED BY <1>2, <1>3, <1>4, <1>5, Zenon DEF Accounted

\* One more result.
LEMMA FindingMade ==
    ASSUME NEW s \in Seq(Finding), NEW u \in Url, NEW o \in Outcome
    PROVE  /\ Append(s, <<u, o>>) \in Seq(Finding) /\ Len(Append(s, <<u, o>>)) = Len(s) + 1
           /\ FoundIn(Append(s, <<u, o>>)) = FoundIn(s) \cup {u}
<1>1. PICK c \in Nat : c = Len(s)
  OBVIOUS
<1>2. <<u, o>> \in Finding /\ <<u, o>>[1] = u
  BY DEF Finding
<1>3. PICK t : t = Append(s, <<u, o>>)
  OBVIOUS
<1>4. t \in Seq(Finding) /\ Len(t) = c + 1 /\ t[c + 1] = <<u, o>> /\ \A i \in 1..c : t[i] = s[i]
  BY <1>1, <1>2, <1>3, AppendProperties
<1>5. FoundIn(t) = {t[i][1] : i \in 1..c + 1} /\ FoundIn(s) = {s[i][1] : i \in 1..c}
  BY <1>1, <1>4 DEF FoundIn
<1>6. FoundIn(t) = FoundIn(s) \cup {u}
  <2>1. t[c + 1][1] = u /\ c + 1 \in 1..c + 1
    BY <1>2, <1>4
  <2>2. \A i \in 1..c : i \in 1..c + 1 /\ t[i][1] = s[i][1]
    BY <1>4
  <2>3. \A i \in 1..c + 1 : i = c + 1 \/ i \in 1..c
    OBVIOUS
  <2> QED BY <1>5, <2>1, <2>2, <2>3
<1> QED BY <1>1, <1>3, <1>4, <1>6

\* A run goes on where its await ends.
LEMMA ContinueStep ==
    ASSUME CrawlInv, NEW r \in Crawl, NEW q \in Seq(Ticket), InLine(q), NEW over \in Seq(Ticket), InLine(over),
           NEW done \in Seq(Finding), NEW fresh \in SUBSET Url, fresh \cap seen = {},
           UrlsOf(q) = UrlsOf(frontier) \cup fresh,
           UrlsOf(over) \cup FoundIn(done) = Held(r), UrlsOf(over) \cap FoundIn(done) = {},
           Len(over) + Len(done) = Len(batch[r]) + Len(results[r]),
           step[r] \notin {"idle", "robots"}, FoundIn(results[r]) \subseteq FoundIn(done),
           Continue(r, q, over, done), seen' = seen \cup fresh, dropped' = dropped,
           fetched' \in [Url -> Nat],
           \A u \in Url : \/ fetched'[u] = fetched[u]
                          \/ /\ fetched'[u] = fetched[u] + 1 /\ u \in FoundIn(done)
                             /\ \A x \in Crawl : u \notin FoundIn(results[x])
    PROVE  CrawlInv' /\ ContinueDone(r, q, over, done)
<1>1. CrawlTyped /\ LinesHold /\ Accounted /\ FetchesReported /\ PhasesHold /\ LeftBehind /\ SizesHold
  BY DEF CrawlInv
<1>2. UrlsOf(frontier) \subseteq seen /\ Held(r) \subseteq seen /\ UrlsOf(frontier) \cap Held(r) = {}
  BY <1>1 DEF Accounted
<1>3. UrlsOf(q) \cap Held(r) = {}
  BY <1>2
<1>4. ContinueDone(r, q, over, done)
  <2>1. UrlsOf(q) \cap UrlsOf(over) = {}
    BY <1>3
  <2> QED BY <1>1, <2>1, ContinueIs
<1>5. /\ frontier' \in Seq(Ticket) /\ InLine(frontier')
      /\ batch' \in [Crawl -> Seq(Ticket)] /\ InLine(batch'[r])
      /\ step' \in [Crawl -> Await] /\ results' = [results EXCEPT ![r] = done]
      /\ \A x \in Crawl \ {r} : batch'[x] = batch[x] /\ step'[x] = step[x]
  BY <1>4 DEF ContinueDone
<1>6. /\ UrlsOf(frontier') \cup UrlsOf(batch'[r]) = UrlsOf(q) \cup UrlsOf(over)
      /\ UrlsOf(frontier') \cap UrlsOf(batch'[r]) = {} /\ UrlsOf(frontier') \subseteq UrlsOf(q)
  BY <1>4 DEF ContinueDone
<1>7. /\ \/ batch'[r] = over /\ frontier' = q
         \/ Len(done) < MaxUrls /\ Len(batch'[r]) <= Burst
      /\ step'[r] \in {"limited", "index", "done"} /\ (step'[r] = "limited" => batch'[r] # <<>>)
      /\ step'[r] \in {"index", "done"} => frontier' = <<>> \/ ~ (Len(done) < MaxUrls)
  BY <1>4 DEF ContinueDone
<1>8. /\ results' \in [Crawl -> Seq(Finding)] /\ results'[r] = done
      /\ \A x \in Crawl \ {r} : results'[x] = results[x]
  BY <1>1, <1>5 DEF CrawlTyped
<1>9. CrawlTyped'
  BY <1>1, <1>5, <1>8 DEF CrawlTyped
<1>10. Held(r)' = UrlsOf(batch'[r]) \cup FoundIn(done)
  BY <1>8 DEF Held
<1>11. \A x \in Crawl \ {r} : Held(x)' = Held(x)
  BY <1>5, <1>8 DEF Held
<1>12. UrlsOf(frontier)' = UrlsOf(frontier')
  BY DEF UrlsOf
<1>13. Accounted'
  <2>1. Held(r)' \subseteq Held(r) \cup UrlsOf(frontier) \cup fresh
    BY <1>6, <1>10
  <2>2. UrlsOf(frontier) \cup fresh \cup Held(r) \subseteq UrlsOf(frontier') \cup Held(r)' \cup dropped'
    BY <1>6, <1>10
  <2>3. UrlsOf(frontier') \cap Held(r)' = {}
    BY <1>3, <1>6, <1>10
  <2>4. UrlsOf(frontier') \subseteq UrlsOf(frontier) \cup fresh
    BY <1>6
  <2> QED BY <1>1, <1>11, <1>12, <2>1, <2>2, <2>3, <2>4, AccountStep
<1>14. LinesHold'
  <2>1. UrlsOf(batch'[r]) \cap FoundIn(done) = {}
    <3>1. FoundIn(done) \subseteq Held(r)
      OBVIOUS
    <3> QED BY <1>3, <1>6, <3>1
  <2> QED BY <1>1, <1>5, <1>8, <2>1 DEF LinesHold
<1>15. FetchesReported'
  <2> SUFFICES ASSUME NEW u \in Url
               PROVE  fetched'[u] <= 1 /\ (fetched'[u] > 0 => \E x \in Crawl : u \in FoundIn(results'[x]))
    BY DEF FetchesReported
  <2>1. fetched[u] \in Nat /\ fetched[u] <= 1 /\ (fetched[u] > 0 => \E x \in Crawl : u \in FoundIn(results[x]))
    BY <1>1 DEF FetchesReported, CrawlTyped
  <2>2. \A x \in Crawl : u \in FoundIn(results[x]) => u \in FoundIn(results'[x])
    BY <1>8
  <2>3. CASE fetched'[u] = fetched[u]
    BY <2>1, <2>2, <2>3
  <2>4. CASE fetched'[u] = fetched[u] + 1 /\ u \in FoundIn(done) /\ \A x \in Crawl : u \notin FoundIn(results[x])
    <3>1. fetched[u] = 0
      BY <2>1, <2>4
    <3> QED BY <1>8, <2>4, <3>1
  <2> QED BY <2>3, <2>4
<1>16. PhasesHold'
  <2> SUFFICES ASSUME NEW x \in Crawl
               PROVE  /\ step'[x] \in {"idle", "robots", "robots_event", "sitemaps"}
                            => batch'[x] = <<>> /\ results'[x] = <<>>
                      /\ step'[x] \in {"limited", "fetch"} => batch'[x] # <<>>
    BY DEF PhasesHold
  <2>1. CASE x = r
    BY <1>7, <2>1
  <2>2. CASE x # r
    BY <1>1, <1>5, <1>8, <2>2 DEF PhasesHold
  <2> QED BY <2>1, <2>2
<1>17. LeftBehind'
  <2> SUFFICES ASSUME NEW x \in Crawl, step'[x] \in {"index", "done"}, frontier' # <<>>, Len(results'[x]) < MaxUrls
               PROVE  \E other \in Crawl \ {x} : step'[other] \notin {"idle", "robots"}
    BY DEF LeftBehind
  <2>1. x # r
    BY <1>7, <1>8
  <2>2. step'[r] \notin {"idle", "robots"}
    BY <1>7
  <2> QED BY <2>1, <2>2
<1>18. SizesHold'
  <2> SUFFICES ASSUME NEW x \in Crawl PROVE Len(results'[x]) + Len(batch'[x]) < MaxUrls + Burst
    BY DEF SizesHold
  <2>1. CASE x = r
    <3>1. PICK c \in Nat : c = Len(done)
      OBVIOUS
    <3>2. PICK b \in Nat : b = Len(batch'[r])
      BY <1>5
    <3>3. CASE batch'[r] = over
      <4>1. Len(batch[r]) + Len(results[r]) < MaxUrls + Burst
        <5>1. Len(results[r]) + Len(batch[r]) < MaxUrls + Burst /\ Len(results[r]) \in Nat /\ Len(batch[r]) \in Nat
          BY <1>1 DEF SizesHold, CrawlTyped
        <5>2. PICK m \in Nat : m = Len(results[r])
          BY <5>1
        <5>3. PICK l \in Nat : l = Len(batch[r])
          BY <5>1
        <5>4. m + l < MaxUrls + Burst
          BY <5>1, <5>2, <5>3
        <5>5. l + m < MaxUrls + Burst
          BY <5>4
        <5> QED BY <5>2, <5>3, <5>5
      <4>2. b + c < MaxUrls + Burst
        BY <3>1, <3>2, <3>3, <4>1
      <4> QED BY <1>8, <2>1, <3>1, <3>2, <4>2
    <3>4. CASE c < MaxUrls /\ b <= Burst
      BY <1>8, <2>1, <3>1, <3>2, <3>4, CrawlerAssumption
    <3> QED BY <1>7, <3>1, <3>2, <3>3, <3>4
  <2>2. CASE x # r
    BY <1>1, <1>5, <1>8, <2>2 DEF SizesHold
  <2> QED BY <2>1, <2>2
<1> QED BY <1>4, <1>9, <1>13, <1>14, <1>15, <1>16, <1>17, <1>18 DEF CrawlInv

\* A run goes on without touching anything that is shared.
LEMMA SilentStep ==
    ASSUME CrawlInv, NEW r \in Crawl, UNCHANGED <<frontier, seen, batch, results, fetched, dropped>>,
           NEW s \in Await, step' = [step EXCEPT ![r] = s],
           s \in {"idle", "robots", "robots_event", "sitemaps"} => batch[r] = <<>> /\ results[r] = <<>>,
           s \in {"limited", "fetch"} => batch[r] # <<>>,
           s \in {"index", "done"} => step[r] \in {"index", "done"},
           s \in {"idle", "robots"} => step[r] = "idle"
    PROVE  CrawlInv'
<1>1. CrawlTyped /\ LinesHold /\ Accounted /\ FetchesReported /\ PhasesHold /\ LeftBehind /\ SizesHold
  BY DEF CrawlInv
<1>2. /\ step \in [Crawl -> Await] /\ step' \in [Crawl -> Await] /\ step'[r] = s
      /\ \A x \in Crawl \ {r} : step'[x] = step[x]
  BY <1>1 DEF CrawlTyped
<1>3. /\ frontier' = frontier /\ seen' = seen /\ batch' = batch /\ results' = results
      /\ fetched' = fetched /\ dropped' = dropped
  OBVIOUS
<1>4. CrawlTyped'
  BY <1>1, <1>2, <1>3 DEF CrawlTyped
<1>5. LinesHold' /\ Accounted' /\ FetchesReported' /\ SizesHold'
  BY <1>1, <1>3, Zenon DEF LinesHold, Accounted, FetchesReported, SizesHold, Held
<1>6. PhasesHold'
  <2> SUFFICES ASSUME NEW x \in Crawl
               PROVE  /\ step'[x] \in {"idle", "robots", "robots_event", "sitemaps"}
                            => batch[x] = <<>> /\ results[x] = <<>>
                      /\ step'[x] \in {"limited", "fetch"} => batch[x] # <<>>
    BY <1>3 DEF PhasesHold
  <2>1. CASE x = r
    BY <1>2, <2>1
  <2>2. CASE x # r
    BY <1>1, <1>2, <2>2 DEF PhasesHold
  <2> QED BY <2>1, <2>2
<1>7. LeftBehind'
  <2> SUFFICES ASSUME NEW x \in Crawl, step'[x] \in {"index", "done"}, frontier # <<>>, Len(results[x]) < MaxUrls
               PROVE  \E other \in Crawl \ {x} : step'[other] \notin {"idle", "robots"}
    BY <1>3 DEF LeftBehind
  <2>1. step[x] \in {"index", "done"}
    BY <1>2
  <2>2. PICK other \in Crawl \ {x} : step[other] \notin {"idle", "robots"}
    BY <1>1, <2>1 DEF LeftBehind
  <2>3. step'[other] \notin {"idle", "robots"}
    BY <1>2, <2>2
  <2> QED BY <2>3
<1> QED BY <1>4, <1>5, <1>6, <1>7 DEF CrawlInv

LEMMA SitemapsStep ==
    ASSUME CrawlInv, NEW r \in Crawl, SitemapsFetched(r)
    PROVE  CrawlInv' /\ \E q, done : ContinueDone(r, q, <<>>, done)
<1>1. CrawlTyped /\ LinesHold /\ Accounted /\ PhasesHold
  BY DEF CrawlInv
<1>2. PICK listed \in {Site, {}} :
         LET asked == IF mode[r] = "full" THEN listed ELSE Changed
             fresh == asked \ seen
             q == Added(frontier, fresh, IF mode[r] = "full" THEN 2 ELSE 1, 0)
         IN  /\ seen' = seen \cup asked \cup {Home}
             /\ Continue(r, Added(q, {Home} \ (seen \cup asked), 0, 0), <<>>, <<>>)
  BY DEF SitemapsFetched
<1>3. PICK asked \in SUBSET Url : asked = IF mode[r] = "full" THEN listed ELSE Changed
  BY CrawlerAssumption
<1>4. PICK p \in Nat : p = IF mode[r] = "full" THEN 2 ELSE 1
  OBVIOUS
<1>5. 0 <= MaxDepth /\ 0 \in Nat /\ Home \in Url
  BY CrawlerAssumption
<1>6. frontier \in Seq(Ticket) /\ InLine(frontier) /\ UrlsOf(frontier) \subseteq seen
  BY <1>1 DEF CrawlTyped, LinesHold, Accounted
<1>7. PICK q : q = Added(frontier, asked \ seen, p, 0)
  OBVIOUS
<1>8. q \in Seq(Ticket) /\ InLine(q) /\ UrlsOf(q) = UrlsOf(frontier) \cup (asked \ seen)
  <2>1. asked \ seen \in SUBSET Url /\ UrlsOf(frontier) \cap (asked \ seen) = {}
    BY <1>6
  <2> QED BY <1>5, <1>6, <1>7, <2>1, AddedIs
<1>h. PICK home \in SUBSET Url : home = {Home} \ (seen \cup asked)
  BY <1>5
<1>9. PICK all : all = Added(q, home, 0, 0)
  OBVIOUS
<1>10. all \in Seq(Ticket) /\ InLine(all) /\ UrlsOf(all) = UrlsOf(q) \cup home
  <2>1. UrlsOf(q) \cap home = {}
    BY <1>h, <1>6, <1>8
  <2> QED BY <1>5, <1>8, <1>9, <2>1, AddedIs
<1>11. seen' = seen \cup asked \cup {Home} /\ Continue(r, all, <<>>, <<>>)
  BY <1>2, <1>3, <1>4, <1>7, <1>9, <1>h
<1>12. PICK fresh \in SUBSET Url : fresh = (asked \cup {Home}) \ seen
  BY <1>5
<1>13. /\ fresh \cap seen = {} /\ UrlsOf(all) = UrlsOf(frontier) \cup fresh /\ seen' = seen \cup fresh
  BY <1>h, <1>8, <1>10, <1>11, <1>12
<1>14. step[r] = "sitemaps" /\ UNCHANGED <<dropped, fetched>>
  BY DEF SitemapsFetched
<1>15. batch[r] = <<>> /\ results[r] = <<>>
  BY <1>1, <1>14 DEF PhasesHold
<1>16. /\ <<>> \in Seq(Ticket) /\ <<>> \in Seq(Finding) /\ InLine(<<>>) /\ UrlsOf(<<>>) = {} /\ FoundIn(<<>>) = {}
  BY DEF InLine, UrlsOf, FoundIn
<1>17. /\ UrlsOf(<<>>) \cup FoundIn(<<>>) = Held(r) /\ UrlsOf(<<>>) \cap FoundIn(<<>>) = {}
       /\ Len(<<>>) + Len(<<>>) = Len(batch[r]) + Len(results[r])
       /\ FoundIn(results[r]) \subseteq FoundIn(<<>>)
  BY <1>15, <1>16 DEF Held
<1>18. /\ fetched' \in [Url -> Nat] /\ \A u \in Url : fetched'[u] = fetched[u]
       /\ dropped' = dropped /\ step[r] \notin {"idle", "robots"}
  BY <1>1, <1>14 DEF CrawlTyped
<1>19. CrawlInv' /\ ContinueDone(r, all, <<>>, <<>>)
  BY <1>10, <1>11, <1>13, <1>16, <1>17, <1>18, ContinueStep
<1> QED BY <1>19

\* What the run does with the first url of its batch.
FirstDone(r, u, over, done) ==
    /\ u \in Url /\ done \in Seq(Finding) /\ over \in Seq(Ticket) /\ InLine(over)
    /\ UrlsOf(over) \cup FoundIn(done) = Held(r) /\ UrlsOf(over) \cap FoundIn(done) = {}
    /\ Len(over) + Len(done) = Len(batch[r]) + Len(results[r])
    /\ FoundIn(results[r]) \subseteq FoundIn(done) /\ u \in FoundIn(done)
    /\ \A x \in Crawl : u \notin FoundIn(results[x])
    /\ batch[r] # <<>> /\ Head(batch[r]) \in Ticket

LEMMA FirstIs ==
    ASSUME CrawlInv, NEW r \in Crawl, step[r] \in {"limited", "fetch"}, NEW o \in Outcome,
           NEW u, u = Head(batch[r])[2], NEW done, done = Append(results[r], <<u, o>>),
           NEW over, over = Tail(batch[r])
    PROVE  FirstDone(r, u, over, done)
<1>1. CrawlTyped /\ LinesHold /\ Accounted /\ PhasesHold
  BY DEF CrawlInv
<1>2. batch[r] \in Seq(Ticket) /\ InLine(batch[r]) /\ batch[r] # <<>> /\ results[r] \in Seq(Finding)
  BY <1>1 DEF CrawlTyped, LinesHold, PhasesHold
<1>3. /\ Head(batch[r]) \in Ticket /\ over \in Seq(Ticket) /\ Len(over) = Len(batch[r]) - 1 /\ Len(batch[r]) \in Nat \ {0}
      /\ InLine(over) /\ u \notin UrlsOf(over)
      /\ UrlsOf(batch[r]) = UrlsOf(over) \cup {u}
  BY <1>2, TailIs
<1>4. u \in Url
  BY <1>3, TicketIs
<1>5. done \in Seq(Finding) /\ Len(done) = Len(results[r]) + 1 /\ FoundIn(done) = FoundIn(results[r]) \cup {u}
  BY <1>2, <1>4, FindingMade
<1>6. UrlsOf(batch[r]) \cap FoundIn(results[r]) = {}
  BY <1>1 DEF LinesHold
<1>7. Len(over) + Len(done) = Len(batch[r]) + Len(results[r])
  <2>1. PICK b \in Nat \ {0} : b = Len(batch[r])
    BY <1>3
  <2>2. PICK c \in Nat : c = Len(results[r])
    BY <1>2
  <2>3. (b - 1) + (c + 1) = b + c
    OBVIOUS
  <2> QED BY <1>3, <1>5, <2>1, <2>2, <2>3
<1>8. ASSUME NEW x \in Crawl PROVE u \notin FoundIn(results[x])
  <2>1. CASE x = r
    BY <1>3, <1>6, <2>1
  <2>2. CASE x # r
    <3>1. Held(x) \cap Held(r) = {}
      BY <1>1, <2>2 DEF Accounted
    <3> QED BY <1>3, <3>1 DEF Held
  <2> QED BY <2>1, <2>2
<1>9. UrlsOf(over) \cup FoundIn(done) = Held(r) /\ UrlsOf(over) \cap FoundIn(done) = {}
  BY <1>3, <1>5, <1>6 DEF Held
<1>10. UrlsOf(over) \cup FoundIn(done) = Held(r) /\ FoundIn(results[r]) \subseteq FoundIn(done) /\ u \in FoundIn(done)
  BY <1>5, <1>9
<1> QED BY <1>2, <1>3, <1>4, <1>5, <1>7, <1>8, <1>9, <1>10 DEF FirstDone

\* Only the loop takes a batch.
TakesBest ==
    \A x \in Crawl : Takes(x) =>
        \A i \in DOMAIN batch'[x], j \in DOMAIN frontier' : batch'[x][i][1] <= frontier'[j][1]

LEMMA NothingTaken ==
    ASSUME NEW r \in Crawl, \A x \in Crawl \ {r} : batch'[x] = batch[x],
           batch'[r] \in {<<>>, batch[r]} \/ (batch[r] # <<>> /\ batch'[r] = Tail(batch[r]))
    PROVE  TakesBest
<1>1. ASSUME NEW x \in Crawl PROVE ~ Takes(x)
  <2>1. CASE x = r
    BY <2>1 DEF Takes
  <2>2. CASE x # r
    BY <2>2 DEF Takes
  <2> QED BY <2>1, <2>2
<1> QED BY <1>1 DEF TakesBest

LEMMA LoopTakes ==
    ASSUME NEW r \in Crawl, NEW q, NEW over, NEW done, ContinueDone(r, q, over, done),
           over \in {<<>>, batch[r]} \/ (batch[r] # <<>> /\ over = Tail(batch[r]))
    PROVE  TakesBest
<1>1. /\ frontier' \in Seq(Ticket) /\ batch' \in [Crawl -> Seq(Ticket)]
      /\ \A x \in Crawl \ {r} : batch'[x] = batch[x]
  BY DEF ContinueDone
<1>2. CASE batch'[r] = over
  BY <1>1, <1>2, NothingTaken
<1>3. CASE \A i \in 1..Len(batch'[r]), j \in 1..Len(frontier') : batch'[r][i][1] <= frontier'[j][1]
  <2>1. ASSUME NEW x \in Crawl, Takes(x), NEW i \in DOMAIN batch'[x], NEW j \in DOMAIN frontier'
        PROVE  batch'[x][i][1] <= frontier'[j][1]
    <3>1. x = r
      BY <1>1, <2>1 DEF Takes
    <3>2. DOMAIN batch'[r] = 1..Len(batch'[r]) /\ DOMAIN frontier' = 1..Len(frontier')
      BY <1>1
    <3> QED BY <1>3, <2>1, <3>1, <3>2
  <2> QED BY <2>1 DEF TakesBest
<1>4. \/ batch'[r] = over
      \/ \A i \in 1..Len(batch'[r]), j \in 1..Len(frontier') : batch'[r][i][1] <= frontier'[j][1]
  BY DEF ContinueDone
<1> QED BY <1>2, <1>3, <1>4

LEMMA SitemapsTake ==
    ASSUME CrawlInv, NEW r \in Crawl, SitemapsFetched(r)
    PROVE  TakesBest
<1>1. PICK q, done : ContinueDone(r, q, <<>>, done)
  BY SitemapsStep
<1> QED BY <1>1, LoopTakes

LEMMA VisitStep ==
    ASSUME CrawlInv, NEW r \in Crawl, Visit(r)
    PROVE  CrawlInv' /\ TakesBest
<1>1. /\ step[r] = "limited" /\ seen' = seen /\ fetched' = fetched /\ dropped' = dropped
  BY DEF Visit
<1>2. CrawlTyped /\ LinesHold /\ Accounted
  BY DEF CrawlInv
<1>a. PICK u : u = Head(batch[r])[2]
  OBVIOUS
<1>b. PICK over : over = Tail(batch[r])
  OBVIOUS
<1>c. PICK done : done = Append(results[r], <<u, "blocked">>)
  OBVIOUS
<1>3. /\ u \in Url /\ done \in Seq(Finding) /\ over \in Seq(Ticket) /\ InLine(over)
      /\ UrlsOf(over) \cup FoundIn(done) = Held(r) /\ UrlsOf(over) \cap FoundIn(done) = {}
      /\ Len(over) + Len(done) = Len(batch[r]) + Len(results[r])
      /\ FoundIn(results[r]) \subseteq FoundIn(done) /\ batch[r] # <<>>
  <2>1. "blocked" \in Outcome /\ step[r] \in {"limited", "fetch"}
    BY <1>1 DEF Outcome
  <2>2. FirstDone(r, u, over, done)
    BY <1>a, <1>b, <1>c, <2>1, FirstIs, Zenon
  <2> QED BY <2>2 DEF FirstDone
<1>4. CASE u \in UNION robots
  <2>1. Continue(r, frontier, over, done)
    BY <1>4, <1>a, <1>b, <1>c DEF Visit
  <2>2. PICK fresh \in SUBSET Url : fresh = {}
    OBVIOUS
  <2>3. /\ frontier \in Seq(Ticket) /\ InLine(frontier) /\ fetched' \in [Url -> Nat]
        /\ fresh \cap seen = {} /\ UrlsOf(frontier) = UrlsOf(frontier) \cup fresh /\ seen' = seen \cup fresh
        /\ step[r] \notin {"idle", "robots"} /\ \A x \in Url : fetched'[x] = fetched[x]
    BY <1>1, <1>2, <2>2 DEF CrawlTyped, LinesHold
  <2>4. CrawlInv' /\ ContinueDone(r, frontier, over, done)
    BY <1>1, <1>3, <2>1, <2>3, ContinueStep
  <2> QED BY <1>3, <1>b, <2>4, LoopTakes
<1>5. CASE u \notin UNION robots
  <2>1. step' = [step EXCEPT ![r] = "fetch"] /\ UNCHANGED <<frontier, batch, results>>
    BY <1>5, <1>a DEF Visit
  <2>2. CrawlInv'
    <3>1. "fetch" \in Await
      BY DEF Await
    <3> QED BY <1>1, <1>3, <2>1, <3>1, SilentStep
  <2> QED BY <2>1, <2>2, NothingTaken
<1> QED BY <1>4, <1>5

\* The publication of a broken page comes between two urls.
LEMMA BrokenStep ==
    ASSUME CrawlInv, NEW r \in Crawl, step[r] = "fetch", NEW u, u = Head(batch[r])[2],
           NEW done, done = Append(results[r], <<u, "broken">>),
           fetched' = [fetched EXCEPT ![u] = @ + 1], seen' = seen, dropped' = dropped, frontier' = frontier,
           step' = [step EXCEPT ![r] = "broken_event"], results' = [results EXCEPT ![r] = done],
           batch' = [batch EXCEPT ![r] = Tail(@)]
    PROVE  CrawlInv' /\ TakesBest
<1>1. CrawlTyped /\ LinesHold /\ Accounted /\ FetchesReported /\ PhasesHold /\ LeftBehind /\ SizesHold
  BY DEF CrawlInv
<1>2. PICK over : over = Tail(batch[r])
  OBVIOUS
<1>3. /\ u \in Url /\ done \in Seq(Finding) /\ over \in Seq(Ticket) /\ InLine(over)
      /\ UrlsOf(over) \cup FoundIn(done) = Held(r) /\ UrlsOf(over) \cap FoundIn(done) = {}
      /\ Len(over) + Len(done) = Len(batch[r]) + Len(results[r])
      /\ FoundIn(results[r]) \subseteq FoundIn(done) /\ u \in FoundIn(done)
      /\ (\A x \in Crawl : u \notin FoundIn(results[x])) /\ batch[r] # <<>>
  <2>1. "broken" \in Outcome /\ step[r] \in {"limited", "fetch"}
    BY DEF Outcome
  <2>2. FirstDone(r, u, over, done)
    BY <1>2, <2>1, FirstIs, Zenon
  <2> QED BY <2>2 DEF FirstDone
<1>4. /\ step' \in [Crawl -> Await] /\ step'[r] = "broken_event"
      /\ results' \in [Crawl -> Seq(Finding)] /\ results'[r] = done
      /\ batch' \in [Crawl -> Seq(Ticket)] /\ batch'[r] = over
      /\ \A x \in Crawl \ {r} : step'[x] = step[x] /\ results'[x] = results[x] /\ batch'[x] = batch[x]
  BY <1>1, <1>2, <1>3 DEF CrawlTyped, Await
<1>5. fetched' \in [Url -> Nat] /\ fetched'[u] = fetched[u] + 1 /\ \A x \in Url \ {u} : fetched'[x] = fetched[x]
  BY <1>1, <1>3 DEF CrawlTyped
<1>6. CrawlTyped'
  BY <1>1, <1>4, <1>5 DEF CrawlTyped
<1>7. LinesHold'
  BY <1>1, <1>3, <1>4 DEF LinesHold
<1>8. Accounted'
  <2>1. Held(r)' = Held(r) /\ \A x \in Crawl \ {r} : Held(x)' = Held(x)
    BY <1>3, <1>4 DEF Held
  <2>2. \A x \in Crawl : Held(x)' = Held(x)
    BY <2>1
  <2>3. UrlsOf(frontier)' = UrlsOf(frontier)
    BY DEF UrlsOf
  <2> QED BY <1>1, <2>2, <2>3 DEF Accounted
<1>9. FetchesReported'
  <2> SUFFICES ASSUME NEW x \in Url
               PROVE  fetched'[x] <= 1 /\ (fetched'[x] > 0 => \E y \in Crawl : x \in FoundIn(results'[y]))
    BY DEF FetchesReported
  <2>1. fetched[x] \in Nat /\ fetched[x] <= 1 /\ (fetched[x] > 0 => \E y \in Crawl : x \in FoundIn(results[y]))
    BY <1>1 DEF FetchesReported, CrawlTyped
  <2>2. \A y \in Crawl : x \in FoundIn(results[y]) => x \in FoundIn(results'[y])
    BY <1>3, <1>4
  <2>3. CASE x # u
    BY <1>5, <2>1, <2>2, <2>3
  <2>4. CASE x = u
    <3>1. \A y \in Crawl : x \notin FoundIn(results[y])
      BY <1>3, <2>4
    <3>2. ~ (fetched[x] > 0)
      BY <2>1, <3>1
    <3>3. fetched[x] = 0
      BY <2>1, <3>2
    <3>4. fetched'[x] = 1
      BY <1>5, <2>4, <3>3
    <3>5. x \in FoundIn(results'[r])
      BY <1>3, <1>4, <2>4
    <3> QED BY <3>4, <3>5
  <2> QED BY <2>3, <2>4
<1>10. PhasesHold'
  <2> SUFFICES ASSUME NEW x \in Crawl
               PROVE  /\ step'[x] \in {"idle", "robots", "robots_event", "sitemaps"}
                            => batch'[x] = <<>> /\ results'[x] = <<>>
                      /\ step'[x] \in {"limited", "fetch"} => batch'[x] # <<>>
    BY DEF PhasesHold
  <2>1. CASE x = r
    BY <1>4, <2>1
  <2>2. CASE x # r
    BY <1>1, <1>4, <2>2 DEF PhasesHold
  <2> QED BY <2>1, <2>2
<1>11. LeftBehind'
  <2> SUFFICES ASSUME NEW x \in Crawl, step'[x] \in {"index", "done"}
               PROVE  \E other \in Crawl \ {x} : step'[other] \notin {"idle", "robots"}
    BY DEF LeftBehind
  <2>1. x # r /\ step'[r] \notin {"idle", "robots"}
    BY <1>4
  <2> QED BY <2>1
<1>12. SizesHold'
  <2> SUFFICES ASSUME NEW x \in Crawl PROVE Len(results'[x]) + Len(batch'[x]) < MaxUrls + Burst
    BY DEF SizesHold
  <2>1. CASE x = r
    <3>1. PICK b \in Nat : b = Len(batch[r])
      BY <1>1 DEF CrawlTyped
    <3>2. PICK c \in Nat : c = Len(results[r])
      BY <1>1 DEF CrawlTyped
    <3>3. PICK l \in Nat : l = Len(over)
      BY <1>3
    <3>4. PICK m \in Nat : m = Len(done)
      BY <1>3
    <3>5. l + m = b + c
      BY <1>3, <3>1, <3>2, <3>3, <3>4
    <3>6. c + b < MaxUrls + Burst
      BY <1>1, <3>1, <3>2 DEF SizesHold
    <3>7. m + l < MaxUrls + Burst
      <4>1. m + l = c + b
        BY <3>5
      <4> QED BY <3>6, <4>1
    <3> QED BY <1>4, <2>1, <3>3, <3>4, <3>7
  <2>2. CASE x # r
    BY <1>1, <1>4, <2>2 DEF SizesHold
  <2> QED BY <2>1, <2>2
<1>13. TakesBest
  BY <1>2, <1>3, <1>4, NothingTaken
<1> QED BY <1>6, <1>7, <1>8, <1>9, <1>10, <1>11, <1>12, <1>13 DEF CrawlInv

LEMMA FetchedStep ==
    ASSUME CrawlInv, NEW r \in Crawl, Fetched(r)
    PROVE  CrawlInv' /\ TakesBest
<1>1. CrawlTyped /\ LinesHold /\ Accounted
  BY DEF CrawlInv
<1>2. step[r] = "fetch" /\ dropped' = dropped
  BY DEF Fetched
<1>a. PICK u : u = Head(batch[r])[2]
  OBVIOUS
<1>b. PICK depth : depth = Head(batch[r])[3]
  OBVIOUS
<1>3. PICK outcome \in Outcome \ {"blocked"} :
         LET links == IF outcome \in {"ok", "moved"} /\ ~DeepEnough(depth) THEN Links[u] \ seen ELSE {}
             done == Append(results[r], <<u, outcome>>)
         IN  /\ fetched' = [fetched EXCEPT ![u] = @ + 1]
             /\ seen' = seen \cup links
             /\ IF outcome = "broken"
                THEN /\ step' = [step EXCEPT ![r] = "broken_event"]
                     /\ results' = [results EXCEPT ![r] = done]
                     /\ batch' = [batch EXCEPT ![r] = Tail(@)]
                     /\ UNCHANGED frontier
                ELSE Continue(r, Added(frontier, links, depth + 3, depth + 1), Tail(batch[r]), done)
  BY <1>a, <1>b DEF Fetched
<1>c. PICK done : done = Append(results[r], <<u, outcome>>)
  OBVIOUS
<1>d. PICK over : over = Tail(batch[r])
  OBVIOUS
<1>e. PICK links : links = IF outcome \in {"ok", "moved"} /\ ~DeepEnough(depth) THEN Links[u] \ seen ELSE {}
  OBVIOUS
<1>4. /\ fetched' = [fetched EXCEPT ![u] = @ + 1] /\ seen' = seen \cup links
      /\ outcome = "broken" => /\ step' = [step EXCEPT ![r] = "broken_event"]
                               /\ results' = [results EXCEPT ![r] = done]
                               /\ batch' = [batch EXCEPT ![r] = Tail(@)]
                               /\ frontier' = frontier
      /\ outcome # "broken" => Continue(r, Added(frontier, links, depth + 3, depth + 1), over, done)
  BY <1>3, <1>c, <1>d, <1>e
<1>5. /\ u \in Url /\ done \in Seq(Finding) /\ over \in Seq(Ticket) /\ InLine(over)
      /\ UrlsOf(over) \cup FoundIn(done) = Held(r) /\ UrlsOf(over) \cap FoundIn(done) = {}
      /\ Len(over) + Len(done) = Len(batch[r]) + Len(results[r])
      /\ FoundIn(results[r]) \subseteq FoundIn(done) /\ u \in FoundIn(done)
      /\ (\A x \in Crawl : u \notin FoundIn(results[x])) /\ batch[r] # <<>>
      /\ Head(batch[r]) \in Ticket
  <2>1. outcome \in Outcome /\ step[r] \in {"limited", "fetch"}
    BY <1>2
  <2>2. FirstDone(r, u, over, done)
    BY <1>a, <1>c, <1>d, <2>1, FirstIs, Zenon
  <2> QED BY <2>2 DEF FirstDone
<1>6. CASE outcome = "broken"
  <2>1. links = {}
    BY <1>e, <1>6
  <2>2. seen' = seen
    BY <1>4, <2>1
  <2> QED BY <1>2, <1>4, <1>6, <1>a, <1>c, <2>2, BrokenStep
<1>7. CASE outcome # "broken"
  <2>1. depth \in Nat
    BY <1>5, <1>b, TicketIs
  <2>2. links \in SUBSET Url /\ links \cap seen = {}
    BY <1>5, <1>e, CrawlerAssumption
  <2>3. links = {} \/ depth + 1 <= MaxDepth
    <3>1. links # {} => ~ (depth >= MaxDepth)
      BY <1>e DEF DeepEnough
    <3> QED BY <2>1, <3>1, CrawlerAssumption
  <2>4. frontier \in Seq(Ticket) /\ InLine(frontier) /\ UrlsOf(frontier) \subseteq seen
    BY <1>1 DEF CrawlTyped, LinesHold, Accounted
  <2>5. PICK p \in Nat : p = depth + 3
    BY <2>1
  <2>6. PICK d \in Nat : d = depth + 1
    BY <2>1
  <2>7. PICK q : q = Added(frontier, links, p, d)
    OBVIOUS
  <2>8. q \in Seq(Ticket) /\ InLine(q) /\ UrlsOf(q) = UrlsOf(frontier) \cup links
    <3>1. UrlsOf(frontier) \cap links = {} /\ (links = {} \/ d <= MaxDepth)
      BY <2>2, <2>3, <2>4, <2>6
    <3> QED BY <2>2, <2>4, <2>7, <3>1, AddedIs
  <2>9. Continue(r, q, over, done) /\ seen' = seen \cup links
    BY <1>4, <1>7, <2>5, <2>6, <2>7
  <2>10. /\ fetched' \in [Url -> Nat]
         /\ \A x \in Url : \/ fetched'[x] = fetched[x]
                           \/ /\ fetched'[x] = fetched[x] + 1 /\ x \in FoundIn(done)
                              /\ \A y \in Crawl : x \notin FoundIn(results[y])
    <3>1. fetched \in [Url -> Nat]
      BY <1>1 DEF CrawlTyped
    <3>2. fetched' \in [Url -> Nat] /\ fetched'[u] = fetched[u] + 1 /\ \A x \in Url \ {u} : fetched'[x] = fetched[x]
      BY <1>4, <1>5, <3>1
    <3> QED BY <1>5, <3>2
  <2>11. step[r] \notin {"idle", "robots"}
    BY <1>2
  <2>12. CrawlInv' /\ ContinueDone(r, q, over, done)
    BY <1>2, <1>5, <2>2, <2>8, <2>9, <2>10, <2>11, ContinueStep
  <2> QED BY <1>5, <1>d, <2>12, LoopTakes
<1> QED BY <1>6, <1>7

LEMMA EventSentStep ==
    ASSUME CrawlInv, NEW r \in Crawl, EventSent(r)
    PROVE  CrawlInv' /\ TakesBest
<1>1. CrawlTyped /\ LinesHold /\ Accounted /\ PhasesHold
  BY DEF CrawlInv
<1>2. CASE step[r] = "robots_event" /\ step' = [step EXCEPT ![r] = "sitemaps"]
           /\ UNCHANGED <<frontier, seen, batch, results, fetched, dropped>>
  <2>1. batch[r] = <<>> /\ results[r] = <<>> /\ "sitemaps" \in Await
    BY <1>1, <1>2 DEF PhasesHold, Await
  <2>2. CrawlInv'
    BY <1>2, <2>1, SilentStep
  <2> QED BY <1>2, <2>2, NothingTaken
<1>3. CASE step[r] = "broken_event" /\ Continue(r, frontier, batch[r], results[r])
           /\ UNCHANGED <<seen, fetched, dropped>>
  <2>1. PICK fresh \in SUBSET Url : fresh = {}
    OBVIOUS
  <2>2. /\ frontier \in Seq(Ticket) /\ InLine(frontier) /\ fetched' \in [Url -> Nat]
        /\ fresh \cap seen = {} /\ UrlsOf(frontier) = UrlsOf(frontier) \cup fresh /\ seen' = seen \cup fresh
        /\ step[r] \notin {"idle", "robots"} /\ (\A x \in Url : fetched'[x] = fetched[x]) /\ dropped' = dropped
    BY <1>1, <1>3, <2>1 DEF CrawlTyped, LinesHold
  <2>3. /\ batch[r] \in Seq(Ticket) /\ InLine(batch[r]) /\ results[r] \in Seq(Finding)
        /\ UrlsOf(batch[r]) \cup FoundIn(results[r]) = Held(r) /\ UrlsOf(batch[r]) \cap FoundIn(results[r]) = {}
    BY <1>1 DEF CrawlTyped, LinesHold, Held
  <2>4. PICK over : over = batch[r]
    OBVIOUS
  <2>5. PICK done : done = results[r]
    OBVIOUS
  <2>6. /\ over \in Seq(Ticket) /\ InLine(over) /\ done \in Seq(Finding)
        /\ UrlsOf(over) \cup FoundIn(done) = Held(r) /\ UrlsOf(over) \cap FoundIn(done) = {}
        /\ Len(over) + Len(done) = Len(batch[r]) + Len(results[r])
        /\ FoundIn(results[r]) \subseteq FoundIn(done) /\ Continue(r, frontier, over, done)
    BY <1>3, <2>3, <2>4, <2>5
  <2>7. CrawlInv' /\ ContinueDone(r, frontier, over, done)
    BY <2>2, <2>6, ContinueStep
  <2> QED BY <2>4, <2>7, LoopTakes
<1> QED BY <1>2, <1>3 DEF EventSent

LEMMA EventFailsStep ==
    ASSUME CrawlInv, NEW r \in Crawl, EventFails(r)
    PROVE  CrawlInv' /\ TakesBest
<1>1. CrawlTyped /\ LinesHold /\ Accounted /\ FetchesReported /\ PhasesHold /\ LeftBehind /\ SizesHold
  BY DEF CrawlInv
<1>2. /\ step' = [step EXCEPT ![r] = "failed"] /\ batch' = [batch EXCEPT ![r] = <<>>]
      /\ dropped' = dropped \cup Batched(r)
      /\ frontier' = frontier /\ seen' = seen /\ results' = results /\ fetched' = fetched
  BY DEF EventFails
<1>3. /\ step' \in [Crawl -> Await] /\ step'[r] = "failed"
      /\ batch' \in [Crawl -> Seq(Ticket)] /\ batch'[r] = <<>>
      /\ \A x \in Crawl \ {r} : step'[x] = step[x] /\ batch'[x] = batch[x]
  BY <1>1, <1>2 DEF CrawlTyped, Await
<1>4. Batched(r) = UrlsOf(batch[r])
  <2>1. DOMAIN batch[r] = 1..Len(batch[r])
    BY <1>1 DEF CrawlTyped
  <2> QED BY <2>1 DEF Batched, UrlsOf
<1>5. UrlsOf(<<>>) = {} /\ InLine(<<>>) /\ Len(<<>>) = 0
  BY DEF UrlsOf, InLine
<1>6. CrawlTyped'
  BY <1>1, <1>2, <1>3 DEF CrawlTyped
<1>7. LinesHold'
  BY <1>1, <1>2, <1>3, <1>5 DEF LinesHold
<1>8. Accounted'
  <2>1. Held(r) = UrlsOf(batch[r]) \cup FoundIn(results[r]) /\ Held(r)' = FoundIn(results[r])
    BY <1>2, <1>3, <1>5 DEF Held
  <2>2. \A x \in Crawl \ {r} : Held(x)' = Held(x)
    BY <1>2, <1>3 DEF Held
  <2>3. UrlsOf(frontier)' = UrlsOf(frontier) /\ UrlsOf(frontier) \cap Held(r) = {}
    BY <1>1, <1>2 DEF Accounted
  <2>4. PICK fresh : fresh = {}
    OBVIOUS
  <2>5. /\ fresh \cap seen = {} /\ seen' = seen \cup fresh
        /\ UrlsOf(frontier)' \subseteq UrlsOf(frontier) \cup fresh
        /\ dropped \subseteq dropped' /\ dropped' \subseteq dropped \cup Held(r)
        /\ Held(r)' \subseteq Held(r) \cup UrlsOf(frontier) \cup fresh
        /\ UrlsOf(frontier) \cup fresh \cup Held(r) \subseteq UrlsOf(frontier)' \cup Held(r)' \cup dropped'
        /\ UrlsOf(frontier)' \cap Held(r)' = {}
    BY <1>2, <1>4, <2>1, <2>3, <2>4
  <2> QED BY <1>1, <2>2, <2>5, AccountStep
<1>9. FetchesReported'
  BY <1>1, <1>2 DEF FetchesReported
<1>10. PhasesHold'
  <2> SUFFICES ASSUME NEW x \in Crawl
               PROVE  /\ step'[x] \in {"idle", "robots", "robots_event", "sitemaps"}
                            => batch'[x] = <<>> /\ results'[x] = <<>>
                      /\ step'[x] \in {"limited", "fetch"} => batch'[x] # <<>>
    BY DEF PhasesHold
  <2>1. CASE x = r
    BY <1>3, <2>1
  <2>2. CASE x # r
    BY <1>1, <1>2, <1>3, <2>2 DEF PhasesHold
  <2> QED BY <2>1, <2>2
<1>11. LeftBehind'
  <2> SUFFICES ASSUME NEW x \in Crawl, step'[x] \in {"index", "done"}
               PROVE  \E other \in Crawl \ {x} : step'[other] \notin {"idle", "robots"}
    BY DEF LeftBehind
  <2>1. x # r /\ step'[r] \notin {"idle", "robots"}
    BY <1>3
  <2> QED BY <2>1
<1>12. SizesHold'
  <2> SUFFICES ASSUME NEW x \in Crawl PROVE Len(results[x]) + Len(batch'[x]) < MaxUrls + Burst
    BY <1>2 DEF SizesHold
  <2>1. CASE x = r
    <3>1. PICK c \in Nat : c = Len(results[r])
      BY <1>1 DEF CrawlTyped
    <3>2. PICK b \in Nat : b = Len(batch[r])
      BY <1>1 DEF CrawlTyped
    <3>3. c + b < MaxUrls + Burst
      BY <1>1, <3>1, <3>2 DEF SizesHold
    <3>4. c + 0 < MaxUrls + Burst
      BY <3>3, CrawlerAssumption
    <3> QED BY <1>3, <1>5, <2>1, <3>1, <3>4
  <2>2. CASE x # r
    BY <1>1, <1>3, <2>2 DEF SizesHold
  <2> QED BY <2>1, <2>2
<1>13. TakesBest
  BY <1>3, NothingTaken
<1> QED BY <1>6, <1>7, <1>8, <1>9, <1>10, <1>11, <1>12, <1>13 DEF CrawlInv

LEMMA QuietSteps ==
    ASSUME CrawlInv, NEW r \in Crawl, Start(r) \/ RobotsFetched(r) \/ IndexChecked(r)
    PROVE  CrawlInv' /\ TakesBest
<1>1. UNCHANGED <<frontier, seen, batch, results, fetched, dropped>>
  BY DEF Start, RobotsFetched, IndexChecked
<1>2. PhasesHold
  BY DEF CrawlInv
<1>3. TakesBest
  BY <1>1, NothingTaken
<1>4. CASE Start(r)
  <2>1. step[r] = "idle" /\ step' = [step EXCEPT ![r] = "robots"]
    BY <1>4 DEF Start
  <2>2. batch[r] = <<>> /\ results[r] = <<>> /\ "robots" \in Await
    BY <1>2, <2>1 DEF PhasesHold, Await
  <2> QED BY <1>1, <1>3, <2>1, <2>2, SilentStep
<1>5. CASE RobotsFetched(r)
  <2>1. step[r] = "robots" /\ \E s \in {"sitemaps", "robots_event"} : step' = [step EXCEPT ![r] = s]
    BY <1>5 DEF RobotsFetched
  <2>2. PICK s \in {"sitemaps", "robots_event"} : step' = [step EXCEPT ![r] = s]
    BY <2>1
  <2>3. batch[r] = <<>> /\ results[r] = <<>> /\ s \in Await
    BY <1>2, <2>1 DEF PhasesHold, Await
  <2> QED BY <1>1, <1>3, <2>1, <2>2, <2>3, SilentStep
<1>6. CASE IndexChecked(r)
  <2>1. step[r] = "index" /\ step' = [step EXCEPT ![r] = "done"] /\ "done" \in Await
    BY <1>6 DEF IndexChecked, Await
  <2> QED BY <1>1, <1>3, <2>1, SilentStep
<1> QED BY <1>4, <1>5, <1>6

LEMMA CrawlStep ==
    ASSUME CrawlInv, CrawlerNext
    PROVE  CrawlInv' /\ TakesBest
<1>1. PICK r \in Crawl : \/ Start(r) \/ RobotsFetched(r) \/ SitemapsFetched(r) \/ Visit(r)
                         \/ Fetched(r) \/ EventSent(r) \/ EventFails(r) \/ IndexChecked(r)
  BY DEF CrawlerNext
<1>2. CASE Start(r) \/ RobotsFetched(r) \/ IndexChecked(r)
  BY <1>2, QuietSteps
<1>3. CASE SitemapsFetched(r)
  BY <1>3, SitemapsStep, SitemapsTake
<1>4. CASE Visit(r)
  BY <1>4, VisitStep
<1>5. CASE Fetched(r)
  BY <1>5, FetchedStep
<1>6. CASE EventSent(r)
  BY <1>6, EventSentStep
<1>7. CASE EventFails(r)
  BY <1>7, EventFailsStep
<1> QED BY <1>1, <1>2, <1>3, <1>4, <1>5, <1>6, <1>7

LEMMA CrawlStarts == CrawlerInit => CrawlInv
<1> SUFFICES ASSUME CrawlerInit PROVE CrawlInv
  OBVIOUS
<1>1. /\ frontier = <<>> /\ seen = {} /\ dropped = {}
      /\ step = [r \in Crawl |-> "idle"] /\ batch = [r \in Crawl |-> <<>>]
      /\ results = [r \in Crawl |-> <<>>] /\ fetched = [u \in Url |-> 0]
  BY DEF CrawlerInit
<1>2. /\ <<>> \in Seq(Ticket) /\ <<>> \in Seq(Finding) /\ "idle" \in Await /\ Len(<<>>) = 0
      /\ InLine(<<>>) /\ UrlsOf(<<>>) = {} /\ FoundIn(<<>>) = {}
  BY DEF InLine, UrlsOf, FoundIn, Await
<1>3. \A r \in Crawl : batch[r] = <<>> /\ results[r] = <<>> /\ step[r] = "idle"
  BY <1>1
<1>4. CrawlTyped
  BY <1>1, <1>2 DEF CrawlTyped
<1>5. LinesHold
  BY <1>1, <1>2, <1>3 DEF LinesHold
<1>6. Accounted
  <2>1. UrlsOf(frontier) = {} /\ \A r \in Crawl : Held(r) = {}
    BY <1>1, <1>2, <1>3 DEF Held
  <2> QED BY <1>1, <2>1 DEF Accounted
<1>7. FetchesReported
  BY <1>1 DEF FetchesReported
<1>8. PhasesHold
  BY <1>3 DEF PhasesHold
<1>9. LeftBehind
  BY <1>1 DEF LeftBehind
<1>10. SizesHold
  <2>1. 0 + 0 < MaxUrls + Burst
    BY CrawlerAssumption
  <2> QED BY <1>2, <1>3, <2>1 DEF SizesHold
<1> QED BY <1>4, <1>5, <1>6, <1>7, <1>8, <1>9, <1>10 DEF CrawlInv

\* The urls of a sequence in line are as many as its entries.
LEMMA LineCounts ==
    ASSUME NEW q \in Seq(Ticket), InLine(q)
    PROVE  Len(q) = Cardinality(UrlsOf(q))
<1> PICK n \in Nat : n = Len(q)
  OBVIOUS
<1> DEFINE url == [i \in 1..n |-> q[i][2]]
<1>1. UrlsOf(q) = {q[i][2] : i \in 1..n}
  BY DEF UrlsOf
<1>2. url \in Surjection(1..n, UrlsOf(q))
  BY <1>1 DEF Surjection
<1>3. \A i, j \in 1..n : i < j => q[i][2] # q[j][2]
  BY DEF InLine, GoesBefore
<1>4. ASSUME NEW i \in 1..n, NEW j \in 1..n, url[i] = url[j] PROVE i = j
  <2>1. ~ (i < j) /\ ~ (j < i)
    BY <1>3, <1>4
  <2> QED BY <2>1
<1>5. url \in Bijection(1..n, UrlsOf(q))
  BY <1>2, <1>4 DEF Bijection, Injection, IsInjective, Surjection
<1>6. ExistsBijection(1..n, UrlsOf(q))
  BY <1>5 DEF ExistsBijection
<1>7. Cardinality(UrlsOf(q)) = n
  BY <1>6, FS_CountingElements
<1> QED BY <1>7

LEMMA CrawlIs == CrawlInv => CrawlIsAccounted
<1> SUFFICES ASSUME CrawlInv PROVE CrawlIsAccounted
  OBVIOUS
<1>1. CrawlTyped /\ LinesHold /\ Accounted /\ FetchesReported /\ PhasesHold /\ LeftBehind /\ SizesHold
  BY DEF CrawlInv
<1>2. /\ frontier \in Seq(Ticket) /\ seen \subseteq Url /\ step \in [Crawl -> Await]
      /\ batch \in [Crawl -> Seq(Ticket)] /\ results \in [Crawl -> Seq(Finding)]
  BY <1>1 DEF CrawlTyped
<1>3. Queued = UrlsOf(frontier) /\ DOMAIN frontier = 1..Len(frontier)
  BY <1>2 DEF Queued, UrlsOf
<1>4. ASSUME NEW r \in Crawl
      PROVE  Batched(r) \cup Reported(r) = Held(r)
  <2>1. DOMAIN batch[r] = 1..Len(batch[r]) /\ DOMAIN results[r] = 1..Len(results[r])
    BY <1>2
  <2> QED BY <2>1 DEF Batched, Reported, Held, UrlsOf, FoundIn
<1>5. CrawlerTypeOK
  <2>1. Queued \cup dropped \subseteq seen /\ seen \subseteq Url
    BY <1>1, <1>2, <1>3 DEF Accounted
  <2>2. ASSUME NEW i \in DOMAIN frontier PROVE frontier[i][3] <= MaxDepth
    <3>1. frontier[i] \in Ticket
      BY <1>2, <1>3, <2>2
    <3> QED BY <3>1, TicketIs
  <2>3. step \in [Crawl -> {"idle", "robots", "robots_event", "sitemaps", "limited", "fetch",
                            "broken_event", "index", "done", "failed"}]
    BY <1>2 DEF Await
  <2>4. ASSUME NEW r \in Crawl, NEW i \in DOMAIN results[r] PROVE results[r][i] \in Url \X Outcome
    <3>1. results[r] \in Seq(Finding)
      BY <1>2
    <3> QED BY <2>4, <3>1 DEF Finding
  <2> QED BY <2>1, <2>2, <2>3, <2>4 DEF CrawlerTypeOK
<1>6. FetchedOnce
  BY <1>1 DEF FetchesReported, FetchedOnce
<1>7. SeenIsAccountedFor
  <2>1. /\ UrlsOf(frontier) \subseteq seen /\ dropped \subseteq seen
        /\ \A r \in Crawl : Held(r) \subseteq seen /\ UrlsOf(frontier) \cap Held(r) = {}
        /\ \A u \in seen : u \in UrlsOf(frontier) \/ u \in dropped \/ \E r \in Crawl : u \in Held(r)
        /\ \A r, other \in Crawl : r # other => Held(r) \cap Held(other) = {}
    BY <1>1 DEF Accounted
  <2>2. PICK held : held = UNION {Batched(r) \cup Reported(r) : r \in Crawl}
    OBVIOUS
  <2>3. \A u : u \in held <=> \E r \in Crawl : u \in Held(r)
    BY <1>4, <2>2
  <2>4. seen = Queued \cup dropped \cup held
    BY <1>3, <2>1, <2>3
  <2>5. Len(frontier) = Cardinality(Queued)
    BY <1>1, <1>2, <1>3, LineCounts DEF LinesHold
  <2>6. \A r \in Crawl :
          /\ Queued \cap (Batched(r) \cup Reported(r)) = {}
          /\ \A other \in Crawl \ {r} :
                (Batched(r) \cup Reported(r)) \cap (Batched(other) \cup Reported(other)) = {}
    BY <1>3, <1>4, <2>1
  <2> QED BY <2>2, <2>4, <2>5, <2>6 DEF SeenIsAccountedFor
<1>8. LimitHolds
  BY <1>1 DEF SizesHold, LeftBehind, LimitHolds
<1> QED BY <1>5, <1>6, <1>7, <1>8 DEF CrawlIsAccounted

LEMMA CrawlHolds == CrawlerSpec => []CrawlInv
<1>1. CrawlerInit => CrawlInv
  BY CrawlStarts
<1>2. CrawlInv /\ [CrawlerNext]_crawlVars => CrawlInv'
  <2> SUFFICES ASSUME CrawlInv, [CrawlerNext]_crawlVars PROVE CrawlInv'
    OBVIOUS
  <2>1. CASE CrawlerNext
    BY <2>1, CrawlStep
  <2>2. CASE UNCHANGED crawlVars
    BY <2>2 DEF crawlVars, CrawlInv, CrawlTyped, LinesHold, Accounted, Held, FetchesReported,
                PhasesHold, LeftBehind, SizesHold
  <2> QED BY <2>1, <2>2
<1> QED BY <1>1, <1>2, PTL DEF CrawlerSpec

(***************************************************************************)
(* However many runs of the sentinel overlap on one frontier, no page is   *)
(* fetched twice, every url that was seen is in one place, and each run    *)
(* keeps to its limit (SentinelAgent.execute, URLFrontier).                *)
(***************************************************************************)
THEOREM CrawlsStayAccounted == CrawlerSpec => []CrawlIsAccounted
BY CrawlHolds, CrawlIs, PTL

(***************************************************************************)
(* A run takes the best of the frontier, whatever the other runs added in  *)
(* which order (URLFrontier.add and next_batch).                           *)
(***************************************************************************)
THEOREM BatchesAreBest == CrawlerSpec => BestFirst
<1>1. CrawlInv /\ [CrawlerNext]_crawlVars =>
         [\A r \in Crawl : Takes(r) =>
             \A i \in DOMAIN batch'[r], j \in DOMAIN frontier' :
                 batch'[r][i][1] <= frontier'[j][1]]_crawlVars
  BY CrawlStep DEF TakesBest
<1> QED BY <1>1, CrawlHolds, PTL DEF CrawlerSpec, BestFirst

(***************************************************************************)
(* RankTracking.                                                           *)
(***************************************************************************)
Alert == [from : Nat, to : Nat, urgent : BOOLEAN]
Comparison == [engine : Engine, from : Nat, to : Nat]

\* An answer ends a history; what the answers before it say is still there.
LEMMA AnswerAdded ==
    ASSUME NEW h \in Seq(Page), NEW x \in Page, NEW n \in Nat, n = Len(h), NEW g, g = Append(h, x)
    PROVE  /\ g \in Seq(Page) /\ Len(g) = n + 1 /\ g[n + 1] = x /\ \A i \in 1..n : g[i] = h[i] /\ h[i] \in Page
           /\ \A i \in 1..n - 1 : g[i] = h[i] /\ g[i + 1] = h[i + 1]
<1>1. g \in Seq(Page) /\ Len(g) = n + 1 /\ g[n + 1] = x /\ \A i \in 1..n : g[i] = h[i]
  BY AppendProperties
<1>2. \A i \in 1..n : h[i] \in Page
  BY ElementOfSeq
<1>3. \A i \in 1..n - 1 : i \in 1..n /\ i + 1 \in 1..n
  OBVIOUS
<1> QED BY <1>1, <1>2, <1>3

\* The last answer decides whether its predecessor is a fall or an overtaking.
FallTo(before, now) == Missing \notin {before.ours, now.ours} /\ now.ours >= before.ours + DropAt
PassTo(before, now) ==
    /\ Missing \notin {before.ours, now.ours} /\ before.theirs # <<>>
    /\ \A j \in DOMAIN before.theirs : before.theirs[j] > before.ours
    /\ \E j \in DOMAIN now.theirs : now.theirs[j] < now.ours

FallsGrown(h, x, n, g) ==
    FallsOf(h) \subseteq 1..n - 1 /\ FallsOf(g) = FallsOf(h) \cup {i \in {n} : n # 0 /\ FallTo(h[n], x)}

LEMMA FallsGrow ==
    ASSUME NEW h \in Seq(Page), NEW x \in Page, NEW n \in Nat, n = Len(h), NEW g, g = Append(h, x)
    PROVE  FallsGrown(h, x, n, g)
<1>1. /\ Len(g) = n + 1 /\ g[n + 1] = x /\ \A i \in 1..n : g[i] = h[i]
      /\ \A i \in 1..n - 1 : g[i] = h[i] /\ g[i + 1] = h[i + 1]
  BY AnswerAdded
<1>2. FallsOf(h) = {i \in 1..n - 1 : FallTo(h[i], h[i + 1])}
  BY DEF FallsOf, Listed, FallTo
<1>3. FallsOf(g) = {i \in 1..(n + 1) - 1 : FallTo(g[i], g[i + 1])}
  BY <1>1 DEF FallsOf, Listed, FallTo
<1>4. (n + 1) - 1 = n
  OBVIOUS
<1>5. ASSUME NEW i \in 1..n - 1 PROVE i \in FallsOf(g) <=> i \in FallsOf(h)
  <2>1. i \in 1..n /\ g[i] = h[i] /\ g[i + 1] = h[i + 1]
    BY <1>1
  <2> QED BY <1>2, <1>3, <1>4, <2>1
<1>6. n \in FallsOf(g) <=> n # 0 /\ FallTo(h[n], x)
  <2>1. n \in 1..n <=> n # 0
    OBVIOUS
  <2>2. n # 0 => g[n] = h[n]
    BY <1>1, <2>1
  <2> QED BY <1>1, <1>3, <1>4, <2>1, <2>2
<1>7. \A i \in 1..n : i = n \/ i \in 1..n - 1
  OBVIOUS
<1> QED BY <1>2, <1>3, <1>4, <1>5, <1>6, <1>7 DEF FallsGrown

PassesGrown(h, x, n, g) ==
    PassesOf(h) \subseteq 1..n - 1 /\ PassesOf(g) = PassesOf(h) \cup {i \in {n} : n # 0 /\ PassTo(h[n], x)}

LEMMA PassesGrow ==
    ASSUME NEW h \in Seq(Page), NEW x \in Page, NEW n \in Nat, n = Len(h), NEW g, g = Append(h, x)
    PROVE  PassesGrown(h, x, n, g)
<1>1. /\ Len(g) = n + 1 /\ g[n + 1] = x /\ \A i \in 1..n : g[i] = h[i]
      /\ \A i \in 1..n - 1 : g[i] = h[i] /\ g[i + 1] = h[i + 1]
  BY AnswerAdded
<1>2. PassesOf(h) = {i \in 1..n - 1 : PassTo(h[i], h[i + 1])}
  BY DEF PassesOf, Listed, PassTo
<1>3. PassesOf(g) = {i \in 1..(n + 1) - 1 : PassTo(g[i], g[i + 1])}
  BY <1>1 DEF PassesOf, Listed, PassTo
<1>4. (n + 1) - 1 = n
  OBVIOUS
<1>5. ASSUME NEW i \in 1..n - 1 PROVE i \in PassesOf(g) <=> i \in PassesOf(h)
  <2>1. i \in 1..n /\ g[i] = h[i] /\ g[i + 1] = h[i + 1]
    BY <1>1
  <2> QED BY <1>2, <1>3, <1>4, <2>1
<1>6. n \in PassesOf(g) <=> n # 0 /\ PassTo(h[n], x)
  <2>1. n \in 1..n <=> n # 0
    OBVIOUS
  <2>2. n # 0 => g[n] = h[n]
    BY <1>1, <2>1
  <2> QED BY <1>1, <1>3, <1>4, <2>1, <2>2
<1>7. \A i \in 1..n : i = n \/ i \in 1..n - 1
  OBVIOUS
<1> QED BY <1>2, <1>3, <1>4, <1>5, <1>6, <1>7 DEF PassesGrown

\* The alerts of one comparison.
AlertsOf(k, before, now, new) ==
    /\ Raised(k, before, now) \in Nat /\ new \in Seq(Alert) /\ Len(new) = Raised(k, before, now)
    /\ \A i \in 1..Len(new) : /\ new[i].from = before.ours /\ new[i].to = now.ours
                              /\ new[i].urgent <=> k = "drop" /\ now.ours - before.ours >= 5

LEMMA EvaluateIs ==
    ASSUME NEW before \in Page, NEW now \in Page, NEW k \in Kind, NEW new, new = Evaluate(k, before, now)
    PROVE  AlertsOf(k, before, now, new)
<1>1. before.ours \in Nat /\ now.ours \in Nat /\ now.theirs \in Seq(Nat)
  BY RankAssumption
<1>2. Cardinality(Overtaking(before, now)) \in Nat
  <2>1. Overtaking(before, now) \subseteq 1..Len(now.theirs) /\ Len(now.theirs) \in Nat
    BY <1>1 DEF Overtaking
  <2>2. IsFiniteSet(1..Len(now.theirs))
    BY <2>1, FS_Interval
  <2> QED BY <2>1, <2>2, FS_Subset, FS_CardinalityType
<1>3. Raised(k, before, now) \in Nat
  <2>1. k = "drop" \/ k = "gain" \/ k = "overtake"
    BY DEF Kind
  <2> QED BY <1>2, <2>1 DEF Raised
<1>4. PICK n \in Nat : n = Raised(k, before, now)
  BY <1>3
<1>5. new = [i \in 1..n |-> [from |-> before.ours, to |-> now.ours,
                             urgent |-> k = "drop" /\ now.ours - before.ours >= 5]]
  BY <1>4 DEF Evaluate
<1>6. PICK alert : alert = [from |-> before.ours, to |-> now.ours,
                            urgent |-> k = "drop" /\ now.ours - before.ours >= 5]
  OBVIOUS
<1>7. /\ alert \in Alert /\ alert.from = before.ours /\ alert.to = now.ours
      /\ alert.urgent <=> k = "drop" /\ now.ours - before.ours >= 5
  BY <1>1, <1>6 DEF Alert
<1>8. new = [i \in 1..n |-> alert]
  BY <1>5, <1>6
<1>9. new \in Seq(Alert) /\ Len(new) = n /\ \A i \in 1..n : new[i] = alert
  BY <1>7, <1>8
<1> QED BY <1>4, <1>7, <1>9 DEF AlertsOf

\* What a fall and an overtaking raise.
LEMMA RaisedIs ==
    ASSUME NEW before \in Page, NEW now \in Page
    PROVE  /\ FallTo(before, now) => Raised("drop", before, now) = 1
           /\ ~ FallTo(before, now) => Raised("drop", before, now) = 0
           /\ PassTo(before, now) => Raised("overtake", before, now) >= 1
<1>1. before.ours \in Nat /\ now.ours \in Nat /\ now.theirs \in Seq(Nat) /\ before.theirs \in Seq(Nat)
  BY RankAssumption
<1>2. FallTo(before, now) <=> Missing \notin {before.ours, now.ours} /\ Falls(before.ours, now.ours)
  BY <1>1, RankAssumption DEF FallTo, Falls
<1>3. FallTo(before, now) => Raised("drop", before, now) = 1
  BY <1>2 DEF Raised
<1>4. ~ FallTo(before, now) => Raised("drop", before, now) = 0
  BY <1>2 DEF Raised
<1>5. ASSUME PassTo(before, now) PROVE Raised("overtake", before, now) >= 1
  <2>1. PICK j \in DOMAIN now.theirs : now.theirs[j] < now.ours
    BY <1>5 DEF PassTo
  <2>2. Last(before.theirs) > before.ours
    <3>1. Len(before.theirs) \in Nat \ {0}
      BY <1>1, <1>5, EmptySeq, Zenon DEF PassTo
    <3>2. Len(before.theirs) \in DOMAIN before.theirs
      BY <1>1, <3>1
    <3> QED BY <1>5, <3>2 DEF PassTo, Last
  <2>3. j \in Overtaking(before, now)
    BY <1>5, <2>1, <2>2 DEF Overtaking, PassTo
  <2>4. IsFiniteSet(Overtaking(before, now))
    <3>1. Overtaking(before, now) \subseteq 1..Len(now.theirs) /\ Len(now.theirs) \in Nat
      BY <1>1 DEF Overtaking
    <3>2. IsFiniteSet(1..Len(now.theirs))
      BY <3>1, FS_Interval
    <3> QED BY <3>1, <3>2, FS_Subset
  <2>5. Cardinality(Overtaking(before, now)) # 0 /\ Cardinality(Overtaking(before, now)) \in Nat
    BY <2>3, <2>4, FS_EmptySet, FS_CardinalityType
  <2>6. Raised("overtake", before, now) = Cardinality(Overtaking(before, now))
    BY <1>5 DEF Raised, PassTo
  <2> QED BY <2>5, <2>6
<1> QED BY <1>3, <1>4, <1>5

\* The drops of a history are its falls, in their order.
DropsAre(h, drops) ==
    /\ Len(drops) = Cardinality(FallsOf(h))
    /\ \A i \in FallsOf(h) :
          LET alert == drops[Cardinality(FallsOf(h) \cap 1..i)]
          IN  /\ alert.from = h[i].ours /\ alert.to = h[i + 1].ours
              /\ alert.urgent <=> h[i + 1].ours - h[i].ours >= 5

LEMMA DropsGrow ==
    ASSUME NEW h \in Seq(Page), NEW x \in Page, NEW n \in Nat \ {0}, n = Len(h), NEW g, g = Append(h, x),
           NEW drops \in Seq(Alert), DropsAre(h, drops), NEW all, all = drops \o Evaluate("drop", h[n], x)
    PROVE  DropsAre(g, all)
<1>a. PICK F : F = FallsOf(h)
  OBVIOUS
<1>1. /\ Len(g) = n + 1 /\ g[n + 1] = x /\ \A i \in 1..n : g[i] = h[i] /\ h[i] \in Page
      /\ \A i \in 1..n - 1 : g[i] = h[i] /\ g[i + 1] = h[i + 1]
  BY AnswerAdded
<1>2. F \subseteq 1..n - 1 /\ FallsOf(g) = F \cup {i \in {n} : FallTo(h[n], x)}
  <2>1. FallsOf(h) \subseteq 1..n - 1 /\ FallsOf(g) = FallsOf(h) \cup {i \in {n} : n # 0 /\ FallTo(h[n], x)}
    <3>1. h \in Seq(Page) /\ x \in Page /\ n \in Nat /\ n = Len(h) /\ g = Append(h, x)
      OBVIOUS
    <3>2. FallsGrown(h, x, n, g)
      BY <3>1, FallsGrow, Zenon
    <3> QED BY <3>2 DEF FallsGrown
  <2> QED BY <1>a, <2>1
<1>3. n \in 1..n /\ n \notin F /\ h[n] \in Page /\ g[n] = h[n]
  BY <1>1, <1>2
<1>4. IsFiniteSet(1..n - 1)
  BY FS_Interval
<1>5. IsFiniteSet(F)
  BY <1>2, <1>4, FS_Subset
<1>6. PICK c \in Nat : c = Cardinality(F)
  BY <1>5, FS_CardinalityType
<1>7. Len(drops) = c
  BY <1>a, <1>6 DEF DropsAre
<1>8. \A i \in F : /\ drops[Cardinality(F \cap 1..i)].from = h[i].ours
                   /\ drops[Cardinality(F \cap 1..i)].to = h[i + 1].ours
                   /\ drops[Cardinality(F \cap 1..i)].urgent <=> h[i + 1].ours - h[i].ours >= 5
  BY <1>a DEF DropsAre
<1>b. PICK new : new = Evaluate("drop", h[n], x)
  OBVIOUS
<1>9. /\ new \in Seq(Alert) /\ Len(new) = Raised("drop", h[n], x)
      /\ \A i \in 1..Len(new) : /\ new[i].from = h[n].ours /\ new[i].to = x.ours
                                /\ new[i].urgent <=> x.ours - h[n].ours >= 5
  <2>1. "drop" \in Kind
    BY DEF Kind
  <2>2. x \in Page /\ h[n] \in Page
    BY <1>3
  <2>3. AlertsOf("drop", h[n], x, new)
    BY <1>b, <2>1, <2>2, EvaluateIs, Zenon
  <2> QED BY <2>3 DEF AlertsOf
<1>10. /\ Len(all) = Len(drops) + Len(new)
       /\ \A i \in 1..Len(drops) + Len(new) : all[i] = IF i <= Len(drops) THEN drops[i] ELSE new[i - Len(drops)]
  <2>1. drops \in Seq(Alert) /\ new \in Seq(Alert)
    BY <1>9
  <2>2. /\ Len(drops \o new) = Len(drops) + Len(new)
        /\ \A i \in 1..Len(drops) + Len(new) :
              (drops \o new)[i] = IF i <= Len(drops) THEN drops[i] ELSE new[i - Len(drops)]
    BY <2>1, ConcatProperties, Zenon
  <2> QED BY <1>b, <2>2, Zenon
<1>11. PICK m \in Nat : m = Len(new)
  BY <1>9
<1>12. Len(all) = c + m /\ \A i \in 1..c + m : all[i] = IF i <= c THEN drops[i] ELSE new[i - c]
  BY <1>7, <1>10, <1>11
<1>13. m = IF FallTo(h[n], x) THEN 1 ELSE 0
  BY <1>3, <1>9, <1>11, RaisedIs
<1>14. Cardinality(F \cup {n}) = c + 1
  BY <1>3, <1>5, <1>6, FS_AddElement
<1>15. ASSUME NEW i \in F
       PROVE  LET k == Cardinality(FallsOf(g) \cap 1..i)
              IN  /\ all[k].from = g[i].ours /\ all[k].to = g[i + 1].ours
                  /\ all[k].urgent <=> g[i + 1].ours - g[i].ours >= 5
  <2>1. i \in 1..n - 1 /\ i \in Nat /\ ~ (n \in 1..i)
    BY <1>2
  <2>2. FallsOf(g) \cap 1..i = F \cap 1..i
    BY <1>2, <2>1
  <2>3. F \cap 1..i \subseteq F /\ F \cap 1..i # {}
    <3>1. i \in 1..i
      BY <2>1
    <3> QED BY <3>1
  <2>4. PICK k \in 1..c : k = Cardinality(F \cap 1..i)
    <3>1. IsFiniteSet(F \cap 1..i) /\ Cardinality(F \cap 1..i) <= c
      BY <1>5, <1>6, <2>3, FS_Subset
    <3>2. Cardinality(F \cap 1..i) \in Nat /\ Cardinality(F \cap 1..i) # 0
      BY <2>3, <3>1, FS_CardinalityType, FS_EmptySet
    <3>3. Cardinality(F \cap 1..i) \in 1..c
      BY <3>1, <3>2
    <3> QED BY <3>3
  <2>5. all[k] = drops[k]
    <3>1. k \in 1..c + m /\ k <= c
      OBVIOUS
    <3> QED BY <1>12, <3>1
  <2>6. g[i] = h[i] /\ g[i + 1] = h[i + 1]
    BY <1>1, <2>1
  <2> QED BY <1>8, <2>2, <2>4, <2>5, <2>6
<1>16. ASSUME FallTo(h[n], x)
       PROVE  LET k == Cardinality(FallsOf(g) \cap 1..n)
              IN  /\ all[k].from = g[n].ours /\ all[k].to = g[n + 1].ours
                  /\ all[k].urgent <=> g[n + 1].ours - g[n].ours >= 5
  <2>1. F \cup {n} \subseteq 1..n
    <3>1. \A i \in 1..n - 1 : i \in 1..n
      OBVIOUS
    <3> QED BY <1>2, <1>3, <3>1
  <2>2. FallsOf(g) \cap 1..n = F \cup {n}
    BY <1>2, <1>16, <2>1
  <2>3. m = 1
    BY <1>13, <1>16
  <2>4. all[c + 1] = new[1]
    <3>1. c + 1 \in 1..c + m /\ ~ (c + 1 <= c) /\ (c + 1) - c = 1
      BY <2>3
    <3> QED BY <1>12, <3>1
  <2>5. /\ new[1].from = h[n].ours /\ new[1].to = x.ours
        /\ (new[1].urgent <=> x.ours - h[n].ours >= 5)
    BY <1>9, <1>11, <2>3
  <2>6. Cardinality(FallsOf(g) \cap 1..n) = c + 1
    BY <1>14, <2>2
  <2>7. g[n] = h[n] /\ g[n + 1] = x
    BY <1>1, <1>3
  <2>8. /\ all[c + 1].from = g[n].ours /\ all[c + 1].to = g[n + 1].ours
        /\ (all[c + 1].urgent <=> g[n + 1].ours - g[n].ours >= 5)
    <3>1. /\ new[1].from = g[n].ours /\ new[1].to = g[n + 1].ours
          /\ (new[1].urgent <=> g[n + 1].ours - g[n].ours >= 5)
      BY <2>5, <2>7
    <3> QED BY <2>4, <3>1
  <2> QED BY <2>6, <2>8, Zenon
<1>17. Len(all) = Cardinality(FallsOf(g))
  <2>1. CASE FallTo(h[n], x)
    <3>1. FallsOf(g) = F \cup {n}
      BY <1>2, <2>1
    <3> QED BY <1>12, <1>13, <1>14, <2>1, <3>1
  <2>2. CASE ~ FallTo(h[n], x)
    <3>1. FallsOf(g) = F
      BY <1>2, <2>2
    <3> QED BY <1>6, <1>12, <1>13, <2>2, <3>1
  <2> QED BY <2>1, <2>2
<1>18. ASSUME NEW i \in FallsOf(g)
       PROVE  LET k == Cardinality(FallsOf(g) \cap 1..i)
              IN  /\ all[k].from = g[i].ours /\ all[k].to = g[i + 1].ours
                  /\ all[k].urgent <=> g[i + 1].ours - g[i].ours >= 5
  <2>1. CASE i \in F
    BY <1>15, <2>1
  <2>2. CASE i = n /\ FallTo(h[n], x)
    BY <1>16, <2>2
  <2> QED BY <1>2, <2>1, <2>2
<1> QED BY <1>17, <1>18 DEF DropsAre

\* The overtakings of a history are at most its alerts.
PassesAre(h, overtakes) == Cardinality(PassesOf(h)) <= Len(overtakes)

LEMMA PassesRaised ==
    ASSUME NEW h \in Seq(Page), NEW x \in Page, NEW n \in Nat \ {0}, n = Len(h), NEW g, g = Append(h, x),
           NEW overtakes \in Seq(Alert), PassesAre(h, overtakes),
           NEW all, all = overtakes \o Evaluate("overtake", h[n], x)
    PROVE  PassesAre(g, all)
<1>a. PICK P : P = PassesOf(h)
  OBVIOUS
<1>1. h[n] \in Page
  BY AnswerAdded
<1>2. P \subseteq 1..n - 1 /\ PassesOf(g) = P \cup {i \in {n} : PassTo(h[n], x)}
  <2>1. PassesOf(h) \subseteq 1..n - 1 /\ PassesOf(g) = PassesOf(h) \cup {i \in {n} : n # 0 /\ PassTo(h[n], x)}
    <3>1. h \in Seq(Page) /\ x \in Page /\ n \in Nat /\ n = Len(h) /\ g = Append(h, x)
      OBVIOUS
    <3>2. PassesGrown(h, x, n, g)
      BY <3>1, PassesGrow, Zenon
    <3> QED BY <3>2 DEF PassesGrown
  <2> QED BY <1>a, <2>1
<1>3. n \notin P
  BY <1>2
<1>4. IsFiniteSet(1..n - 1)
  BY FS_Interval
<1>5. IsFiniteSet(P)
  BY <1>2, <1>4, FS_Subset
<1>6. PICK c \in Nat : c = Cardinality(P)
  BY <1>5, FS_CardinalityType
<1>7. PICK o \in Nat : o = Len(overtakes)
  OBVIOUS
<1>8. c <= o
  BY <1>a, <1>6, <1>7 DEF PassesAre
<1>b. PICK new : new = Evaluate("overtake", h[n], x)
  OBVIOUS
<1>9. new \in Seq(Alert) /\ Len(new) = Raised("overtake", h[n], x)
  <2>1. "overtake" \in Kind
    BY DEF Kind
  <2>2. x \in Page /\ h[n] \in Page
    BY <1>1
  <2>3. AlertsOf("overtake", h[n], x, new)
    BY <1>b, <2>1, <2>2, EvaluateIs, Zenon
  <2> QED BY <2>3 DEF AlertsOf
<1>10. PICK m \in Nat : m = Len(new)
  BY <1>9
<1>11. Len(all) = o + m
  <2>1. Len(overtakes \o new) = Len(overtakes) + Len(new)
    BY <1>9, ConcatProperties, Zenon
  <2> QED BY <1>7, <1>10, <1>b, <2>1
<1>12. CASE PassTo(h[n], x)
  <2>1. m >= 1
    BY <1>1, <1>9, <1>10, <1>12, RaisedIs
  <2>2. PassesOf(g) = P \cup {n}
    BY <1>2, <1>12
  <2>3. Cardinality(PassesOf(g)) = c + 1
    BY <1>3, <1>5, <1>6, <2>2, FS_AddElement
  <2> QED BY <1>8, <1>11, <2>1, <2>3 DEF PassesAre
<1>13. CASE ~ PassTo(h[n], x)
  <2>1. Cardinality(PassesOf(g)) = c
    BY <1>2, <1>6, <1>13
  <2> QED BY <1>8, <1>11, <2>1 DEF PassesAre
<1> QED BY <1>12, <1>13

\* The first answer of an engine is compared with nothing.
LEMMA FirstAnswer ==
    ASSUME NEW x \in Page, NEW g, g = Append(<<>>, x)
    PROVE  FallsOf(<<>>) = {} /\ PassesOf(<<>>) = {} /\ FallsOf(g) = {} /\ PassesOf(g) = {}
<1>1. Len(<<>>) = 0 /\ Len(g) = 1
  OBVIOUS
<1> QED BY <1>1 DEF FallsOf, PassesOf

RankTyped ==
    /\ at \in [Tracking -> 0..Len(Engines) + 1]
    /\ trail \in [Engine -> Seq(Page)] /\ snapshot \in [Engine -> Seq(Page)]
    /\ report \in [Tracking -> [Engine -> Int]] /\ delta \in [Tracking -> Seq(Comparison)]
    /\ alerts \in [Engine -> [Kind -> Seq(Alert)]]

\* The snapshot is the last answer, whoever got it.
SnapshotsAreLast ==
    \A e \in Engine : /\ trail[e] = <<>> => snapshot[e] = <<>>
                      /\ trail[e] # <<>> => snapshot[e] = <<trail[e][Len(trail[e])]>>
HistoriesHold ==
    \A e \in Engine : DropsAre(trail[e], alerts[e]["drop"]) /\ PassesAre(trail[e], alerts[e]["overtake"])
ReportsHold ==
    \A r \in Tracking : \A e \in Engine :
        report[r][e] \in {Unasked, Errored} \/ \E i \in 1..Len(trail[e]) : trail[e][i].ours = report[r][e]
ComparesAt(h, c) == \E i \in 1..Len(h) - 1 : h[i].ours = c.from /\ h[i + 1].ours = c.to
DeltasHold == \A r \in Tracking : delta[r] # <<>> => ComparesAt(trail[delta[r][1].engine], delta[r][1])

RankInv == RankTyped /\ SnapshotsAreLast /\ HistoriesHold /\ ReportsHold /\ DeltasHold

LEMMA EnginesAre == \A i \in DOMAIN Engines : Engines[i] \in Engine /\ i \in 1..Len(Engines) /\ Len(Engines) \in Nat
<1>1. Engines \in Seq(Engine)
  BY RankAssumption DEF Engine
<1> QED BY <1>1, ElementOfSeq

LEMMA TrackStep ==
    ASSUME RankInv, NEW r \in Tracking, Track(r)
    PROVE  RankInv'
<1>1. /\ RankTyped /\ SnapshotsAreLast /\ HistoriesHold /\ ReportsHold /\ DeltasHold
  BY DEF RankInv
<1>2. /\ at' = [at EXCEPT ![r] = 1] /\ snapshot' = snapshot /\ report' = report /\ delta' = delta
      /\ alerts' = alerts /\ trail' = trail
  BY DEF Track
<1>3. 1 \in 0..Len(Engines) + 1
  BY RankAssumption
<1>4. RankTyped'
  BY <1>1, <1>2, <1>3 DEF RankTyped
<1> QED BY <1>1, <1>2, <1>4 DEF RankInv, SnapshotsAreLast, HistoriesHold, ReportsHold, DeltasHold

LEMMA FailedStep ==
    ASSUME RankInv, NEW r \in Tracking, Failed(r)
    PROVE  RankInv'
<1>1. /\ RankTyped /\ SnapshotsAreLast /\ HistoriesHold /\ ReportsHold /\ DeltasHold
  BY DEF RankInv
<1>2. /\ at[r] \in DOMAIN Engines /\ at' = [at EXCEPT ![r] = @ + 1]
      /\ report' = [report EXCEPT ![r][Engines[at[r]]] = Errored]
      /\ snapshot' = snapshot /\ delta' = delta /\ alerts' = alerts /\ trail' = trail
  BY DEF Failed
<1>3. Engines[at[r]] \in Engine /\ at[r] + 1 \in 0..Len(Engines) + 1
  BY <1>2, EnginesAre
<1>4. Errored \in Int
  BY DEF Errored
<1>5. RankTyped'
  BY <1>1, <1>2, <1>3, <1>4 DEF RankTyped
<1>6. ReportsHold'
  <2> SUFFICES ASSUME NEW x \in Tracking, NEW e \in Engine
               PROVE  report'[x][e] \in {Unasked, Errored}
                         \/ \E i \in 1..Len(trail[e]) : trail[e][i].ours = report'[x][e]
    BY <1>2 DEF ReportsHold
  <2>1. report'[x][e] = Errored \/ report'[x][e] = report[x][e]
    BY <1>1, <1>2, <1>3 DEF RankTyped
  <2>2. report[x][e] \in {Unasked, Errored} \/ \E i \in 1..Len(trail[e]) : trail[e][i].ours = report[x][e]
    BY <1>1 DEF ReportsHold
  <2> QED BY <2>1, <2>2
<1> QED BY <1>1, <1>2, <1>5, <1>6 DEF RankInv, SnapshotsAreLast, HistoriesHold, DeltasHold

\* What an answer makes of the alerts and of the last comparison.
Compared(r, e, now) ==
    IF snapshot[e] = <<>>
    THEN delta' = [delta EXCEPT ![r] = <<>>] /\ UNCHANGED alerts
    ELSE LET before == snapshot[e][1]
         IN  /\ delta' = [delta EXCEPT ![r] = <<[engine |-> e, from |-> before.ours, to |-> now.ours]>>]
             /\ alerts' = [alerts EXCEPT ![e] = [k \in Kind |-> alerts[e][k] \o Evaluate(k, before, now)]]

AnswerDone(r, e, g) ==
    /\ alerts' \in [Engine -> [Kind -> Seq(Alert)]] /\ delta' \in [Tracking -> Seq(Comparison)]
    /\ \A d \in Engine \ {e} : alerts'[d] = alerts[d]
    /\ \A x \in Tracking \ {r} : delta'[x] = delta[x]
    /\ DropsAre(g, alerts'[e]["drop"]) /\ PassesAre(g, alerts'[e]["overtake"])
    /\ delta'[r] # <<>> => delta'[r][1].engine = e /\ ComparesAt(g, delta'[r][1])

LEMMA AnswerCompared ==
    ASSUME RankInv, NEW r \in Tracking, NEW e \in Engine, NEW now \in Page, NEW g, g = Append(trail[e], now),
           Compared(r, e, now)
    PROVE  AnswerDone(r, e, g)
<1> PICK h \in Seq(Page) : h = trail[e]
  BY DEF RankInv, RankTyped
<1>1. /\ alerts \in [Engine -> [Kind -> Seq(Alert)]] /\ delta \in [Tracking -> Seq(Comparison)]
      /\ DropsAre(h, alerts[e]["drop"]) /\ PassesAre(h, alerts[e]["overtake"])
      /\ (h = <<>> => snapshot[e] = <<>>) /\ (h # <<>> => snapshot[e] = <<h[Len(h)]>>)
  BY DEF RankInv, RankTyped, HistoriesHold, SnapshotsAreLast
<1>2. "drop" \in Kind /\ "overtake" \in Kind
  BY DEF Kind
<1>3. CASE h = <<>>
  <2>1. delta' = [delta EXCEPT ![r] = <<>>] /\ alerts' = alerts
    BY <1>1, <1>3 DEF Compared
  <2>2. FallsOf(h) = {} /\ PassesOf(h) = {} /\ FallsOf(g) = {} /\ PassesOf(g) = {}
    BY <1>3, FirstAnswer
  <2>3. DropsAre(g, alerts[e]["drop"]) /\ PassesAre(g, alerts[e]["overtake"])
    BY <1>1, <2>2 DEF DropsAre, PassesAre
  <2>4. delta' \in [Tracking -> Seq(Comparison)] /\ delta'[r] = <<>> /\ \A x \in Tracking \ {r} : delta'[x] = delta[x]
    BY <1>1, <2>1
  <2> QED BY <1>1, <2>1, <2>3, <2>4 DEF AnswerDone
<1>4. CASE h # <<>>
  <2>1. PICK n \in Nat \ {0} : n = Len(h)
    BY <1>4, EmptySeq, Zenon
  <2>2. h[n] \in Page
    BY <2>1, ElementOfSeq
  <2>3. snapshot[e] # <<>> /\ snapshot[e][1] = h[n]
    BY <1>1, <1>4, <2>1
  <2>4. /\ delta' = [delta EXCEPT ![r] = <<[engine |-> e, from |-> h[n].ours, to |-> now.ours]>>]
        /\ alerts' = [alerts EXCEPT ![e] = [k \in Kind |-> alerts[e][k] \o Evaluate(k, h[n], now)]]
    BY <2>3 DEF Compared
  <2>5. ASSUME NEW k \in Kind PROVE alerts[e][k] \o Evaluate(k, h[n], now) \in Seq(Alert)
    <3>1. alerts[e][k] \in Seq(Alert)
      BY <1>1
    <3>2. Evaluate(k, h[n], now) \in Seq(Alert)
      <4>1. AlertsOf(k, h[n], now, Evaluate(k, h[n], now))
        BY <2>2, EvaluateIs, Zenon
      <4> QED BY <4>1 DEF AlertsOf
    <3> QED BY <3>1, <3>2, ConcatProperties, Zenon
  <2>6. /\ alerts' \in [Engine -> [Kind -> Seq(Alert)]] /\ \A d \in Engine \ {e} : alerts'[d] = alerts[d]
        /\ \A k \in Kind : alerts'[e][k] = alerts[e][k] \o Evaluate(k, h[n], now)
    <3>1. PICK raised \in [Kind -> Seq(Alert)] : raised = [k \in Kind |-> alerts[e][k] \o Evaluate(k, h[n], now)]
      BY <2>5
    <3>2. alerts' = [alerts EXCEPT ![e] = raised]
      BY <2>4, <3>1
    <3>3. \A k \in Kind : raised[k] = alerts[e][k] \o Evaluate(k, h[n], now)
      BY <3>1
    <3> QED BY <1>1, <3>2, <3>3
  <2>7. DropsAre(g, alerts'[e]["drop"])
    <3>1. alerts[e]["drop"] \in Seq(Alert) /\ alerts'[e]["drop"] = alerts[e]["drop"] \o Evaluate("drop", h[n], now)
      BY <1>1, <1>2, <2>6
    <3> QED BY <1>1, <2>1, <3>1, DropsGrow, Zenon
  <2>8. PassesAre(g, alerts'[e]["overtake"])
    <3>1. /\ alerts[e]["overtake"] \in Seq(Alert)
          /\ alerts'[e]["overtake"] = alerts[e]["overtake"] \o Evaluate("overtake", h[n], now)
      BY <1>1, <1>2, <2>6
    <3> QED BY <1>1, <2>1, <3>1, PassesRaised, Zenon
  <2>9. PICK c : c = [engine |-> e, from |-> h[n].ours, to |-> now.ours]
    OBVIOUS
  <2>10. c \in Comparison /\ c.engine = e /\ c.from = h[n].ours /\ c.to = now.ours
    BY <2>2, <2>9, RankAssumption DEF Comparison
  <2>11. /\ delta' \in [Tracking -> Seq(Comparison)] /\ delta'[r] = <<c>> /\ <<c>>[1] = c
         /\ \A x \in Tracking \ {r} : delta'[x] = delta[x]
    <3>1. <<c>> \in Seq(Comparison) /\ delta' = [delta EXCEPT ![r] = <<c>>]
      BY <2>4, <2>9, <2>10
    <3> QED BY <1>1, <3>1
  <2>12. ComparesAt(g, c)
    <3>1. Len(g) = n + 1 /\ g[n + 1] = now /\ g[n] = h[n]
      BY <2>1, AnswerAdded
    <3>2. n \in 1..Len(g) - 1
      BY <3>1
    <3> QED BY <2>10, <3>1, <3>2 DEF ComparesAt
  <2> QED BY <2>6, <2>7, <2>8, <2>10, <2>11, <2>12 DEF AnswerDone
<1> QED BY <1>3, <1>4

AnswerOf(r, e, now) ==
    /\ report' = [report EXCEPT ![r][e] = now.ours] /\ snapshot' = Stored(e, now)
    /\ trail' = [trail EXCEPT ![e] = Append(trail[e], now)] /\ Compared(r, e, now)

LEMMA AnsweredStep ==
    ASSUME RankInv, NEW r \in Tracking, Answered(r)
    PROVE  RankInv'
<1>1. RankTyped /\ SnapshotsAreLast /\ HistoriesHold /\ ReportsHold /\ DeltasHold
  BY DEF RankInv
<1>2. at[r] \in DOMAIN Engines /\ at' = [at EXCEPT ![r] = @ + 1]
  BY DEF Answered
<1>3. PICK e \in Engine : e = Engines[at[r]]
  BY <1>2, EnginesAre
<1>4. PICK now \in Page : AnswerOf(r, e, now)
  <2>1. \E now \in Page : AnswerOf(r, Engines[at[r]], now)
    BY DEF Answered, AnswerOf, Compared
  <2> QED BY <1>3, <2>1
<1>d. /\ report' = [report EXCEPT ![r][e] = now.ours] /\ snapshot' = Stored(e, now)
      /\ trail' = [trail EXCEPT ![e] = Append(trail[e], now)] /\ Compared(r, e, now)
  BY <1>4 DEF AnswerOf
<1>a. PICK h \in Seq(Page) : h = trail[e]
  BY <1>1 DEF RankTyped
<1>b. PICK n \in Nat : n = Len(h)
  OBVIOUS
<1>c. PICK g : g = Append(trail[e], now)
  OBVIOUS
<1>5. /\ g \in Seq(Page) /\ Len(g) = n + 1 /\ g[n + 1] = now /\ (\A i \in 1..n : g[i] = h[i])
      /\ \A i \in 1..n - 1 : g[i] = h[i] /\ g[i + 1] = h[i + 1]
  BY <1>a, <1>b, <1>c, AnswerAdded
<1>6. /\ alerts' \in [Engine -> [Kind -> Seq(Alert)]] /\ delta' \in [Tracking -> Seq(Comparison)]
      /\ \A d \in Engine \ {e} : alerts'[d] = alerts[d]
      /\ \A x \in Tracking \ {r} : delta'[x] = delta[x]
      /\ DropsAre(g, alerts'[e]["drop"]) /\ PassesAre(g, alerts'[e]["overtake"])
      /\ delta'[r] # <<>> => delta'[r][1].engine = e /\ ComparesAt(g, delta'[r][1])
  <2>1. AnswerDone(r, e, g)
    BY <1>d, <1>c, AnswerCompared, Zenon
  <2> QED BY <2>1 DEF AnswerDone
<1>7. /\ trail' \in [Engine -> Seq(Page)] /\ trail'[e] = g /\ \A d \in Engine \ {e} : trail'[d] = trail[d]
  BY <1>1, <1>d, <1>5, <1>c DEF RankTyped
<1>8. /\ snapshot' \in [Engine -> Seq(Page)] /\ snapshot'[e] = <<now>>
      /\ \A d \in Engine \ {e} : snapshot'[d] = snapshot[d]
  <2>1. <<now>> \in Seq(Page) /\ snapshot' = [snapshot EXCEPT ![e] = <<now>>]
    BY <1>d DEF Stored
  <2> QED BY <1>1, <2>1 DEF RankTyped
<1>9. RankTyped'
  <2>1. now.ours \in Int
    BY RankAssumption
  <2>2. report' \in [Tracking -> [Engine -> Int]]
    BY <1>1, <1>d, <2>1 DEF RankTyped
  <2>3. at' \in [Tracking -> 0..Len(Engines) + 1]
    <3>1. at[r] + 1 \in 0..Len(Engines) + 1
      BY <1>2, EnginesAre
    <3> QED BY <1>1, <1>2, <3>1 DEF RankTyped
  <2> QED BY <1>6, <1>7, <1>8, <2>2, <2>3 DEF RankTyped
<1>10. SnapshotsAreLast'
  <2> SUFFICES ASSUME NEW d \in Engine
               PROVE  /\ trail'[d] = <<>> => snapshot'[d] = <<>>
                      /\ trail'[d] # <<>> => snapshot'[d] = <<trail'[d][Len(trail'[d])]>>
    BY DEF SnapshotsAreLast
  <2>1. CASE d = e
    <3>1. g # <<>>
      <4>1. Len(g) # 0 /\ Len(<<>>) = 0
        BY <1>5
      <4> QED BY <4>1, Zenon
    <3> QED BY <1>5, <1>7, <1>8, <2>1, <3>1
  <2>2. CASE d # e
    BY <1>1, <1>7, <1>8, <2>2 DEF SnapshotsAreLast
  <2> QED BY <2>1, <2>2
<1>11. HistoriesHold'
  <2> SUFFICES ASSUME NEW d \in Engine
               PROVE  DropsAre(trail'[d], alerts'[d]["drop"]) /\ PassesAre(trail'[d], alerts'[d]["overtake"])
    BY DEF HistoriesHold, DropsAre, PassesAre, FallsOf, PassesOf
  <2>1. CASE d = e
    BY <1>6, <1>7, <2>1
  <2>2. CASE d # e
    BY <1>1, <1>6, <1>7, <2>2 DEF HistoriesHold
  <2> QED BY <2>1, <2>2
<1>12. \A i \in 1..n : i \in 1..n + 1
  OBVIOUS
<1>13. ReportsHold'
  <2> SUFFICES ASSUME NEW x \in Tracking, NEW d \in Engine
               PROVE  report'[x][d] \in {Unasked, Errored}
                         \/ \E i \in 1..Len(trail'[d]) : trail'[d][i].ours = report'[x][d]
    BY DEF ReportsHold
  <2>1. report[x][d] \in {Unasked, Errored} \/ \E i \in 1..Len(trail[d]) : trail[d][i].ours = report[x][d]
    BY <1>1 DEF ReportsHold
  <2>2. CASE x = r /\ d = e
    <3>1. report'[x][d] = now.ours
      BY <1>1, <1>d, <2>2 DEF RankTyped
    <3>2. n + 1 \in 1..Len(g)
      BY <1>5
    <3> QED BY <1>5, <1>7, <2>2, <3>1, <3>2
  <2>3. CASE ~ (x = r /\ d = e)
    <3>1. report'[x][d] = report[x][d]
      BY <1>1, <1>d, <2>3 DEF RankTyped
    <3>2. CASE d = e
      BY <1>5, <1>7, <1>12, <1>a, <1>b, <2>1, <3>1, <3>2
    <3>3. CASE d # e
      BY <1>7, <2>1, <3>1, <3>3
    <3> QED BY <3>2, <3>3
  <2> QED BY <2>2, <2>3
<1>14. ASSUME NEW c, ComparesAt(h, c) PROVE ComparesAt(g, c)
  <2>1. PICK i \in 1..n - 1 : h[i].ours = c.from /\ h[i + 1].ours = c.to
    BY <1>14, <1>b DEF ComparesAt
  <2>2. i \in 1..Len(g) - 1 /\ g[i] = h[i] /\ g[i + 1] = h[i + 1]
    BY <1>5
  <2> QED BY <2>1, <2>2 DEF ComparesAt
<1>15. DeltasHold'
  <2> SUFFICES ASSUME NEW x \in Tracking, delta'[x] # <<>>
               PROVE  ComparesAt(trail'[delta'[x][1].engine], delta'[x][1])
    BY DEF DeltasHold, ComparesAt
  <2>1. CASE x = r
    BY <1>6, <1>7, <2>1
  <2>2. CASE x # r
    <3>1. delta'[x] = delta[x] /\ ComparesAt(trail[delta[x][1].engine], delta[x][1])
      BY <1>1, <1>6, <2>2 DEF DeltasHold
    <3>2. delta[x][1].engine \in Engine
      <4>1. delta[x] \in Seq(Comparison) /\ delta[x] # <<>>
        BY <1>1, <3>1 DEF RankTyped
      <4>2. Len(delta[x]) \in Nat \ {0}
        BY <4>1, EmptySeq, Zenon
      <4>3. delta[x][1] \in Comparison
        BY <4>1, <4>2
      <4> QED BY <4>3 DEF Comparison
    <3>3. PICK d \in Engine : d = delta[x][1].engine
      BY <3>2
    <3>4. CASE d = e
      BY <1>7, <1>14, <1>a, <3>1, <3>3, <3>4
    <3>5. CASE d # e
      BY <1>7, <3>1, <3>3, <3>5
    <3> QED BY <3>4, <3>5
  <2> QED BY <2>1, <2>2
<1> QED BY <1>9, <1>10, <1>11, <1>13, <1>15 DEF RankInv

LEMMA RankStarts == RankInit => RankInv
<1> SUFFICES ASSUME RankInit PROVE RankInv
  OBVIOUS
<1>1. /\ snapshot = [e \in Engine |-> <<>>] /\ trail = [e \in Engine |-> <<>>]
      /\ at = [r \in Tracking |-> 0] /\ alerts = [e \in Engine |-> [k \in Kind |-> <<>>]]
      /\ report = [r \in Tracking |-> [e \in Engine |-> Unasked]] /\ delta = [r \in Tracking |-> <<>>]
  BY DEF RankInit
<1>2. /\ <<>> \in Seq(Page) /\ <<>> \in Seq(Alert) /\ <<>> \in Seq(Comparison)
      /\ 0 \in 0..Len(Engines) + 1 /\ Unasked \in Int /\ "drop" \in Kind /\ "overtake" \in Kind
  BY RankAssumption DEF Unasked, Kind
<1>3. RankTyped
  BY <1>1, <1>2 DEF RankTyped
<1>4. DropsAre(<<>>, <<>>) /\ PassesAre(<<>>, <<>>)
  <2>1. Len(<<>>) = 0
    OBVIOUS
  <2>2. FallsOf(<<>>) = {} /\ PassesOf(<<>>) = {}
    BY <2>1 DEF FallsOf, PassesOf
  <2>3. Cardinality({}) = 0
    BY FS_EmptySet
  <2>4. DropsAre(<<>>, <<>>)
    BY <2>1, <2>2, <2>3, Zenon DEF DropsAre
  <2>5. PassesAre(<<>>, <<>>)
    <3>1. 0 <= 0
      OBVIOUS
    <3> QED BY <2>1, <2>2, <2>3, <3>1, Zenon DEF PassesAre
  <2> QED BY <2>4, <2>5
<1>5. \A e \in Engine : trail[e] = <<>> /\ snapshot[e] = <<>> /\ alerts[e]["drop"] = <<>> /\ alerts[e]["overtake"] = <<>>
  BY <1>1, <1>2
<1>6. HistoriesHold
  BY <1>4, <1>5 DEF HistoriesHold
<1> QED BY <1>1, <1>3, <1>5, <1>6 DEF RankInv, SnapshotsAreLast, ReportsHold, DeltasHold

LEMMA RankHolds == RankSpec => []RankInv
<1>1. RankInv /\ [RankNext]_rankVars => RankInv'
  <2> SUFFICES ASSUME RankInv, [RankNext]_rankVars PROVE RankInv'
    OBVIOUS
  <2>1. ASSUME NEW r \in Tracking, Track(r) PROVE RankInv'
    BY <2>1, TrackStep
  <2>2. ASSUME NEW r \in Tracking, Answered(r) PROVE RankInv'
    BY <2>2, AnsweredStep
  <2>3. ASSUME NEW r \in Tracking, Failed(r) PROVE RankInv'
    BY <2>3, FailedStep
  <2>4. CASE UNCHANGED rankVars
    BY <2>4 DEF rankVars, RankInv, RankTyped, SnapshotsAreLast, HistoriesHold, ReportsHold, DeltasHold
  <2> QED BY <2>1, <2>2, <2>3, <2>4 DEF RankNext
<1> QED BY <1>1, RankStarts, PTL DEF RankSpec

LEMMA RankIs == RankInv => AlertsAreTrue
<1> SUFFICES ASSUME RankInv PROVE AlertsAreTrue
  OBVIOUS
<1>1. RankTyped /\ SnapshotsAreLast /\ HistoriesHold /\ ReportsHold /\ DeltasHold
  BY DEF RankInv
<1>2. RankTypeOK
  <2>1. ASSUME NEW e \in Engine PROVE snapshot[e] = <<>> \/ snapshot[e][1] \in Page
    <3>1. CASE trail[e] = <<>>
      BY <1>1, <3>1 DEF SnapshotsAreLast
    <3>2. CASE trail[e] # <<>>
      <4>1. trail[e] \in Seq(Page)
        BY <1>1 DEF RankTyped
      <4>2. Len(trail[e]) \in Nat \ {0}
        BY <3>2, <4>1, EmptySeq, Zenon
      <4>3. trail[e][Len(trail[e])] \in Page
        BY <4>1, <4>2
      <4> QED BY <1>1, <3>2, <4>3 DEF SnapshotsAreLast
    <3> QED BY <3>1, <3>2
  <2> QED BY <1>1, <2>1 DEF RankTypeOK, RankTyped
<1>3. DropsAreTheFalls
  BY <1>1, Zenon DEF HistoriesHold, DropsAre, DropsAreTheFalls
<1>4. OvertakingIsAlerted
  <2> SUFFICES ASSUME NEW e \in Engine PROVE Len(alerts[e]["overtake"]) >= Cardinality(PassesOf(trail[e]))
    BY DEF OvertakingIsAlerted
  <2>1. Cardinality(PassesOf(trail[e])) <= Len(alerts[e]["overtake"])
    BY <1>1 DEF HistoriesHold, PassesAre
  <2>2. Len(alerts[e]["overtake"]) \in Nat
    <3>1. alerts[e]["overtake"] \in Seq(Alert)
      BY <1>1 DEF RankTyped, Kind
    <3> QED BY <3>1
  <2>3. Cardinality(PassesOf(trail[e])) \in Nat
    <3>1. PassesOf(trail[e]) \subseteq 1..Len(trail[e]) - 1 /\ Len(trail[e]) - 1 \in Int
      BY <1>1 DEF PassesOf, RankTyped
    <3>2. IsFiniteSet(1..Len(trail[e]) - 1)
      BY <3>1, FS_Interval
    <3> QED BY <3>1, <3>2, FS_Subset, FS_CardinalityType
  <2> QED BY <2>1, <2>2, <2>3
<1>5. ComparesNeighbours
  <2>1. ASSUME NEW r \in Tracking, NEW e \in Engine
        PROVE  report[r][e] \in {Unasked, Errored} \/ \E i \in DOMAIN trail[e] : trail[e][i].ours = report[r][e]
    <3>1. DOMAIN trail[e] = 1..Len(trail[e])
      BY <1>1 DEF RankTyped
    <3> QED BY <1>1, <3>1 DEF ReportsHold
  <2>2. ASSUME NEW r \in Tracking, delta[r] # <<>>
        PROVE  ComparesAt(trail[delta[r][1].engine], delta[r][1])
    BY <1>1, <2>2 DEF DeltasHold
  <2> QED BY <2>1, <2>2 DEF ComparesNeighbours, ComparesAt
<1> QED BY <1>2, <1>3, <1>4, <1>5 DEF AlertsAreTrue

(***************************************************************************)
(* However calls of track_rankings overlap and their requests fail, for    *)
(* any engines, answers and thresholds: the drops that are alerted are the *)
(* falls between answers in a row, no overtaking is missed, and a          *)
(* comparison is one between neighbours (ScoutAgent.track_rankings and     *)
(* PositionChangeAlerter.evaluate).                                        *)
(***************************************************************************)
THEOREM AlertsStayTrue == RankSpec => []AlertsAreTrue
BY RankHolds, RankIs, PTL

(***************************************************************************)
(* TechnicalAudit.  The check in progress has an entry of every url that   *)
(* it has not left to do, the other checks have one of all urls or of      *)
(* none.  A page whose healing found nothing stays without an issue, since *)
(* a fix takes issues away and never brings one.                           *)
(***************************************************************************)
GoodFix(f) ==
    /\ f.issue \in DOMAIN Confidence
    /\ f.status = "applied" =>
          /\ autoHeal /\ Confidence[f.issue] >= threshold
          /\ f.issue = "missing_schema" => f.value = "graph"
HasEntry(c, u) == entries[c][u] # NoEntry
EntryFor(c, u, entry) ==
    /\ entry.status # "none"
    /\ c = "cwv" => \/ entry.status = "error"
                    \/ /\ entry.vitals \in Vitals /\ entry.status = CwvStatus(entry.vitals)
                       /\ entry.status # "good" => <<u, EventPriority(entry.status)>> \in told
    /\ (c = "healing" /\ entry.status = "healed") =>
          /\ \A f \in entry.fixes : <<u, f.issue>> \in told
          /\ entry.fixes = {} => DetectIssues(site[u]) = {}

AuditTyped ==
    /\ threshold \in Int /\ autoHeal \in BOOLEAN
    /\ site \in [AuditedUrl -> WebPage]
    /\ rest \in Seq(Check) /\ todo \in Seq(AuditedUrl)
    /\ entries = [c \in Check |-> [u \in AuditedUrl |-> entries[c][u]]]
InOrder ==
    /\ (task = "none") <=> (rest = <<>>)
    /\ (rest = <<>>) <=> (todo = <<>>)
    /\ fixes \subseteq fixSet /\ (fixSet # {} => Present("healing"))
FixesAreGood ==
    /\ \A f \in fixSet : GoodFix(f)
    /\ \A f \in fixSet \ fixes : <<Head(todo), f.issue>> \in told
    /\ \A e \in inbox : e[1] \in AuditedUrl /\ GoodFix(e[2])
AllOrNone(c) ==
    \A u, v \in AuditedUrl : HasEntry(c, u) => HasEntry(c, v)
ChecksProceed ==
    \A c \in Check :
        /\ Present(c) => \A u \in AuditedUrl : HasEntry(c, u) \/ u \in ToSet(todo)
        /\ ~Present(c) => AllOrNone(c)
EntriesAreGood ==
    \A c \in Check, u \in AuditedUrl : HasEntry(c, u) => EntryFor(c, u, entries[c][u])

AuditInv == AuditTyped /\ InOrder /\ FixesAreGood /\ ChecksProceed /\ EntriesAreGood

\* What a page shows, and what its penalties are.
LEMMA IssuesAre ==
    /\ DOMAIN Confidence = {"missing_title", "missing_meta_desc", "missing_h1",
                            "missing_alt_text", "broken_canonical", "missing_schema"}
    /\ \A i \in DOMAIN Confidence : Confidence[i] \in Int
BY DEF Confidence

LEMMA FieldsAre ==
    ASSUME NEW p \in WebPage
    PROVE  /\ p.title \in {"ok", "long", "missing"} /\ p.desc \in {"ok", "long", "blank", "missing"}
           /\ p.h1 \in Nat /\ p.noAlt \in Nat /\ p.canonical \in BOOLEAN
           /\ p.schema \in {"none", "graph", "single", "untyped_graph", "junk", "array"}
           /\ p.og \in BOOLEAN /\ p.viewport \in BOOLEAN /\ p.https \in BOOLEAN
BY DEF WebPage

LEMMA PointsAre ==
    ASSUME NEW p \in WebPage
    PROVE  /\ Penalty(p).title \in {0, 5, 15} /\ Penalty(p).desc \in {0, 3, 10}
           /\ Penalty(p).h1 \in {0, 5, 10} /\ Penalty(p).canonical \in {0, 5}
           /\ Penalty(p).viewport \in {0, 10} /\ Penalty(p).schema \in {0, 5}
           /\ Penalty(p).og \in {0, 3} /\ Penalty(p).alt \in 0..10 /\ Penalty(p).https \in {0, 15}
<1>1. AltPenalty(p.noAlt) \in 0..10
  BY FieldsAre DEF AltPenalty
<1>2. Penalty(p).title \in {0, 5, 15} /\ Penalty(p).desc \in {0, 3, 10}
  BY DEF Penalty
<1>3. Penalty(p).h1 \in {0, 5, 10} /\ Penalty(p).canonical \in {0, 5}
  BY DEF Penalty
<1>4. Penalty(p).viewport \in {0, 10} /\ Penalty(p).schema \in {0, 5}
  BY DEF Penalty
<1>5. Penalty(p).og \in {0, 3} /\ Penalty(p).alt \in 0..10 /\ Penalty(p).https \in {0, 15}
  BY <1>1 DEF Penalty
<1> QED BY <1>2, <1>3, <1>4, <1>5

LEMMA ScoreInRange ==
    ASSUME NEW p \in WebPage
    PROVE  Score(p) \in 0..100
BY PointsAre DEF Score

LEMMA NoLessPoints ==
    ASSUME NEW p \in WebPage, NEW q \in WebPage,
           Penalty(q).title <= Penalty(p).title, Penalty(q).desc <= Penalty(p).desc,
           Penalty(q).h1 <= Penalty(p).h1, Penalty(q).canonical <= Penalty(p).canonical,
           Penalty(q).viewport <= Penalty(p).viewport, Penalty(q).schema <= Penalty(p).schema,
           Penalty(q).og <= Penalty(p).og, Penalty(q).alt <= Penalty(p).alt,
           Penalty(q).https <= Penalty(p).https
    PROVE  Score(q) >= Score(p)
<1>1. /\ Penalty(p).title \in Int /\ Penalty(p).desc \in Int /\ Penalty(p).h1 \in Int
      /\ Penalty(p).canonical \in Int /\ Penalty(p).viewport \in Int /\ Penalty(p).schema \in Int
      /\ Penalty(p).og \in Int /\ Penalty(p).alt \in Int /\ Penalty(p).https \in Int
  BY PointsAre
<1>2. /\ Penalty(q).title \in Int /\ Penalty(q).desc \in Int /\ Penalty(q).h1 \in Int
      /\ Penalty(q).canonical \in Int /\ Penalty(q).viewport \in Int /\ Penalty(q).schema \in Int
      /\ Penalty(q).og \in Int /\ Penalty(q).alt \in Int /\ Penalty(q).https \in Int
  BY PointsAre
<1> QED BY <1>1, <1>2 DEF Score

\* A page without an issue loses nothing for what could be healed.
LEMMA CleanPage ==
    ASSUME NEW p \in WebPage, DetectIssues(p) = {}
    PROVE  /\ Penalty(p).title <= 5 /\ Penalty(p).desc <= 3 /\ Penalty(p).h1 <= 5
           /\ Penalty(p).canonical + Penalty(p).schema + Penalty(p).alt = 0
<1>1. \A i \in DOMAIN Confidence : i \notin DetectIssues(p)
  OBVIOUS
<1>2. p.title # "missing" /\ ~Blank(p.desc) /\ p.h1 # 0
  BY <1>1, IssuesAre DEF DetectIssues
<1>3. ~(p.noAlt > 0) /\ p.canonical /\ p.schema # "none"
  BY <1>1, IssuesAre DEF DetectIssues
<1>4. Penalty(p).title <= 5 /\ Penalty(p).desc <= 3
  BY <1>2 DEF Penalty, Blank
<1>5. Penalty(p).h1 <= 5
  BY <1>2 DEF Penalty
<1>6. p.noAlt = 0
  BY <1>3, FieldsAre
<1>7. AltPenalty(p.noAlt) = 0
  BY <1>6 DEF AltPenalty
<1>8. Penalty(p).canonical = 0 /\ Penalty(p).schema = 0 /\ Penalty(p).alt = 0
  BY <1>3, <1>7 DEF Penalty
<1> QED BY <1>4, <1>5, <1>8

\* What a fix of issue i makes of page p.
Heals(i, p, q) ==
    /\ q \in WebPage
    /\ (i = "missing_title" /\ q.title = "ok") \/ q.title = p.title
    /\ (i = "missing_meta_desc" /\ q.desc = "ok") \/ q.desc = p.desc
    /\ (i = "missing_h1" /\ p.h1 = 0 /\ q.h1 = 1) \/ q.h1 = p.h1
    /\ (i = "missing_alt_text" /\ q.noAlt <= p.noAlt) \/ q.noAlt = p.noAlt
    /\ (p.canonical => q.canonical) /\ (q.canonical => p.canonical \/ i = "broken_canonical")
    /\ (i = "missing_schema" /\ p.schema = "none" /\ q.schema = "graph") \/ q.schema = p.schema
    /\ q.og = p.og /\ q.viewport = p.viewport /\ q.https = p.https

LEMMA HealedIs ==
    ASSUME NEW p \in WebPage, NEW f, GoodFix(f), f.status = "applied"
    PROVE  Heals(f.issue, p, Healed(p, f))
<1>1. f.issue \in {"missing_title", "missing_meta_desc", "missing_h1",
                   "missing_alt_text", "broken_canonical", "missing_schema"}
  BY IssuesAre DEF GoodFix
<1>2. CASE f.issue = "missing_title"
  BY <1>2 DEF Heals, Healed, WebPage
<1>3. CASE f.issue = "missing_meta_desc"
  BY <1>3 DEF Heals, Healed, WebPage
<1>4. CASE f.issue = "missing_h1"
  BY <1>4 DEF Heals, Healed, WebPage
<1>5. CASE f.issue = "missing_alt_text"
  <2>1. PICK n \in Nat : n <= p.noAlt /\ n = IF p.noAlt > ImageCap THEN p.noAlt - ImageCap ELSE 0
    BY FieldsAre, AuditAssumption
  <2>2. Healed(p, f) = [p EXCEPT !.noAlt = n]
    BY <1>5, <2>1 DEF Healed
  <2> QED BY <1>5, <2>1, <2>2 DEF Heals, WebPage
<1>6. CASE f.issue = "broken_canonical"
  BY <1>6 DEF Heals, Healed, WebPage
<1>7. CASE f.issue = "missing_schema"
  <2>1. f.value = "graph"
    BY <1>7 DEF GoodFix
  <2> QED BY <1>7, <2>1 DEF Heals, Healed, WebPage
<1> QED BY <1>1, <1>2, <1>3, <1>4, <1>5, <1>6, <1>7

LEMMA HealsScore ==
    ASSUME NEW p \in WebPage, NEW q, NEW i, Heals(i, p, q)
    PROVE  Score(q) >= Score(p)
<1>1. q \in WebPage
  BY DEF Heals
<1>2. Penalty(q).title <= Penalty(p).title /\ Penalty(q).desc <= Penalty(p).desc
  BY DEF Heals, Penalty
<1>3. Penalty(q).h1 <= Penalty(p).h1 /\ Penalty(q).canonical <= Penalty(p).canonical
  BY DEF Heals, Penalty
<1>4. Penalty(q).viewport <= Penalty(p).viewport /\ Penalty(q).schema <= Penalty(p).schema
  BY DEF Heals, Penalty
<1>5. Penalty(q).og <= Penalty(p).og /\ Penalty(q).https <= Penalty(p).https
  BY DEF Heals, Penalty
<1>6. AltPenalty(q.noAlt) <= AltPenalty(p.noAlt)
  <2>1. q.noAlt \in Nat /\ p.noAlt \in Nat /\ q.noAlt <= p.noAlt
    BY <1>1, FieldsAre DEF Heals
  <2> QED BY <2>1 DEF AltPenalty
<1>7. Penalty(q).alt <= Penalty(p).alt
  BY <1>6 DEF Penalty
<1> QED BY <1>1, <1>2, <1>3, <1>4, <1>5, <1>7, NoLessPoints

LEMMA HealsIssues ==
    ASSUME NEW p \in WebPage, NEW q, NEW i, Heals(i, p, q)
    PROVE  /\ DetectIssues(q) \subseteq DetectIssues(p)
           /\ DetectIssues(p) \ DetectIssues(q) \subseteq {i}
<1>1. q \in WebPage
  BY DEF Heals
<1>2. ASSUME NEW j \in DOMAIN Confidence
      PROVE  /\ j \in DetectIssues(q) => j \in DetectIssues(p)
             /\ (j \in DetectIssues(p) /\ j # i) => j \in DetectIssues(q)
  <2>1. j \in {"missing_title", "missing_meta_desc", "missing_h1",
               "missing_alt_text", "broken_canonical", "missing_schema"}
    BY IssuesAre
  <2>2. CASE j = "missing_title"
    BY <2>2, <1>2 DEF Heals, DetectIssues
  <2>3. CASE j = "missing_meta_desc"
    BY <2>3, <1>2 DEF Heals, DetectIssues, Blank
  <2>4. CASE j = "missing_h1"
    BY <2>4, <1>2 DEF Heals, DetectIssues
  <2>5. CASE j = "missing_alt_text"
    BY <2>5, <1>1, <1>2, FieldsAre DEF Heals, DetectIssues
  <2>6. CASE j = "broken_canonical"
    BY <2>6, <1>2 DEF Heals, DetectIssues
  <2>7. CASE j = "missing_schema"
    BY <2>7, <1>2 DEF Heals, DetectIssues
  <2> QED BY <2>1, <2>2, <2>3, <2>4, <2>5, <2>6, <2>7
<1>3. DetectIssues(p) \subseteq DOMAIN Confidence /\ DetectIssues(q) \subseteq DOMAIN Confidence
  BY DEF DetectIssues
<1> QED BY <1>2, <1>3

\* A fix is for an issue, and applied only with confidence.
LEMMA FixIsGood ==
    ASSUME threshold \in Int, autoHeal \in BOOLEAN, NEW p \in WebPage, NEW i \in DOMAIN Confidence
    PROVE  GoodFix(Fix(i, p)) /\ Fix(i, p).issue = i
<1>1. Fix(i, p).issue = i
  BY DEF Fix
<1>2. ASSUME Fix(i, p).status = "applied" PROVE ~Unsure(i) /\ autoHeal
  BY <1>2 DEF Fix
<1>3. ASSUME ~Unsure(i) PROVE Confidence[i] >= threshold
  BY <1>3, IssuesAre DEF Unsure
<1>4. "Organization" \in GraphTypes({})
  BY DEF GraphTypes
<1>5. ASSUME ~Unsure(i), i = "missing_schema" PROVE Fix(i, p).value = "graph"
  BY <1>4, <1>5 DEF Fix
<1> QED BY <1>1, <1>2, <1>3, <1>5 DEF GoodFix

\* A measurement that is no better in any metric has no better status.
LEMMA StatusFollows ==
    ASSUME NEW v \in Vitals, NEW w \in Vitals,
           \A m \in DOMAIN v : m \in DOMAIN w /\ Rank[v[m]] <= Rank[w[m]]
    PROVE  Rank[CwvStatus(v)] <= Rank[CwvStatus(w)]
<1> DEFINE poor(x) == {m \in DOMAIN x : x[m] = "poor"}
           fair(x) == {m \in DOMAIN x : x[m] = "needs_improvement"}
<1>1. /\ IsFiniteSet(DOMAIN v) /\ \A m \in DOMAIN v : v[m] \in Grade
      /\ IsFiniteSet(DOMAIN w) /\ \A m \in DOMAIN w : w[m] \in Grade
  BY AuditAssumption
<1>2. poor(v) \subseteq poor(w)
  BY <1>1 DEF Rank, Grade
<1>3. fair(v) \subseteq fair(w) \cup poor(w)
  BY <1>1 DEF Rank, Grade
<1>4. /\ IsFiniteSet(poor(w)) /\ IsFiniteSet(fair(w)) /\ IsFiniteSet(poor(v)) /\ IsFiniteSet(fair(v))
  <2>1. poor(w) \subseteq DOMAIN w /\ fair(w) \subseteq DOMAIN w
        /\ poor(v) \subseteq DOMAIN v /\ fair(v) \subseteq DOMAIN v
    OBVIOUS
  <2> QED BY <1>1, <2>1, FS_Subset
<1>5. /\ Cardinality(poor(w)) \in Nat /\ Cardinality(fair(w)) \in Nat
      /\ Cardinality(poor(v)) \in Nat /\ Cardinality(fair(v)) \in Nat
  BY <1>4, FS_CardinalityType
<1>6. Cardinality(poor(v)) <= Cardinality(poor(w))
  BY <1>2, <1>4, FS_Subset
<1>7. ASSUME Cardinality(poor(w)) = 0 PROVE Cardinality(fair(v)) <= Cardinality(fair(w))
  <2>1. poor(w) = {}
    BY <1>4, <1>7, FS_EmptySet
  <2>2. fair(v) \subseteq fair(w)
    BY <1>3, <2>1
  <2> QED BY <1>4, <2>2, FS_Subset
<1> DEFINE status(a, b) == IF a >= 2 THEN "poor"
                           ELSE IF a >= 1 \/ b >= 2 THEN "needs_improvement" ELSE "good"
<1>8. /\ CwvStatus(v) = status(Cardinality(poor(v)), Cardinality(fair(v)))
      /\ CwvStatus(w) = status(Cardinality(poor(w)), Cardinality(fair(w)))
  BY DEF CwvStatus
<1>9. ASSUME NEW a \in Nat, NEW b \in Nat, NEW c \in Nat, NEW d \in Nat, a <= c, c = 0 => b <= d
      PROVE  Rank[status(a, b)] <= Rank[status(c, d)]
  BY <1>9 DEF Rank
<1> HIDE DEF poor, fair, status
<1> QED BY <1>5, <1>6, <1>7, <1>8, <1>9

\* The parts of the lists in progress.
LEMMA HeadAndTail ==
    ASSUME NEW S, NEW q \in Seq(S), q # <<>>
    PROVE  /\ Head(q) \in S /\ Tail(q) \in Seq(S) /\ Head(q) \in ToSet(q)
           /\ (Tail(q) = <<>>) <=> ~(Len(q) > 1)
           /\ \A x \in ToSet(q) : x = Head(q) \/ (Len(q) > 1 /\ x \in ToSet(Tail(q)))
<1>1. Len(q) \in Nat \ {0} /\ DOMAIN q = 1..Len(q)
  <2>1. Len(q) \in Nat /\ DOMAIN q = 1..Len(q)
    OBVIOUS
  <2>2. Len(q) # 0
    BY EmptySeq, Zenon
  <2> QED BY <2>1, <2>2
<1>2. Head(q) = q[1] /\ Head(q) \in S /\ Tail(q) \in Seq(S) /\ Len(Tail(q)) = Len(q) - 1
  BY <1>1
<1>3. Head(q) \in ToSet(q)
  BY <1>1, <1>2 DEF ToSet
<1>4. (Tail(q) = <<>>) <=> ~(Len(q) > 1)
  <2>1. (Tail(q) = <<>>) <=> (Len(Tail(q)) = 0)
    BY <1>2, EmptySeq
  <2> QED BY <1>1, <1>2, <2>1
<1>5. ASSUME NEW i \in 2..Len(q) PROVE Len(q) > 1 /\ q[i] \in ToSet(Tail(q))
  <2>1. Len(q) > 1 /\ i - 1 \in 1..Len(Tail(q)) /\ i - 1 + 1 = i
    BY <1>1, <1>2
  <2>2. Tail(q)[i - 1] = q[i]
    BY <1>1, <1>2, <2>1
  <2>3. DOMAIN Tail(q) = 1..Len(Tail(q))
    BY <1>2
  <2> QED BY <2>1, <2>2, <2>3 DEF ToSet
<1>6. ASSUME NEW x \in ToSet(q) PROVE x = Head(q) \/ (Len(q) > 1 /\ x \in ToSet(Tail(q)))
  <2>1. PICK i \in 1..Len(q) : x = q[i]
    BY <1>1 DEF ToSet
  <2>2. i = 1 \/ i \in 2..Len(q)
    BY <1>1
  <2> QED BY <1>2, <1>5, <2>1, <2>2
<1> QED BY <1>2, <1>3, <1>4, <1>6

\* The entry of the first url of the check in progress.
LEMMA EnterStep ==
    ASSUME AuditInv, rest # <<>>, NEW c, c = Head(rest), NEW u, u = Head(todo), NEW entry, Enter(entry),
           UNCHANGED <<threshold, autoHeal, site>>, told \subseteq told',
           EntryFor(c, u, entry)',
           \A e \in inbox' : e[1] \in AuditedUrl /\ GoodFix(e[2])
    PROVE  AuditInv'
<1>1. AuditTyped /\ InOrder /\ FixesAreGood /\ ChecksProceed /\ EntriesAreGood
  BY DEF AuditInv
<1>2. rest \in Seq(Check) /\ todo \in Seq(AuditedUrl) /\ todo # <<>> /\ task # "none"
  BY <1>1 DEF AuditTyped, InOrder
<1>3. /\ c \in Check /\ Tail(rest) \in Seq(Check) /\ ((Tail(rest) = <<>>) <=> ~(Len(rest) > 1))
  BY <1>2, HeadAndTail
<1>4. /\ u \in AuditedUrl /\ Tail(todo) \in Seq(AuditedUrl) /\ ((Tail(todo) = <<>>) <=> ~(Len(todo) > 1))
      /\ \A x \in ToSet(todo) : x = u \/ (Len(todo) > 1 /\ x \in ToSet(Tail(todo)))
  BY <1>2, HeadAndTail
<1>5. Urls \in Seq(AuditedUrl) /\ Urls # <<>>
  <2>1. Urls \in Seq(AuditedUrl)
    BY AuditAssumption
  <2>2. ASSUME Urls = <<>> PROVE FALSE
    <3>1. AuditedUrl = {}
      BY <2>2 DEF AuditedUrl, ToSet
    <3> QED BY <1>4, <3>1
  <2> QED BY <2>1, <2>2
<1>6. /\ entries' = [entries EXCEPT ![c][u] = entry]
      /\ todo' = IF Len(todo) > 1 THEN Tail(todo) ELSE IF Len(rest) > 1 THEN Urls ELSE <<>>
      /\ rest' = IF Len(todo) > 1 THEN rest ELSE Tail(rest)
      /\ task' = IF rest' = <<>> THEN "none" ELSE task
      /\ fixes' = {} /\ fixSet' = {}
  BY Zenon DEF Enter
<1>7. /\ entries' = [b \in Check |-> [v \in AuditedUrl |-> entries'[b][v]]]
      /\ entries'[c][u] = entry
      /\ \A b \in Check, v \in AuditedUrl : (b = c /\ v = u) \/ entries'[b][v] = entries[b][v]
  <2>1. entries = [b \in Check |-> [v \in AuditedUrl |-> entries[b][v]]]
    BY <1>1 DEF AuditTyped
  <2> QED BY <1>3, <1>4, <1>6, <2>1
<1>8. rest' \in Seq(Check) /\ todo' \in Seq(AuditedUrl)
  <2>1. <<>> \in Seq(AuditedUrl)
    OBVIOUS
  <2> QED BY <1>2, <1>3, <1>4, <1>5, <1>6, <2>1
<1>9. AuditTyped'
  BY <1>1, <1>7, <1>8 DEF AuditTyped
<1>10. InOrder'
  <2>1. (rest' = <<>>) <=> (todo' = <<>>)
    <3>1. CASE Len(todo) > 1
      BY <1>4, <1>6, <3>1
    <3>2. CASE ~(Len(todo) > 1)
      BY <1>3, <1>5, <1>6, <3>2
    <3> QED BY <3>1, <3>2
  <2>2. (task' = "none") <=> (rest' = <<>>)
    BY <1>2, <1>6
  <2> QED BY <1>6, <2>1, <2>2 DEF InOrder
<1>11. FixesAreGood'
  <2>1. \A e \in inbox' : e[1] \in AuditedUrl /\ GoodFix(e[2])'
    BY DEF GoodFix
  <2> QED BY <1>6, <2>1 DEF FixesAreGood
<1>12. ASSUME NEW b \in Check, NEW v \in AuditedUrl, HasEntry(b, v)' PROVE EntryFor(b, v, entries[b][v])'
  <2>1. CASE b = c /\ v = u
    BY <1>7, <2>1
  <2>2. CASE ~(b = c /\ v = u)
    <3>1. entries'[b][v] = entries[b][v]
      BY <1>7, <2>2
    <3>2. EntryFor(b, v, entries[b][v])
      BY <1>1, <1>12, <3>1 DEF EntriesAreGood, HasEntry
    <3> QED BY <3>1, <3>2 DEF EntryFor, DetectIssues
  <2> QED BY <2>1, <2>2
<1>13. /\ HasEntry(c, u)'
       /\ \A b \in Check, v \in AuditedUrl : HasEntry(b, v) => HasEntry(b, v)'
       /\ \A b \in Check, v \in AuditedUrl : b # c => (HasEntry(b, v)' => HasEntry(b, v))
  <2>1. entry # NoEntry
    BY DEF EntryFor, NoEntry
  <2> QED BY <1>7, <2>1 DEF HasEntry
<1>14. \A v \in AuditedUrl : HasEntry(c, v) \/ v \in ToSet(todo)
  BY <1>1, <1>3 DEF ChecksProceed, Present
<1>15. CASE Len(todo) > 1
  <2>1. rest' = rest /\ todo' = Tail(todo)
    BY <1>6, <1>15
  <2>2. \A b \in Check : Present(b)' <=> b = c
    BY <2>1 DEF Present
  <2>3. \A v \in AuditedUrl : HasEntry(c, v)' \/ v \in ToSet(todo')
    <3>1. ASSUME NEW v \in AuditedUrl, v \in ToSet(todo) PROVE v = u \/ v \in ToSet(Tail(todo))
      BY <1>4, <3>1
    <3>2. ASSUME NEW v \in AuditedUrl PROVE HasEntry(c, v)' \/ v \in ToSet(Tail(todo))
      BY <1>3, <1>13, <1>14, <3>1, Zenon
    <3> QED BY <2>1, <3>2, Zenon
  <2>4. ASSUME NEW b \in Check, b # c PROVE AllOrNone(b)'
    <3>1. AllOrNone(b)
      BY <1>1, <2>4 DEF ChecksProceed, Present
    <3> QED BY <1>13, <2>4, <3>1 DEF AllOrNone
  <2>5. ChecksProceed'
    BY <2>2, <2>3, <2>4 DEF ChecksProceed
  <2> QED BY <1>9, <1>10, <1>11, <1>12, <2>5 DEF AuditInv, EntriesAreGood
<1>16. CASE ~(Len(todo) > 1)
  <2>1. todo' = Urls \/ rest' = <<>>
    BY <1>3, <1>6, <1>16
  <2>2. \A v \in AuditedUrl : HasEntry(c, v)'
    <3>1. ASSUME NEW v \in AuditedUrl, v \in ToSet(todo) PROVE v = u
      BY <1>4, <1>16, <3>1
    <3> QED BY <1>3, <1>13, <1>14, <3>1, Zenon
  <2>3. ASSUME NEW b \in Check PROVE AllOrNone(b)'
    <3>1. CASE b = c
      BY <2>2, <3>1 DEF AllOrNone
    <3>2. CASE b # c
      <4>1. AllOrNone(b)
        BY <1>1, <3>2 DEF ChecksProceed, Present
      <4> QED BY <1>13, <3>2, <4>1 DEF AllOrNone
    <3> QED BY <3>1, <3>2
  <2>4. ASSUME NEW b \in Check, Present(b)', NEW v \in AuditedUrl PROVE v \in ToSet(todo')
    BY <2>1, <2>4 DEF Present, AuditedUrl
  <2>5. ChecksProceed'
    BY <2>3, <2>4 DEF ChecksProceed
  <2> QED BY <1>9, <1>10, <1>11, <1>12, <2>5 DEF AuditInv, EntriesAreGood
<1> QED BY <1>15, <1>16

LEMMA BeginStep ==
    ASSUME AuditInv, NEW type, BeginTask(type)
    PROVE  AuditInv'
<1>1. AuditTyped /\ InOrder /\ FixesAreGood
  BY DEF AuditInv
<1>2. /\ rest' = IF Urls = <<>> THEN <<>> ELSE ChecksOf(type)
      /\ task' = IF rest' = <<>> THEN "none" ELSE type
      /\ todo' = IF rest' = <<>> THEN <<>> ELSE Urls
      /\ entries' = [c \in Check |-> [u \in AuditedUrl |-> NoEntry]] /\ told' = {}
      /\ UNCHANGED <<threshold, autoHeal, site, fixes, fixSet, inbox>>
      /\ task = "none"
  BY DEF BeginTask
<1>3. ChecksOf(type) \in Seq(Check) /\ (ChecksOf(type) # <<>> => type # "none")
  <2>1. /\ <<"cwv">> \in Seq(Check) /\ <<"schema">> \in Seq(Check) /\ <<"healing">> \in Seq(Check)
        /\ <<"cwv", "validation">> \in Seq(Check) /\ <<>> \in Seq(Check)
    BY DEF Check
  <2>2. PICK more : more = IF autoHeal THEN <<"healing">> ELSE <<>>
    OBVIOUS
  <2>3. more \in Seq(Check)
    BY <2>1, <2>2
  <2>4. <<"cwv", "validation">> \o more \in Seq(Check)
    BY <2>1, <2>3, ConcatProperties, Zenon
  <2>5. \/ type \in {"cwv_check", "schema_validation", "self_heal"} /\ ChecksOf(type) \in Seq(Check)
        \/ type = "tech_audit" /\ ChecksOf(type) = <<"cwv", "validation">> \o more
        \/ ChecksOf(type) = <<>>
    BY <2>1, <2>2, Zenon DEF ChecksOf
  <2> QED BY <2>1, <2>4, <2>5
<1>4. Urls \in Seq(AuditedUrl) /\ <<>> \in Seq(AuditedUrl) /\ <<>> \in Seq(Check)
  BY AuditAssumption
<1>5. AuditTyped'
  BY <1>1, <1>2, <1>3, <1>4 DEF AuditTyped
<1>6. fixSet = {} /\ fixes = {}
  BY <1>1, <1>2 DEF InOrder, Present
<1>7. InOrder'
  BY <1>2, <1>3, <1>6 DEF InOrder
<1>8. FixesAreGood'
  BY <1>1, <1>2, <1>6 DEF FixesAreGood, GoodFix
<1>9. \A c \in Check, u \in AuditedUrl : ~HasEntry(c, u)'
  BY <1>2 DEF HasEntry
<1>10. ASSUME NEW c \in Check, Present(c)', NEW u \in AuditedUrl PROVE u \in ToSet(todo')
  BY <1>2, <1>10 DEF Present, AuditedUrl
<1> QED BY <1>5, <1>7, <1>8, <1>9, <1>10, Zenon DEF AuditInv, ChecksProceed, AllOrNone, EntriesAreGood

LEMMA FailedCheckStep ==
    ASSUME AuditInv, CheckFailed
    PROVE  AuditInv'
<1>1. /\ rest # <<>> /\ Enter([status |-> "error"])
      /\ UNCHANGED <<threshold, autoHeal, site, inbox, told, rounds>>
  BY DEF CheckFailed
<1>2. PICK c, u : c = Head(rest) /\ u = Head(todo)
  OBVIOUS
<1>3. EntryFor(c, u, [status |-> "error"])'
  BY DEF EntryFor
<1>4. \A e \in inbox' : e[1] \in AuditedUrl /\ GoodFix(e[2])
  BY <1>1 DEF AuditInv, FixesAreGood
<1> QED BY <1>1, <1>2, <1>3, <1>4, EnterStep

LEMMA MeasuredStep ==
    ASSUME AuditInv, Measured
    PROVE  AuditInv'
<1>1. PICK v \in Vitals :
         /\ Enter([status |-> CwvStatus(v), vitals |-> v])
         /\ told' = IF CwvStatus(v) = "good" THEN told
                    ELSE told \cup {<<Head(todo), EventPriority(CwvStatus(v))>>}
  BY DEF Measured
<1>2. Present("cwv") /\ UNCHANGED <<threshold, autoHeal, site, inbox>>
  BY DEF Measured
<1>3. PICK c, u : c = Head(rest) /\ u = Head(todo)
  OBVIOUS
<1>4. c = "cwv" /\ rest # <<>>
  BY <1>2, <1>3 DEF Present
<1> DEFINE entry == [status |-> CwvStatus(v), vitals |-> v]
<1>5. EntryFor(c, u, entry)'
  <2>1. CwvStatus(v) \in Grade
    BY DEF CwvStatus, Grade
  <2>2. entry.status = CwvStatus(v) /\ entry.vitals = v
    OBVIOUS
  <2>3. CwvStatus(v) # "good" => <<u, EventPriority(CwvStatus(v))>> \in told'
    BY <1>1, <1>3
  <2>4. CwvStatus(v) # "none"
    BY <2>1 DEF Grade
  <2> QED BY <1>4, <2>2, <2>3, <2>4 DEF EntryFor
<1>6. \A e \in inbox' : e[1] \in AuditedUrl /\ GoodFix(e[2])
  BY <1>2 DEF AuditInv, FixesAreGood
<1>7. told \subseteq told'
  BY <1>1
<1> QED BY <1>1, <1>2, <1>3, <1>4, <1>5, <1>6, <1>7, EnterStep

LEMMA LookedStep ==
    ASSUME AuditInv, SchemaChecked \/ Validated
    PROVE  AuditInv'
<1>1. PICK entry : Enter(entry) /\ entry.status \notin {"none", "healed"} /\ Head(rest) # "cwv"
  <2>1. CASE SchemaChecked
    <3>1. SchemaEntry(site[Head(todo)].schema) \in {"no_schema", "valid", "invalid", "invalid_json", "error"}
      <4>1. Head(todo) \in AuditedUrl
        <5>1. todo \in Seq(AuditedUrl) /\ todo # <<>>
          BY <2>1 DEF AuditInv, AuditTyped, InOrder, SchemaChecked, Present
        <5> QED BY <5>1, HeadAndTail
      <4>2. site[Head(todo)] \in WebPage
        BY <4>1 DEF AuditInv, AuditTyped
      <4> QED BY <4>2, FieldsAre DEF SchemaEntry
    <3> QED BY <2>1, <3>1 DEF SchemaChecked, Present
  <2>2. CASE Validated
    BY <2>2 DEF Validated, Present
  <2> QED BY <2>1, <2>2
<1>2. rest # <<>> /\ UNCHANGED <<threshold, autoHeal, site, inbox, told>>
  BY DEF SchemaChecked, Validated, Present
<1>3. PICK c, u : c = Head(rest) /\ u = Head(todo)
  OBVIOUS
<1>4. EntryFor(c, u, entry)'
  BY <1>1, <1>3 DEF EntryFor
<1>5. \A e \in inbox' : e[1] \in AuditedUrl /\ GoodFix(e[2])
  BY <1>2 DEF AuditInv, FixesAreGood
<1> QED BY <1>1, <1>2, <1>3, <1>4, <1>5, EnterStep

LEMMA InspectedStep ==
    ASSUME AuditInv, Inspected
    PROVE  AuditInv'
<1>1. AuditTyped /\ InOrder /\ FixesAreGood /\ ChecksProceed /\ EntriesAreGood
  BY DEF AuditInv
<1>2. /\ Present("healing") /\ fixSet = {} /\ rest # <<>> /\ Head(rest) = "healing"
      /\ UNCHANGED <<threshold, autoHeal, site, inbox, told>>
  BY DEF Inspected, Present
<1>3. PICK c, u : c = Head(rest) /\ u = Head(todo)
  OBVIOUS
<1>4. u \in AuditedUrl /\ site[u] \in WebPage
  <2>1. todo \in Seq(AuditedUrl) /\ todo # <<>>
    BY <1>1, <1>2 DEF AuditTyped, InOrder
  <2>2. u \in AuditedUrl
    BY <1>3, <2>1, HeadAndTail
  <2> QED BY <1>1, <2>2 DEF AuditTyped
<1>5. PICK found : found = {Fix(i, site[u]) : i \in DetectIssues(site[u])}
  OBVIOUS
<1>6. \A f \in found : GoodFix(f)
  <2>1. \A i \in DetectIssues(site[u]) : i \in DOMAIN Confidence
    BY DEF DetectIssues
  <2> QED BY <1>1, <1>4, <1>5, <2>1, FixIsGood DEF AuditTyped
<1>7. \/ found = {} /\ Enter([status |-> "healed", fixes |-> {}])
      \/ fixes' = found /\ fixSet' = found /\ UNCHANGED <<entries, todo, rest, task>>
  BY <1>3, <1>5 DEF Inspected
<1>8. CASE found = {} /\ Enter([status |-> "healed", fixes |-> {}])
  <2>1. DetectIssues(site[u]) = {}
    BY <1>5, <1>8
  <2>2. DetectIssues(site[u])' = {}
    BY <1>2, <2>1 DEF DetectIssues
  <2>3. EntryFor(c, u, [status |-> "healed", fixes |-> {}])'
    BY <1>2, <1>3, <2>2 DEF EntryFor
  <2>4. \A e \in inbox' : e[1] \in AuditedUrl /\ GoodFix(e[2])
    BY <1>1, <1>2 DEF FixesAreGood
  <2> QED BY <1>2, <1>3, <1>8, <2>3, <2>4, EnterStep
<1>9. CASE fixes' = found /\ fixSet' = found /\ UNCHANGED <<entries, todo, rest, task>>
  <2>1. AuditTyped'
    BY <1>1, <1>2, <1>9 DEF AuditTyped
  <2>2. InOrder'
    BY <1>1, <1>2, <1>9 DEF InOrder, Present
  <2>3. FixesAreGood'
    BY <1>1, <1>2, <1>6, <1>9 DEF FixesAreGood, GoodFix
  <2>4. ChecksProceed'
    BY <1>1, <1>9 DEF ChecksProceed, Present, AllOrNone, HasEntry
  <2>5. EntriesAreGood'
    <3>1. ASSUME NEW b \in Check, NEW v \in AuditedUrl, HasEntry(b, v)' PROVE EntryFor(b, v, entries[b][v])'
      <4>1. EntryFor(b, v, entries[b][v])
        BY <1>1, <1>9, <3>1 DEF EntriesAreGood, HasEntry
      <4> QED BY <1>2, <1>9, <4>1 DEF EntryFor, DetectIssues
    <3> QED BY <3>1 DEF EntriesAreGood
  <2> QED BY <2>1, <2>2, <2>3, <2>4, <2>5 DEF AuditInv
<1> QED BY <1>7, <1>8, <1>9

LEMMA FixSentStep ==
    ASSUME AuditInv, FixSent
    PROVE  AuditInv'
<1>1. AuditTyped /\ InOrder /\ FixesAreGood /\ ChecksProceed /\ EntriesAreGood
  BY DEF AuditInv
<1>2. /\ fixes # {} /\ rest # <<>> /\ Head(rest) = "healing" /\ Present("healing")
      /\ UNCHANGED <<threshold, autoHeal, site>>
  BY DEF FixSent, Present
<1>3. PICK c, u : c = Head(rest) /\ u = Head(todo)
  OBVIOUS
<1>4. u \in AuditedUrl
  <2>1. todo \in Seq(AuditedUrl) /\ todo # <<>>
    BY <1>1, <1>2 DEF AuditTyped, InOrder
  <2> QED BY <1>3, <2>1, HeadAndTail
<1>5. PICK fix : fix = CHOOSE f \in fixes : TRUE
  OBVIOUS
<1>6. fix \in fixes /\ fix \in fixSet
  BY <1>1, <1>2, <1>5 DEF InOrder
<1>7. /\ inbox' = inbox \cup {<<u, fix>>} /\ told' = told \cup {<<u, fix.issue>>}
      /\ IF fixes = {fix} THEN Enter([status |-> "healed", fixes |-> fixSet])
         ELSE fixes' = fixes \ {fix} /\ UNCHANGED <<entries, todo, rest, task, fixSet>>
  BY <1>3, <1>5, Zenon DEF FixSent
<1>8. \A e \in inbox' : e[1] \in AuditedUrl /\ GoodFix(e[2])
  BY <1>1, <1>4, <1>6, <1>7 DEF FixesAreGood
<1>9. \A f \in fixSet \ (fixes \ {fix}) : <<u, f.issue>> \in told'
  BY <1>1, <1>3, <1>7 DEF FixesAreGood
<1>10. CASE fixes = {fix}
  <2>1. PICK entry : entry = [status |-> "healed", fixes |-> fixSet]
    OBVIOUS
  <2>2. entry.status = "healed" /\ entry.fixes = fixSet /\ entry.fixes # {}
    BY <1>6, <2>1
  <2>3. \A f \in entry.fixes : <<u, f.issue>> \in told'
    BY <1>9, <1>10, <2>2
  <2>4. EntryFor(c, u, entry)'
    BY <1>2, <1>3, <2>2, <2>3 DEF EntryFor
  <2>5. told \subseteq told'
    BY <1>7
  <2>6. Enter(entry)
    BY <1>7, <1>10, <2>1
  <2> QED BY <1>2, <1>3, <1>8, <2>4, <2>5, <2>6, EnterStep
<1>11. CASE fixes # {fix}
  <2>1. fixes' = fixes \ {fix} /\ UNCHANGED <<entries, todo, rest, task, fixSet>>
    BY <1>7, <1>11
  <2>2. AuditTyped'
    BY <1>1, <1>2, <2>1 DEF AuditTyped
  <2>3. InOrder'
    BY <1>1, <2>1 DEF InOrder, Present
  <2>4. FixesAreGood'
    <3>1. \A f \in fixSet' : GoodFix(f)'
      BY <1>1, <1>2, <2>1 DEF FixesAreGood, GoodFix
    <3>2. \A e \in inbox' : e[1] \in AuditedUrl /\ GoodFix(e[2])'
      BY <1>2, <1>8 DEF GoodFix
    <3>3. Head(todo)' = u
      BY <1>3, <2>1
    <3>4. \A f \in fixSet' \ fixes' : <<Head(todo)', f.issue>> \in told'
      BY <1>9, <2>1, <3>3
    <3> QED BY <3>1, <3>2, <3>4 DEF FixesAreGood
  <2>5. ChecksProceed'
    BY <1>1, <2>1 DEF ChecksProceed, Present, AllOrNone, HasEntry
  <2>6. EntriesAreGood'
    <3>1. ASSUME NEW b \in Check, NEW v \in AuditedUrl, HasEntry(b, v)' PROVE EntryFor(b, v, entries[b][v])'
      <4>1. EntryFor(b, v, entries[b][v])
        BY <1>1, <2>1, <3>1 DEF EntriesAreGood, HasEntry
      <4> QED BY <1>2, <1>7, <2>1, <4>1 DEF EntryFor, DetectIssues
    <3> QED BY <3>1 DEF EntriesAreGood
  <2> QED BY <2>2, <2>3, <2>4, <2>5, <2>6 DEF AuditInv
<1> QED BY <1>10, <1>11

\* What the executor makes of the pages, whenever it handles an event.
LEMMA HandledHeals ==
    ASSUME AuditInv, Handled, NEW u \in AuditedUrl
    PROVE  /\ site' \in [AuditedUrl -> WebPage]
           /\ \/ site'[u] = site[u]
              \/ \E f : /\ GoodFix(f) /\ f.status = "applied"
                        /\ Heals(f.issue, site[u], site'[u])
<1>1. PICK e \in inbox : site' = IF e[2].status # "applied" THEN site
                                 ELSE [site EXCEPT ![e[1]] = Healed(@, e[2])]
  BY DEF Handled
<1>2. e[1] \in AuditedUrl /\ GoodFix(e[2]) /\ site \in [AuditedUrl -> WebPage]
  BY DEF AuditInv, FixesAreGood, AuditTyped
<1>3. CASE e[2].status = "applied"
  <2>1. site[e[1]] \in WebPage
    BY <1>2
  <2>2. Heals(e[2].issue, site[e[1]], Healed(site[e[1]], e[2]))
    BY <1>2, <1>3, <2>1, HealedIs
  <2>3. site' = [site EXCEPT ![e[1]] = Healed(site[e[1]], e[2])]
    BY <1>1, <1>3
  <2>4. site' \in [AuditedUrl -> WebPage]
    BY <1>2, <2>2, <2>3 DEF Heals
  <2>5. CASE u = e[1]
    BY <1>2, <1>3, <2>2, <2>3, <2>4, <2>5, Zenon
  <2>6. CASE u # e[1]
    BY <1>2, <2>3, <2>4, <2>6
  <2> QED BY <2>5, <2>6
<1>4. CASE e[2].status # "applied"
  BY <1>1, <1>2, <1>4
<1> QED BY <1>3, <1>4

LEMMA HandledStep ==
    ASSUME AuditInv, Handled
    PROVE  AuditInv'
<1>1. AuditTyped /\ InOrder /\ FixesAreGood /\ ChecksProceed /\ EntriesAreGood
  BY DEF AuditInv
<1>2. /\ inbox' \subseteq inbox
      /\ UNCHANGED <<threshold, autoHeal, task, rest, todo, fixes, fixSet, entries, told>>
  BY DEF Handled
<1>3. AuditTyped'
  <2>1. site' \in [AuditedUrl -> WebPage]
    <3>1. CASE AuditedUrl = {}
      BY <1>1, <3>1 DEF Handled, AuditTyped
    <3>2. CASE AuditedUrl # {}
      BY <3>2, HandledHeals
    <3> QED BY <3>1, <3>2
  <2> QED BY <1>1, <1>2, <2>1 DEF AuditTyped
<1>4. InOrder'
  BY <1>1, <1>2 DEF InOrder, Present
<1>5. FixesAreGood'
  BY <1>1, <1>2 DEF FixesAreGood, GoodFix
<1>6. ChecksProceed'
  BY <1>1, <1>2 DEF ChecksProceed, Present, AllOrNone, HasEntry
<1>7. EntriesAreGood'
  <2>1. ASSUME NEW v \in AuditedUrl, DetectIssues(site[v]) = {} PROVE DetectIssues(site'[v]) = {}
    <3>1. CASE site'[v] = site[v]
      BY <2>1, <3>1
    <3>2. CASE site'[v] # site[v]
      <4>1. PICK f : Heals(f.issue, site[v], site'[v])
        BY <3>2, HandledHeals
      <4>2. site[v] \in WebPage
        BY <1>1 DEF AuditTyped
      <4> QED BY <2>1, <4>1, <4>2, HealsIssues
    <3> QED BY <3>1, <3>2
  <2>2. ASSUME NEW b \in Check, NEW v \in AuditedUrl, HasEntry(b, v)' PROVE EntryFor(b, v, entries[b][v])'
    <3>1. EntryFor(b, v, entries[b][v])
      BY <1>1, <1>2, <2>2 DEF EntriesAreGood, HasEntry
    <3>2. DetectIssues(site[v])' = DetectIssues(site'[v])
      BY DEF DetectIssues
    <3> QED BY <1>2, <2>1, <3>1, <3>2 DEF EntryFor
  <2> QED BY <2>2 DEF EntriesAreGood
<1> QED BY <1>3, <1>4, <1>5, <1>6, <1>7 DEF AuditInv

LEMMA AuditStarts == AuditInit => AuditInv
<1> SUFFICES ASSUME AuditInit PROVE AuditInv
  OBVIOUS
<1>1. /\ threshold \in Int /\ autoHeal \in BOOLEAN /\ site \in [AuditedUrl -> WebPage]
      /\ task = "none" /\ rest = <<>> /\ todo = <<>> /\ fixes = {} /\ fixSet = {} /\ inbox = {}
      /\ entries = [c \in Check |-> [u \in AuditedUrl |-> NoEntry]]
  BY AuditAssumption DEF AuditInit
<1>2. AuditTyped /\ InOrder /\ FixesAreGood
  BY <1>1 DEF AuditTyped, InOrder, FixesAreGood
<1>3. \A c \in Check, u \in AuditedUrl : ~HasEntry(c, u)
  BY <1>1 DEF HasEntry
<1>4. \A c \in Check : ~Present(c)
  BY <1>1 DEF Present
<1> QED BY <1>2, <1>3, <1>4, Zenon DEF AuditInv, ChecksProceed, AllOrNone, EntriesAreGood

LEMMA AuditHolds == AuditSpec => []AuditInv
<1>1. AuditInv /\ [AuditNext]_auditVars => AuditInv'
  <2> SUFFICES ASSUME AuditInv, [AuditNext]_auditVars PROVE AuditInv'
    OBVIOUS
  <2>1. ASSUME NEW type \in Tasks, BeginTask(type) PROVE AuditInv'
    BY <2>1, BeginStep
  <2>2. CASE CheckFailed
    BY <2>2, FailedCheckStep
  <2>3. CASE Measured
    BY <2>3, MeasuredStep
  <2>4. CASE SchemaChecked \/ Validated
    BY <2>4, LookedStep
  <2>5. CASE Inspected
    BY <2>5, InspectedStep
  <2>6. CASE FixSent
    BY <2>6, FixSentStep
  <2>7. CASE Handled
    BY <2>7, HandledStep
  <2>8. CASE UNCHANGED auditVars
    <3>1. UNCHANGED <<threshold, autoHeal, site, task, rest, todo, fixes, fixSet, inbox, entries, told>>
      BY <2>8 DEF auditVars
    <3>2. AuditTyped' /\ InOrder' /\ FixesAreGood'
      BY <3>1 DEF AuditInv, AuditTyped, InOrder, FixesAreGood, GoodFix, Present
    <3>3. ChecksProceed'
      BY <3>1 DEF AuditInv, ChecksProceed, Present, AllOrNone, HasEntry
    <3>4. EntriesAreGood'
      BY <3>1 DEF AuditInv, EntriesAreGood, HasEntry, EntryFor, DetectIssues
    <3> QED BY <3>2, <3>3, <3>4 DEF AuditInv
  <2> QED BY <2>1, <2>2, <2>3, <2>4, <2>5, <2>6, <2>7, <2>8 DEF AuditNext
<1> QED BY <1>1, AuditStarts, PTL DEF AuditSpec

LEMMA AuditIs == AuditInv => AuditIsTruthful
<1> SUFFICES ASSUME AuditInv PROVE AuditIsTruthful
  OBVIOUS
<1>1. AuditTyped /\ InOrder /\ ChecksProceed /\ EntriesAreGood
  BY DEF AuditInv
<1>2. AuditTypeOK
  <2>1. \A u \in AuditedUrl : site[u] \in WebPage
    BY <1>1 DEF AuditTyped
  <2> QED BY <1>1, <2>1, ScoreInRange DEF AuditTypeOK, InOrder
<1>3. EveryUrlHasItsEntry
  <2>1. ASSUME NEW c \in Check, task = "none" PROVE AllOrNone(c)
    <3>1. ~Present(c)
      BY <1>1, <2>1 DEF InOrder, Present
    <3> QED BY <1>1, <3>1 DEF ChecksProceed
  <2> QED BY <2>1 DEF AllOrNone, HasEntry, EveryUrlHasItsEntry
<1>4. /\ \A u \in AuditedUrl : entries["cwv"][u].status # "none" => EntryFor("cwv", u, entries["cwv"][u])
      /\ \A u \in AuditedUrl : entries["healing"][u].status # "none"
                                  => EntryFor("healing", u, entries["healing"][u])
  BY <1>1 DEF EntriesAreGood, HasEntry, NoEntry, Check
<1>5. ReportedIsAnnounced
  <2> SUFFICES ASSUME NEW u \in AuditedUrl
      PROVE /\ entries["cwv"][u].status = "poor" => <<u, "P0">> \in told
            /\ entries["cwv"][u].status = "needs_improvement" => <<u, "P1">> \in told
            /\ entries["healing"][u].status = "healed" =>
                  \A f \in entries["healing"][u].fixes : <<u, f.issue>> \in told
    BY Zenon DEF ReportedIsAnnounced
  <2>1. entries["cwv"][u].status = "poor" => <<u, "P0">> \in told
    BY <1>4 DEF EntryFor, EventPriority
  <2>2. entries["cwv"][u].status = "needs_improvement" => <<u, "P1">> \in told
    BY <1>4 DEF EntryFor, EventPriority
  <2>3. entries["healing"][u].status = "healed" =>
           \A f \in entries["healing"][u].fixes : <<u, f.issue>> \in told
    BY <1>4 DEF EntryFor
  <2> QED BY <2>1, <2>2, <2>3
<1>6. WorseVitalsLookNoBetter
  <2>1. ASSUME NEW u \in AuditedUrl, NEW a, a = entries["cwv"][u], a.status \in DOMAIN Rank
        PROVE  a.vitals \in Vitals /\ a.status = CwvStatus(a.vitals)
    <3>1. a.status \in {"good", "needs_improvement", "poor"}
      BY <2>1 DEF Rank
    <3> QED BY <1>4, <2>1, <3>1 DEF EntryFor
  <2>2. ASSUME NEW u \in AuditedUrl, NEW v \in AuditedUrl, NEW a, a = entries["cwv"][u],
               NEW b, b = entries["cwv"][v], a.status \in DOMAIN Rank, b.status \in DOMAIN Rank,
               \A m \in DOMAIN a.vitals : m \in DOMAIN b.vitals /\ Rank[a.vitals[m]] <= Rank[b.vitals[m]]
        PROVE  Rank[a.status] <= Rank[b.status]
    <3>1. /\ a.vitals \in Vitals /\ a.status = CwvStatus(a.vitals)
          /\ b.vitals \in Vitals /\ b.status = CwvStatus(b.vitals)
      BY <2>1, <2>2
    <3> QED BY <2>2, <3>1, StatusFollows
  <2> QED BY <2>2, Zenon DEF WorseVitalsLookNoBetter
<1>7. CleanMeansNoMissingTag
  <2>1. ASSUME NEW u \in AuditedUrl, entries["healing"][u].status = "healed",
               entries["healing"][u].fixes = {}
        PROVE  site[u] \in WebPage /\ DetectIssues(site[u]) = {}
    BY <1>1, <1>4, <2>1 DEF EntryFor, AuditTyped
  <2> QED BY <2>1, CleanPage, Zenon DEF CleanMeansNoMissingTag
<1> QED BY <1>2, <1>3, <1>5, <1>6, <1>7 DEF AuditIsTruthful

(***************************************************************************)
(* For any urls, pages, measurements and thresholds, whatever fails and    *)
(* whenever the fixes are applied: a check reports every url, nothing is   *)
(* reported that was not announced, worse vitals look no better, and a     *)
(* page whose healing found nothing has nothing to heal                    *)
(* (TechnicalAgent.execute).                                               *)
(***************************************************************************)
THEOREM AuditsAreTruthful == AuditSpec => []AuditIsTruthful
BY AuditHolds, AuditIs, PTL

(***************************************************************************)
(* However late a fix arrives, the score of its page does not fall, and    *)
(* only the issue it was made for disappears, with the confidence that the *)
(* agent was configured for (SelfHealingEngine.generate_fix).              *)
(***************************************************************************)
THEOREM FixesOnlyImprove == AuditSpec => HealingImproves
<1> DEFINE Improves ==
       \A u \in AuditedUrl :
          /\ Score(site'[u]) >= Score(site[u])
          /\ \A i \in DetectIssues(site[u]) \ DetectIssues(site'[u]) :
                autoHeal /\ Confidence[i] >= threshold
<1>1. ASSUME AuditInv, AuditNext PROVE Improves
  <2>1. \A u \in AuditedUrl : site[u] \in WebPage
    BY <1>1 DEF AuditInv, AuditTyped
  <2> SUFFICES ASSUME NEW u \in AuditedUrl
      PROVE  /\ Score(site'[u]) >= Score(site[u])
             /\ \A i \in DetectIssues(site[u]) \ DetectIssues(site'[u]) :
                   autoHeal /\ Confidence[i] >= threshold
    BY Zenon
  <2>2. CASE site'[u] = site[u]
    <3>1. Score(site[u]) \in Int
      BY <2>1, ScoreInRange
    <3> QED BY <2>2, <3>1
  <2>3. CASE site'[u] # site[u]
    <3>1. Handled
      BY <1>1, <2>3 DEF AuditNext, BeginTask, CheckFailed, Measured, SchemaChecked, Validated,
                        Inspected, FixSent
    <3>2. PICK f : GoodFix(f) /\ f.status = "applied" /\ Heals(f.issue, site[u], site'[u])
      BY <1>1, <2>3, <3>1, HandledHeals
    <3>3. Score(site'[u]) >= Score(site[u])
      BY <2>1, <3>2, HealsScore
    <3>4. DetectIssues(site[u]) \ DetectIssues(site'[u]) \subseteq {f.issue}
      BY <2>1, <3>2, HealsIssues
    <3>5. autoHeal /\ Confidence[f.issue] >= threshold
      BY <3>2 DEF GoodFix
    <3> QED BY <3>3, <3>4, <3>5
  <2> QED BY <2>2, <2>3
<1>3. AuditInv /\ [AuditNext]_auditVars => [Improves]_auditVars
  BY <1>1
<1> QED BY <1>3, AuditHolds, PTL DEF AuditSpec, HealingImproves

(***************************************************************************)
(* ContentAudit: clusters.  A keyword with words is in the first cluster   *)
(* to whose key it is related; keys differ and have no word in common.     *)
(***************************************************************************)
InPlace(cs, i, kw) ==
    \/ Related(cs[i][1], kw) /\ \A j \in DOMAIN cs : j < i => ~Related(cs[j][1], kw)
    \/ kw = {} /\ cs[i][1] = {}

Apart(cs) ==
    /\ \A i, j \in DOMAIN cs : i # j => cs[i][1] \cap cs[j][1] = {} /\ cs[i][1] # cs[j][1]
    /\ \A i \in DOMAIN cs : \A kw \in ToSet(cs[i][2]) : InPlace(cs, i, kw)

\* An entry more makes the set of the entries larger by it.
LEMMA EntriesOfLonger ==
    ASSUME NEW W, NEW s \in Seq(W), NEW w \in W
    PROVE  Append(s, w) \in Seq(W) /\ ToSet(Append(s, w)) \subseteq ToSet(s) \cup {w}
<1>1. /\ Append(s, w) \in Seq(W) /\ DOMAIN Append(s, w) = 1..Len(s) + 1
      /\ DOMAIN s = 1..Len(s) /\ Len(s) \in Nat
      /\ \A i \in 1..Len(s) : Append(s, w)[i] = s[i]
      /\ Append(s, w)[Len(s) + 1] = w
  OBVIOUS
<1>2. \A i \in 1..Len(s) + 1 : i = Len(s) + 1 \/ i \in 1..Len(s)
  BY <1>1
<1> QED BY <1>1, <1>2 DEF ToSet

\* A keyword that is related to a key.
LEMMA JoinsFirst ==
    ASSUME NEW W, NEW cs \in Seq(W \X Seq(W)), NEW kw \in W, Apart(cs),
           NEW p \in DOMAIN cs, Related(cs[p][1], kw)
    PROVE  Placed(cs, kw) \in Seq(W \X Seq(W)) /\ Apart(Placed(cs, kw))
<1> DEFINE places == {i \in DOMAIN cs : Related(cs[i][1], kw)}
<1>1. DOMAIN cs = 1..Len(cs) /\ Len(cs) \in Nat
  OBVIOUS
<1>2. PICK m \in places : m = Min(places) /\ \A j \in places : m <= j
  <2>1. places \in SUBSET Nat /\ places # {}
    BY <1>1
  <2>2. \E i \in places : \A j \in places : i <= j
    BY <2>1, FirstExists
  <2> QED BY <2>2 DEF Min
<1>3. m \in DOMAIN cs /\ Related(cs[m][1], kw)
      /\ \A j \in DOMAIN cs : j < m => ~Related(cs[j][1], kw)
  <2>1. m \in DOMAIN cs /\ Related(cs[m][1], kw)
    BY <1>2
  <2>2. ASSUME NEW j \in DOMAIN cs, j < m, Related(cs[j][1], kw)
        PROVE  FALSE
    <3>1. m <= j
      BY <1>2, <2>2
    <3> QED BY <3>1, <2>2, <1>1
  <2> QED BY <2>1, <2>2
<1>4. PICK key \in W, members \in Seq(W) : cs[m] = <<key, members>>
  BY <1>3
<1>5. cs[m][1] = key /\ cs[m][2] = members
  BY <1>4
<1> DEFINE r == [cs EXCEPT ![m] = <<key, Append(members, kw)>>]
<1>6. Placed(cs, kw) = r
  BY <1>2, <1>5 DEF Placed
<1> HIDE DEF places
<1>7. /\ Append(members, kw) \in Seq(W) /\ ToSet(Append(members, kw)) \subseteq ToSet(members) \cup {kw}
  BY EntriesOfLonger
<1>8. /\ r \in Seq(W \X Seq(W)) /\ DOMAIN r = DOMAIN cs
      /\ \A i \in DOMAIN cs : i # m => r[i] = cs[i]
      /\ r[m][1] = key /\ r[m][2] = Append(members, kw)
  <2>1. <<key, Append(members, kw)>> \in W \X Seq(W)
    BY <1>7
  <2>2. r \in Seq(W \X Seq(W)) /\ DOMAIN r = DOMAIN cs
    BY <2>1, <1>3
  <2>3. /\ \A i \in DOMAIN cs : i # m => r[i] = cs[i]
        /\ r[m] = <<key, Append(members, kw)>>
    BY <1>3
  <2> QED BY <2>2, <2>3
<1> HIDE DEF r
<1>9. \A i \in DOMAIN cs : r[i][1] = cs[i][1]
  BY <1>5, <1>8
<1>10. \A i \in DOMAIN cs : \A w : InPlace(cs, i, w) => InPlace(r, i, w)
  BY <1>8, <1>9, Zenon DEF InPlace
<1>11. ASSUME NEW i \in DOMAIN r, NEW w \in ToSet(r[i][2])
       PROVE  InPlace(r, i, w)
  <2>1. CASE i # m
    BY <2>1, <1>8, <1>10, <1>11, Zenon DEF Apart
  <2>2. CASE i = m /\ w = kw
    BY <2>2, <1>3, <1>8, <1>10 DEF InPlace
  <2>3. CASE i = m /\ w # kw
    <3>1. w \in ToSet(cs[m][2])
      BY <2>3, <1>5, <1>7, <1>8, <1>11
    <3> QED BY <3>1, <2>3, <1>3, <1>10, Zenon DEF Apart
  <2> QED BY <2>1, <2>2, <2>3
<1>12. Apart(r)
  BY <1>8, <1>9, <1>11, Zenon DEF Apart
<1> QED BY <1>6, <1>8, <1>12

\* A keyword that becomes a key.
LEMMA BecomesKey ==
    ASSUME NEW W, NEW cs \in Seq(W \X Seq(W)), NEW kw \in W, Apart(cs),
           \A i \in DOMAIN cs : ~Related(cs[i][1], kw) /\ cs[i][1] # kw
    PROVE  Placed(cs, kw) \in Seq(W \X Seq(W)) /\ Apart(Placed(cs, kw))
<1> DEFINE r == Append(cs, <<kw, <<kw>>>>)
           n == Len(cs)
<1>1. Placed(cs, kw) = r
  <2>1. {i \in DOMAIN cs : Related(cs[i][1], kw)} = {} /\ ~ \E i \in DOMAIN cs : cs[i][1] = kw
    OBVIOUS
  <2> QED BY <2>1 DEF Placed
<1>2. /\ <<kw>> \in Seq(W) /\ ToSet(<<kw>>) = {kw}
      /\ <<kw, <<kw>>>> \in W \X Seq(W)
  <2>1. <<kw>> \in Seq(W)
    OBVIOUS
  <2>2. DOMAIN <<kw>> = 1..1 /\ <<kw>>[1] = kw /\ 1..1 = {1}
    OBVIOUS
  <2>3. ToSet(<<kw>>) = {kw}
    <3>1. ASSUME NEW s, DOMAIN s = {1}, s[1] = kw
          PROVE  ToSet(s) = {kw}
      BY <3>1 DEF ToSet
    <3> QED BY <3>1, <2>2, Zenon
  <2>4. <<kw, <<kw>>>> \in W \X Seq(W)
    BY <2>1
  <2> QED BY <2>1, <2>3, <2>4
<1>3. /\ n \in Nat /\ DOMAIN cs = 1..n
      /\ r \in Seq(W \X Seq(W)) /\ DOMAIN r = 1..n + 1
      /\ \A i \in 1..n : r[i] = cs[i]
      /\ r[n + 1] = <<kw, <<kw>>>>
  BY <1>2
<1>4. r[n + 1][1] = kw /\ r[n + 1][2] = <<kw>>
  BY <1>3
<1> HIDE DEF r, n
<1>5. \A i \in DOMAIN r : i \in DOMAIN cs \/ i = n + 1
  BY <1>3
<1>6. \A i \in DOMAIN cs : i # n + 1 /\ i < n + 1 /\ ~(n + 1 < i) /\ i \in DOMAIN r
  BY <1>3
<1>7. ASSUME NEW i \in DOMAIN r, NEW j \in DOMAIN r, i # j
      PROVE  r[i][1] \cap r[j][1] = {} /\ r[i][1] # r[j][1]
  <2>1. CASE i \in DOMAIN cs /\ j \in DOMAIN cs
    BY <2>1, <1>3, <1>7 DEF Apart
  <2>2. CASE i = n + 1 \/ j = n + 1
    BY <2>2, <1>3, <1>4, <1>5, <1>7 DEF Related
  <2> QED BY <2>1, <2>2, <1>5
<1>8. ASSUME NEW i \in DOMAIN r, NEW w \in ToSet(r[i][2])
      PROVE  InPlace(r, i, w)
  <2>1. CASE i \in DOMAIN cs
    <3>1. InPlace(cs, i, w)
      BY <2>1, <1>3, <1>8, Zenon DEF Apart
    <3>2. \A j \in DOMAIN r : j < i => j \in DOMAIN cs
      BY <2>1, <1>5, <1>6
    <3> QED BY <3>1, <3>2, <2>1, <1>3, Zenon DEF InPlace
  <2>2. CASE i = n + 1
    <3>1. w = kw /\ r[i][1] = kw
      BY <2>2, <1>2, <1>4, <1>8
    <3>2. \A j \in DOMAIN r : j < i => j \in DOMAIN cs /\ r[j] = cs[j]
      BY <2>2, <1>3
    <3>3. \A j \in DOMAIN r : j < i => ~Related(r[j][1], w)
      BY <3>1, <3>2
    <3>4. Related(kw, kw) \/ kw = {}
      BY DEF Related
    <3> QED BY <3>1, <3>3, <3>4, Zenon DEF InPlace
  <2> QED BY <2>1, <2>2, <1>5
<1>9. Apart(r)
  BY <1>7, <1>8, Zenon DEF Apart
<1> QED BY <1>1, <1>3, <1>9

\* Every keyword finds its place.
LEMMA PlacedIs ==
    ASSUME NEW W, NEW cs \in Seq(W \X Seq(W)), NEW kw \in W, Apart(cs)
    PROVE  Placed(cs, kw) \in Seq(W \X Seq(W)) /\ Apart(Placed(cs, kw))
<1>1. CASE \E i \in DOMAIN cs : Related(cs[i][1], kw)
  BY <1>1, JoinsFirst
<1>2. CASE \A i \in DOMAIN cs : ~Related(cs[i][1], kw) /\ cs[i][1] # kw
  BY <1>2, BecomesKey
<1>3. CASE /\ \A i \in DOMAIN cs : ~Related(cs[i][1], kw)
           /\ \E i \in DOMAIN cs : cs[i][1] = kw
  <2>1. {i \in DOMAIN cs : Related(cs[i][1], kw)} = {}
    BY <1>3
  <2>2. Placed(cs, kw) = cs
    BY <2>1, <1>3 DEF Placed
  <2> QED BY <2>2
<1> QED BY <1>1, <1>2, <1>3

(***************************************************************************)
(* The clusters after n of the keywords are those after n - 1 and the      *)
(* n-th in its place: a function that says so exists for any prefix, or    *)
(* there were a shortest one without.                                      *)
(***************************************************************************)
Steps(q, n, g) ==
    g = [k \in 0..n |-> IF k = 0 THEN <<>> ELSE Placed(g[k - 1], q[k])]

LEMMA StepsExist ==
    ASSUME NEW q, NEW n \in Nat
    PROVE  \E g : Steps(q, n, g)
<1> DEFINE Without == {k \in Nat : ~ \E g : Steps(q, k, g)}
<1>1. SUFFICES ASSUME Without # {} PROVE FALSE
  BY <1>1
<1>2. PICK k \in Without : \A j \in Without : k <= j
  BY <1>1, FirstExists
<1>3. CASE k = 0
  <2> DEFINE g == [i \in 0..0 |-> <<>>]
  <2>1. g = [i \in 0..0 |-> IF i = 0 THEN <<>> ELSE Placed(g[i - 1], q[i])]
    OBVIOUS
  <2>2. Steps(q, k, g)
    BY <2>1, <1>3 DEF Steps
  <2> QED BY <2>2, <1>2
<1>4. CASE k # 0
  <2>1. k - 1 \in Nat /\ k - 1 \notin Without
    BY <1>2, <1>4
  <2>2. PICK h : Steps(q, k - 1, h)
    BY <2>1
  <2> DEFINE g == [i \in 0..k |-> IF i = k THEN Placed(h[k - 1], q[k]) ELSE h[i]]
  <2>3. /\ \A i \in 0..k - 1 : h[i] = IF i = 0 THEN <<>> ELSE Placed(h[i - 1], q[i])
    BY <2>2, Zenon DEF Steps
  <2>4. ASSUME NEW i \in 0..k
        PROVE  g[i] = IF i = 0 THEN <<>> ELSE Placed(g[i - 1], q[i])
    <3>1. CASE i = k
      <4>1. g[i - 1] = h[k - 1]
        BY <3>1, <1>4, <2>1
      <4> QED BY <4>1, <3>1, <1>4
    <3>2. CASE i # k /\ i = 0
      BY <3>2, <2>3, <2>1
    <3>3. CASE i # k /\ i # 0
      <4>1. i \in 0..k - 1 /\ i - 1 \in 0..k /\ i - 1 # k
        BY <3>3, <2>1, <1>2
      <4>2. g[i - 1] = h[i - 1] /\ g[i] = h[i]
        BY <4>1, <3>3
      <4> QED BY <4>1, <4>2, <2>3, <3>3
    <3> QED BY <3>1, <3>2, <3>3
  <2>5. Steps(q, k, g)
    <3>1. g = [i \in 0..k |-> g[i]]
      OBVIOUS
    <3> HIDE DEF g
    <3> QED BY <3>1, <2>4 DEF Steps
  <2> QED BY <2>5, <1>2
<1> QED BY <1>3, <1>4

\* Whatever the keywords, the clusters are apart.
LEMMA ClusteredIs ==
    ASSUME NEW W, NEW q \in Seq(W)
    PROVE  Clustered(q) \in Seq(W \X Seq(W)) /\ Apart(Clustered(q))
<1> DEFINE found == CHOOSE g : Steps(q, Len(q), g)
<1>1. Len(q) \in Nat
  OBVIOUS
<1>2. Steps(q, Len(q), found)
  BY <1>1, StepsExist
<1>3. Clustered(q) = found[Len(q)]
  BY DEF Clustered, Steps
<1> HIDE DEF found
<1>4. \A k \in 0..Len(q) : found[k] = IF k = 0 THEN <<>> ELSE Placed(found[k - 1], q[k])
  BY <1>2, Zenon DEF Steps
<1> DEFINE Good(k) == found[k] \in Seq(W \X Seq(W)) /\ Apart(found[k])
           Bad == {k \in 0..Len(q) : ~Good(k)}
<1>5. Bad = {}
  <2>1. SUFFICES ASSUME Bad # {} PROVE FALSE
    OBVIOUS
  <2>2. Bad \in SUBSET Nat
    BY <1>1
  <2>3. PICK k \in Bad : \A j \in Bad : k <= j
    BY <2>1, <2>2, FirstExists
  <2>4. Good(0)
    <3>1. found[0] = <<>>
      BY <1>1, <1>4
    <3>2. <<>> \in Seq(W \X Seq(W)) /\ DOMAIN <<>> = {}
      OBVIOUS
    <3> QED BY <3>1, <3>2 DEF Apart
  <2>5. k \in 0..Len(q) /\ k # 0 /\ k - 1 \in 0..Len(q) /\ k - 1 \notin Bad /\ k \in 1..Len(q)
    BY <2>3, <2>4, <1>1
  <2>6. Good(k - 1)
    BY <2>5
  <2>7. found[k] = Placed(found[k - 1], q[k]) /\ q[k] \in W
    BY <2>5, <1>4
  <2>8. Good(k)
    BY <2>6, <2>7, PlacedIs, Zenon
  <2> QED BY <2>3, <2>8
<1>6. Good(Len(q))
  <2>1. Len(q) \in 0..Len(q)
    BY <1>1
  <2> QED BY <2>1, <1>5
<1> QED BY <1>3, <1>6

(***************************************************************************)
(* ContentAudit: pages.  What each recommendation asked for stays on the   *)
(* page once it was followed.                                              *)
(***************************************************************************)
Settled(p, signal) ==
    CASE signal = "question_answer_format" -> p.questions >= 3
      [] signal = "featured_snippet_ready" -> p.opening = 40 /\ p.paragraphs > 0
      [] signal = "citation_worthiness" -> {"data", "statistics"} \subseteq p.marks
      [] signal = "passage_independence" -> p.topical >= 2 /\ p.paragraphs > 0
      [] signal = "freshness_signals" -> "recent" \in p.marks
      [] OTHER -> FALSE

PageInv ==
    /\ page \in AuditedPage /\ Countable(page)
    /\ \A signal \in followed : Settled(page, signal) \/ (signal = "passage_independence" /\ alone)
    /\ KeysShareNoWord

\* What was answered is not recommended.
LEMMA SettledIsSilent ==
    ASSUME NEW p \in AuditedPage, NEW signal, Settled(p, signal)
    PROVE  signal \notin Recommended(p)
<1> DEFINE points == AiPoints(p)
<1>1. /\ p.marks \in SUBSET Mark /\ p.questions \in Nat /\ p.opening \in Nat /\ p.bullets \in Nat
      /\ p.numbered \in Nat /\ p.topical \in Nat /\ p.paragraphs \in Nat /\ p.external \in Nat
  BY DEF AuditedPage
<1>2. SUFFICES points[signal] \in Nat /\ points[signal] >= 500
  <2>1. ~Weak(points[signal])
    BY <1>2 DEF Weak
  <2> QED BY <2>1 DEF Recommended
<1>3. CASE signal = "question_answer_format"
  <2>1. points[signal] = 200 + Bonus(p.questions >= 3, 30) + Bonus(p.questions >= 5, 20)
           + Marked(p, "faq", 30)
    BY <1>3 DEF AiPoints
  <2>2. p.questions >= 3
    BY <1>3 DEF Settled
  <2> QED BY <2>1, <2>2, <1>1 DEF Bonus, Marked
<1>4. CASE signal = "featured_snippet_ready"
  <2>1. points[signal] = 200 + Bonus(p.paragraphs > 0 /\ p.opening \in 40..60, 40)
           + Bonus(p.bullets >= 3, 20) + Bonus(p.numbered >= 3, 20)
    BY <1>4 DEF AiPoints
  <2>2. p.paragraphs > 0 /\ p.opening \in 40..60
    BY <1>4 DEF Settled
  <2> QED BY <2>1, <2>2, <1>1 DEF Bonus
<1>5. CASE signal = "citation_worthiness"
  <2>1. points[signal] = 200 + Bonus(p.external >= 3, 30) + Marked(p, "data", 30)
           + Marked(p, "statistics", 20)
    BY <1>5 DEF AiPoints
  <2>2. "data" \in p.marks /\ "statistics" \in p.marks
    BY <1>5 DEF Settled
  <2> QED BY <2>1, <2>2, <1>1 DEF Bonus, Marked
<1>6. CASE signal = "passage_independence"
  <2>1. p.topical >= 2 /\ p.paragraphs > 0
    BY <1>6 DEF Settled
  <2>2. points[signal] = 300 + Bonus(p.paragraphs >= 5, 30) + p.topical * 133
    BY <1>6, <2>1, <1>1 DEF AiPoints
  <2> QED BY <2>1, <2>2, <1>1 DEF Bonus
<1>7. CASE signal = "freshness_signals"
  <2>1. points[signal] = 300 + Marked(p, "recent", 40) + Marked(p, "date_markup", 30)
    BY <1>7 DEF AiPoints
  <2>2. "recent" \in p.marks
    BY <1>7 DEF Settled
  <2> QED BY <2>1, <2>2, <1>1 DEF Bonus, Marked
<1> QED BY <1>3, <1>4, <1>5, <1>6, <1>7 DEF Settled

\* What a total is rounded to.
LEMMA RoundedIs ==
    ASSUME NEW n \in Nat
    PROVE  Rounded(n) \in Nat /\ Rounded(n) * 100 <= n + 50
<1>1. Min({n, 100000}) = IF n <= 100000 THEN n ELSE 100000
  BY MinOfTwo
<1> QED BY <1>1 DEF Rounded

\* A share of 500 points.
LEMMA ShareOfPoints ==
    ASSUME NEW m \in Nat, NEW n \in Nat \ {0}, m <= n
    PROVE  (m * 500) \div n \in 0..500
<1>1. PICK k \in Nat : k = m * 500
  OBVIOUS
<1>2. k <= n * 500
  BY <1>1
<1>3. k \div n \in Int /\ n * (k \div n) <= k /\ k \div n >= 0
  BY <1>1
<1>4. PICK d \in Nat : d = k \div n
  BY <1>3
<1>5. n * d <= n * 500
  BY <1>2, <1>3, <1>4
<1>6. d <= 500
  <2>1. SUFFICES ASSUME d >= 501 PROVE FALSE
    BY <1>4
  <2>2. n * d >= n * 501
    BY <2>1
  <2> QED BY <2>2, <1>5
<1> QED BY <1>1, <1>4, <1>6

(***************************************************************************)
(* A page without a word is short of the points of P3, whatever its marks: *)
(* its Google score is 79.5 at most.                                       *)
(***************************************************************************)
LEMMA GoogleWithoutText ==
    ASSUME NEW p \in AuditedPage, Countable(p), p.words = 0
    PROVE  GoogleTotal(GooglePoints(p)) \in Nat /\ GoogleTotal(GooglePoints(p)) <= 795
<1> DEFINE g == GooglePoints(p)
<1>1. /\ p.marks \in SUBSET Mark /\ p.h1 \in Nat /\ p.h2 \in Nat /\ p.internal \in Nat
      /\ p.images \in Nat /\ p.alt \in Nat /\ p.paragraphs = 0 /\ p.alt <= p.images
  BY DEF AuditedPage, Countable
<1>2. g.title_optimization \in Nat /\ g.title_optimization <= 1000 /\ g.meta_description \in Nat /\ g.meta_description <= 1000
  BY <1>1 DEF GooglePoints, Marked, Bonus
<1>3. g.heading_structure \in Nat /\ g.heading_structure <= 1000
  BY <1>1 DEF GooglePoints, Bonus
<1>4. g.content_depth \in Nat /\ g.content_depth <= 200 /\ g.keyword_usage \in Nat /\ g.keyword_usage <= 500
  BY <1>1 DEF GooglePoints, Bonus
<1>5. g.internal_linking \in Nat /\ g.internal_linking <= 1000
  BY <1>1 DEF GooglePoints, Bonus
<1>6. g.image_optimization \in Nat /\ g.image_optimization <= 1000
  <2>1. CASE p.images = 0
    BY <2>1 DEF GooglePoints
  <2>2. CASE p.images # 0
    <3>0. PICK m \in Nat, n \in Nat : m = p.alt /\ n = p.images
      BY <1>1
    <3>1. (m * 500) \div n \in 0..500
      <4>1. m \in Nat /\ n \in Nat \ {0} /\ m <= n
        BY <3>0, <1>1, <2>2
      <4> QED BY <4>1, ShareOfPoints
    <3>2. PICK d \in 0..500 : d = (p.alt * 500) \div p.images
      BY <3>0, <3>1
    <3>3. g.image_optimization = 500 + d
      BY <3>2, <2>2 DEF GooglePoints
    <3> QED BY <3>3
  <2> QED BY <2>1, <2>2
<1>7. g.eeat_signals \in Nat /\ g.eeat_signals <= 1000 /\ g.url_structure \in Nat /\ g.url_structure <= 1000
  BY <1>1 DEF GooglePoints, Marked, Bonus
<1>8. g.mobile_readability \in Nat /\ g.mobile_readability <= 1000 /\ g.schema_markup \in Nat /\ g.schema_markup <= 1000
  BY <1>1 DEF GooglePoints, Marked, Bonus
<1>9. g.page_speed_correlation = 500
  BY DEF GooglePoints
<1> HIDE DEF g
<1>a. PICK a \in Nat, b \in Nat :
         /\ a = g.title_optimization /\ a <= 1000
         /\ b = g.meta_description /\ b <= 1000
  BY <1>2
<1>b. PICK c \in Nat :
         /\ c = g.heading_structure /\ c <= 1000
  BY <1>3
<1>c. PICK d \in Nat, e \in Nat :
         /\ d = g.content_depth /\ d <= 200
         /\ e = g.keyword_usage /\ e <= 500
  BY <1>4
<1>d. PICK f \in Nat, h \in Nat :
         /\ f = g.internal_linking /\ f <= 1000
         /\ h = g.image_optimization /\ h <= 1000
  BY <1>5, <1>6
<1>e. PICK i \in Nat, j \in Nat :
         /\ i = g.eeat_signals /\ i <= 1000
         /\ j = g.url_structure /\ j <= 1000
  BY <1>7
<1>f. PICK k \in Nat, l \in Nat :
         /\ k = g.mobile_readability /\ k <= 1000
         /\ l = g.schema_markup /\ l <= 1000
  BY <1>8
<1>10. /\ a = g.title_optimization /\ b = g.meta_description /\ c = g.heading_structure
       /\ d = g.content_depth /\ e = g.keyword_usage /\ f = g.internal_linking
       /\ h = g.image_optimization /\ i = g.eeat_signals /\ j = g.url_structure
       /\ k = g.mobile_readability /\ l = g.schema_markup
  BY <1>a, <1>b, <1>c, <1>d, <1>e, <1>f
<1>11. /\ a <= 1000 /\ b <= 1000 /\ c <= 1000 /\ d <= 200 /\ e <= 500 /\ f <= 1000
       /\ h <= 1000 /\ i <= 1000 /\ j <= 1000 /\ k <= 1000 /\ l <= 1000
  BY <1>a, <1>b, <1>c, <1>d, <1>e, <1>f
<1> DEFINE sum == 10 * a + 8 * b + 10 * c + 15 * d + 12 * e + 8 * f + 5 * h + 12 * i + 5 * j
                      + 5 * k + 5 * l + 5 * 500
<1>12. GoogleTotal(g) = Rounded(sum)
  BY <1>9, <1>10, Zenon DEF GoogleTotal
<1>13. sum \in Nat
  BY SMT
<1>14. sum <= 79500
  BY <1>11, SMT
<1> HIDE DEF sum
<1>15. PICK r \in Nat : r = Rounded(sum) /\ r * 100 <= sum + 50
  BY <1>13, RoundedIs
<1>16. r <= 795
  BY <1>13, <1>14, <1>15, SMT
<1> QED BY <1>12, <1>15, <1>16, SMT DEF g

\* Its readiness for answers is 51.3 at most.
LEMMA AiWithoutText ==
    ASSUME NEW p \in AuditedPage, Countable(p), p.words = 0
    PROVE  AiTotal(AiPoints(p)) \in Nat /\ AiTotal(AiPoints(p)) <= 513
<1> DEFINE g == AiPoints(p)
<1>1. /\ p.marks \in SUBSET Mark /\ p.external \in Nat /\ p.authorities \in Nat
      /\ p.textRatio \in Nat
      /\ p.paragraphs = 0 /\ p.questions = 0 /\ p.bullets = 0 /\ p.numbered = 0
      /\ p.sentence = 0
  BY DEF AuditedPage, Countable
<1>2. g.question_answer_format \in Nat /\ g.question_answer_format <= 500
  BY <1>1 DEF AiPoints, Marked, Bonus
<1>3. g.structured_data \in Nat /\ g.structured_data <= 1000
  BY <1>1 DEF AiPoints, Marked, Bonus
<1>4. g.citation_worthiness \in Nat /\ g.citation_worthiness <= 1000
  BY <1>1 DEF AiPoints, Marked, Bonus
<1>5. g.featured_snippet_ready \in Nat /\ g.featured_snippet_ready <= 200
  BY <1>1 DEF AiPoints, Bonus
<1>6. g.freshness_signals \in Nat /\ g.freshness_signals <= 1000
  BY <1>1 DEF AiPoints, Marked, Bonus
<1>7. g.source_authority \in Nat /\ g.source_authority <= 800
  BY <1>1 DEF AiPoints, Bonus
<1>8. g.ai_crawlability \in Nat /\ g.ai_crawlability <= 1000
  BY <1>1 DEF AiPoints, Marked, Bonus
<1>9. g.entity_clarity = 0 /\ g.conversational_tone = 0 /\ g.passage_independence = 0
  BY <1>1 DEF AiPoints
<1> HIDE DEF g
<1>a. PICK a \in Nat, b \in Nat :
         /\ a = g.question_answer_format /\ a <= 500
         /\ b = g.structured_data /\ b <= 1000
  BY <1>2, <1>3
<1>b. PICK c \in Nat, d \in Nat :
         /\ c = g.citation_worthiness /\ c <= 1000
         /\ d = g.featured_snippet_ready /\ d <= 200
  BY <1>4, <1>5
<1>c. PICK e \in Nat, f \in Nat, h \in Nat :
         /\ e = g.freshness_signals /\ e <= 1000
         /\ f = g.source_authority /\ f <= 800
         /\ h = g.ai_crawlability /\ h <= 1000
  BY <1>6, <1>7, <1>8
<1>10. /\ a = g.question_answer_format /\ b = g.structured_data /\ c = g.citation_worthiness
      /\ d = g.featured_snippet_ready /\ e = g.freshness_signals
      /\ f = g.source_authority /\ h = g.ai_crawlability
  BY <1>a, <1>b, <1>c
<1>11. /\ a <= 500 /\ b <= 1000 /\ c <= 1000 /\ d <= 200 /\ e <= 1000 /\ f <= 800
       /\ h <= 1000
  BY <1>a, <1>b, <1>c
<1> DEFINE sum == 15 * a + 12 * b + 12 * 0 + 10 * c + 8 * 0 + 12 * d + 10 * 0 + 8 * e + 8 * f
                      + 5 * h
<1>12. AiTotal(g) = Rounded(sum)
  BY <1>9, <1>10, Zenon DEF AiTotal
<1>13. sum \in Nat
  BY SMT
<1>14. sum <= 51300
  BY <1>11, SMT
<1> HIDE DEF sum
<1>15. PICK r \in Nat : r = Rounded(sum) /\ r * 100 <= sum + 50
  BY <1>13, RoundedIs
<1>16. r <= 513
  BY <1>13, <1>14, <1>15, SMT
<1> QED BY <1>12, <1>15, <1>16, SMT DEF g

\* Together they are less than 150.
LEMMA NoTextIsNotFine ==
    ASSUME NEW p \in AuditedPage, Countable(p), p.words = 0
    PROVE  PagePriority(p) # "P3"
<1>1. PICK a \in Nat : a = GoogleTotal(GooglePoints(p)) /\ a <= 795
  BY GoogleWithoutText
<1>2. PICK b \in Nat : b = AiTotal(AiPoints(p)) /\ b <= 513
  BY AiWithoutText
<1>3. a + b < 1500
  BY <1>1, <1>2, SMT
<1>4. CASE a + b < 800
  BY <1>1, <1>2, <1>4, SMT DEF PagePriority
<1>5. CASE ~(a + b < 800) /\ a + b < 1200
  BY <1>1, <1>2, <1>5, SMT DEF PagePriority
<1>6. CASE ~(a + b < 800) /\ ~(a + b < 1200)
  BY <1>1, <1>2, <1>3, <1>6, SMT DEF PagePriority
<1> QED BY <1>4, <1>5, <1>6

(***************************************************************************)
(* An edit leaves a page that can be, and what was answered so.            *)
(***************************************************************************)
Edits == {"question_answer_format", "featured_snippet_ready", "citation_worthiness",
          "passage_independence", "freshness_signals"}

\* One field changes within its range.
LEMMA FieldsStay ==
    ASSUME NEW p \in AuditedPage
    PROVE  /\ \A n \in Nat : [p EXCEPT !.questions = n] \in AuditedPage
           /\ \A n \in Nat : [p EXCEPT !.words = n] \in AuditedPage
           /\ \A n \in Nat : [p EXCEPT !.paragraphs = n] \in AuditedPage
           /\ \A n \in Nat : [p EXCEPT !.opening = n] \in AuditedPage
           /\ \A n \in Nat : [p EXCEPT !.sentence = n] \in AuditedPage
           /\ \A d \in 0..3 : [p EXCEPT !.topical = d] \in AuditedPage
           /\ \A m \in SUBSET Mark : [p EXCEPT !.marks = m] \in AuditedPage
<1>1. ASSUME NEW n \in Nat
      PROVE  [p EXCEPT !.questions = n] \in AuditedPage
  BY DEF AuditedPage
<1>2. ASSUME NEW n \in Nat
      PROVE  [p EXCEPT !.words = n] \in AuditedPage
  BY DEF AuditedPage
<1>3. ASSUME NEW n \in Nat
      PROVE  [p EXCEPT !.paragraphs = n] \in AuditedPage
  BY DEF AuditedPage
<1>4. ASSUME NEW n \in Nat
      PROVE  [p EXCEPT !.opening = n] \in AuditedPage
  BY DEF AuditedPage
<1>5. ASSUME NEW d \in 0..3
      PROVE  [p EXCEPT !.topical = d] \in AuditedPage
  BY DEF AuditedPage
<1>6. ASSUME NEW m \in SUBSET Mark
      PROVE  [p EXCEPT !.marks = m] \in AuditedPage
  BY DEF AuditedPage
<1>7. ASSUME NEW n \in Nat
      PROVE  [p EXCEPT !.sentence = n] \in AuditedPage
  BY DEF AuditedPage
<1> QED BY <1>1, <1>2, <1>3, <1>4, <1>5, <1>6, <1>7

\* What was asked for is there, unless paragraphs were asked for first sentences and there is
\* one at most.
LEMMA EditIs ==
    ASSUME NEW p \in AuditedPage, Countable(p), NEW s \in Edits
    PROVE  /\ Edited(p, s) \in AuditedPage /\ Countable(Edited(p, s))
           /\ Settled(Edited(p, s), s) \/ (s = "passage_independence" /\ p.paragraphs <= 1)
           /\ \A t : Settled(p, t) => Settled(Edited(p, s), t)
<1> DEFINE q == Edited(p, s)
<1>1. Inserted \in Nat /\ Inserted > 0
  BY PageAssumption
<1>2. /\ p.marks \in SUBSET Mark /\ p.questions \in Nat /\ p.opening \in Nat /\ p.words \in Nat
      /\ p.topical \in 0..3 /\ p.paragraphs \in Nat /\ p.alt <= p.images /\ p.capitalised \in Nat
      /\ p.topical <= p.paragraphs /\ p.opening <= p.words /\ p.capitalised <= p.words
      /\ p.bullets \in Nat /\ p.numbered \in Nat /\ p.sentence \in Nat
      /\ ((p.words = 0) <=> (p.paragraphs = 0))
      /\ (p.words = 0 => p.questions + p.bullets + p.numbered + p.sentence = 0)
  BY DEF AuditedPage, Countable
<1>a. Spoken(p) \in Nat
  BY <1>2 DEF Spoken
<1>3. CASE s = "question_answer_format"
  <2>1. PICK n \in Nat, w \in Nat, k \in Nat :
           n = p.questions + 3 /\ w = p.words + Inserted /\ k = p.paragraphs + 1
    BY <1>1, <1>2
  <2>2. PICK v \in Nat : v = Spoken(p)
    BY <1>a
  <2>3. q = [p EXCEPT !.questions = n, !.words = w, !.paragraphs = k, !.sentence = v]
    BY <1>3, <2>1, <2>2, Zenon DEF Edited
  <2>4. q \in AuditedPage
    <3> DEFINE q1 == [p EXCEPT !.questions = n]
               q2 == [q1 EXCEPT !.words = w]
               q3 == [q2 EXCEPT !.paragraphs = k]
               q4 == [q3 EXCEPT !.sentence = v]
    <3>1. q1 \in AuditedPage
      BY FieldsStay, Zenon
    <3>2. q2 \in AuditedPage
      BY <3>1, FieldsStay, Zenon
    <3>3. q3 \in AuditedPage
      BY <3>2, FieldsStay, Zenon
    <3>4. q4 \in AuditedPage
      BY <3>3, FieldsStay, Zenon
    <3> QED BY <2>3, <3>4
  <2>5. /\ q.questions = p.questions + 3 /\ q.words = p.words + Inserted
        /\ q.paragraphs = p.paragraphs + 1
        /\ q.marks = p.marks /\ q.opening = p.opening /\ q.topical = p.topical
        /\ q.alt = p.alt /\ q.images = p.images /\ q.capitalised = p.capitalised
    BY <2>1, <2>3 DEF AuditedPage
  <2> HIDE DEF q
  <2>6. Countable(q)
    BY <2>5, <1>1, <1>2 DEF Countable
  <2>7. Settled(q, s) /\ \A t : Settled(p, t) => Settled(q, t)
    BY <2>5, <1>2, <1>3 DEF Settled
  <2> QED BY <2>4, <2>6, <2>7 DEF q
<1>4. CASE s = "featured_snippet_ready"
  <2>1. PICK o \in Nat, w \in Nat, k \in Nat :
           o = 40 /\ w = p.words + 40 /\ k = p.paragraphs + 1
    BY <1>2
  <2>2. PICK d \in 0..3 : /\ d = IF p.paragraphs < 3 THEN p.topical + 1 ELSE Max({p.topical, 1})
                          /\ p.topical <= d /\ d <= p.paragraphs + 1
    <3>1. CASE p.paragraphs < 3
      BY <1>2, <3>1
    <3>2. CASE p.paragraphs >= 3
      <4>1. Max({p.topical, 1}) = IF p.topical >= 1 THEN p.topical ELSE 1
        BY <1>2, MaxOfTwo
      <4> QED BY <1>2, <3>2, <4>1
    <3> QED BY <1>2, <3>1, <3>2
  <2>3. PICK m \in SUBSET Mark : m = p.marks \ {"early_keyword"}
    BY <1>2
  <2>4. PICK v \in Nat : v = Spoken(p)
    BY <1>a
  <2>5. q = [p EXCEPT !.opening = o, !.words = w, !.paragraphs = k, !.sentence = v, !.marks = m,
                      !.topical = d]
    BY <1>4, <2>1, <2>2, <2>3, <2>4, SMT DEF Edited
  <2>6. q \in AuditedPage
    <3> DEFINE q1 == [p EXCEPT !.opening = o]
               q2 == [q1 EXCEPT !.words = w]
               q3 == [q2 EXCEPT !.paragraphs = k]
               q4 == [q3 EXCEPT !.sentence = v]
               q5 == [q4 EXCEPT !.marks = m]
               q6 == [q5 EXCEPT !.topical = d]
    <3>1. q1 \in AuditedPage
      BY FieldsStay, Zenon
    <3>2. q2 \in AuditedPage
      BY <3>1, FieldsStay, Zenon
    <3>3. q3 \in AuditedPage
      BY <3>2, FieldsStay, Zenon
    <3>4. q4 \in AuditedPage
      BY <3>3, FieldsStay, Zenon
    <3>5. q5 \in AuditedPage
      BY <3>4, FieldsStay, Zenon
    <3>6. q6 \in AuditedPage
      BY <3>5, FieldsStay, Zenon
    <3> QED BY <2>5, <3>6
  <2>7. /\ q.questions = p.questions /\ q.words = p.words + 40
        /\ q.paragraphs = p.paragraphs + 1
        /\ q.marks = p.marks \ {"early_keyword"} /\ q.opening = 40
        /\ q.topical = d
        /\ q.alt = p.alt /\ q.images = p.images /\ q.capitalised = p.capitalised
    BY <2>1, <2>2, <2>3, <2>5 DEF AuditedPage
  <2> HIDE DEF q
  <2>8. Countable(q)
    BY <2>7, <2>2, <1>1, <1>2 DEF Countable
  <2>9. Settled(q, s) /\ \A t : Settled(p, t) => Settled(q, t)
    BY <2>7, <2>2, <1>2, <1>4 DEF Settled
  <2> QED BY <2>6, <2>8, <2>9 DEF q
<1>5. CASE s \in {"citation_worthiness", "freshness_signals"}
  <2> DEFINE added == IF s = "citation_worthiness" THEN {"data", "statistics"} ELSE {"dated", "recent"}
  <2>1. q = [p EXCEPT !.marks = p.marks \cup added]
    BY <1>5 DEF Edited
  <2>2. q \in AuditedPage
    BY <2>1, <1>2 DEF AuditedPage, Mark
  <2>3. /\ q.questions = p.questions /\ q.words = p.words
        /\ q.paragraphs = p.paragraphs /\ q.bullets = p.bullets /\ q.numbered = p.numbered
        /\ q.marks = p.marks \cup added /\ q.opening = p.opening /\ q.topical = p.topical
        /\ q.alt = p.alt /\ q.images = p.images /\ q.capitalised = p.capitalised
        /\ q.sentence = p.sentence
    BY <2>1 DEF AuditedPage
  <2> HIDE DEF q
  <2>4. Countable(q)
    BY <2>3, <1>2 DEF Countable
  <2>5. Settled(q, s) /\ \A t : Settled(p, t) => Settled(q, t)
    BY <2>3, <1>2, <1>5 DEF Settled
  <2> QED BY <2>2, <2>4, <2>5 DEF q
<1>6. CASE s = "passage_independence"
  <2>1. PICK n \in 0..3 : /\ n = Min({3, p.paragraphs}) /\ n <= p.paragraphs
                          /\ p.paragraphs <= 1 \/ 2 <= n
                          /\ p.topical <= n
    BY <1>2, <1>6, MinOfTwo
  <2>2. PICK v \in Nat : /\ v = IF p.paragraphs = 0 THEN 0 ELSE Spoken(p)
                         /\ (p.words = 0 => v = 0)
    BY <1>2, <1>a
  <2>3. q = [p EXCEPT !.topical = n, !.sentence = v]
    BY <1>6, <2>1, <2>2, SMT DEF Edited
  <2>4. q \in AuditedPage
    <3>1. [p EXCEPT !.topical = n] \in AuditedPage
      BY FieldsStay, Zenon
    <3>2. [[p EXCEPT !.topical = n] EXCEPT !.sentence = v] \in AuditedPage
      BY <3>1, FieldsStay, Zenon
    <3> QED BY <2>3, <3>2
  <2>5. /\ q.questions = p.questions /\ q.words = p.words
        /\ q.paragraphs = p.paragraphs /\ q.bullets = p.bullets /\ q.numbered = p.numbered
        /\ q.marks = p.marks /\ q.opening = p.opening /\ q.topical = n
        /\ q.alt = p.alt /\ q.images = p.images /\ q.capitalised = p.capitalised
        /\ q.sentence = v
    BY <2>3 DEF AuditedPage
  <2> HIDE DEF q
  <2>6. Countable(q)
    BY <2>1, <2>2, <2>5, <1>2 DEF Countable
  <2>7. Settled(q, s) \/ p.paragraphs <= 1
    BY <2>1, <2>5, <1>2, <1>6 DEF Settled
  <2>8. \A t : Settled(p, t) => Settled(q, t)
    BY <2>1, <2>5, <1>2 DEF Settled
  <2> QED BY <2>4, <2>6, <2>7, <2>8, <1>6 DEF q
<1> QED BY <1>3, <1>4, <1>5, <1>6 DEF Edits

\* A recommendation that can be followed asks for an edit.
LEMMA FollowEdits ==
    ASSUME NEW s \in Recommended(page), page \in AuditedPage, Follow(s)
    PROVE  s \in Edits
<1>1. s # "ai_crawlability"
  <2>1. SUFFICES ASSUME s = "ai_crawlability" PROVE FALSE
    OBVIOUS
  <2>2. AiPoints(page)[s] = 500 + Marked(page, "noscript", 10) + Bonus(page.textRatio > 30, 20)
            + Bonus(page.textRatio > 50, 20)
    BY <2>1 DEF AiPoints
  <2>3. AiPoints(page)[s] >= 500 /\ AiPoints(page)[s] \in Nat
    BY <2>2 DEF Marked, Bonus
  <2>4. ~Weak(AiPoints(page)[s])
    BY <2>3 DEF Weak
  <2> QED BY <2>4 DEF Recommended
<1>2. s # "entity_clarity"
  BY DEF Follow
<1> QED BY <1>1, <1>2 DEF Recommended, Edits

\* It holds at first: nothing was followed and there are no clusters.
LEMMA PageStarts == PageInit => PageInv
<1> SUFFICES ASSUME PageInit PROVE PageInv
  OBVIOUS
<1>1. page \in AuditedPage /\ Countable(page)
  BY PageAssumption DEF PageInit
<1>2. KeysShareNoWord
  <2>1. DOMAIN <<>> = {}
    OBVIOUS
  <2> QED BY <2>1 DEF PageInit, KeysShareNoWord
<1> QED BY <1>1, <1>2 DEF PageInit, PageInv

\* The edit answers the signal and leaves the others answered.
LEMMA FollowStep ==
    ASSUME PageInv, NEW s \in Recommended(page), Follow(s)
    PROVE  PageInv'
<1>1. page \in AuditedPage /\ Countable(page)
  BY DEF PageInv
<1>2. /\ s \in Edits /\ page' = Edited(page, s) /\ followed' = followed \cup {s}
      /\ clusters' = clusters
      /\ alone' = (IF s = "passage_independence" THEN page.paragraphs <= 1 ELSE alone)
  BY <1>1, FollowEdits DEF Follow
<1>3. /\ page' \in AuditedPage /\ Countable(page')
      /\ Settled(page', s) \/ (s = "passage_independence" /\ page.paragraphs <= 1)
      /\ \A t : Settled(page, t) => Settled(page', t)
  BY <1>1, <1>2, EditIs, Zenon
<1>4. \A t \in followed' : Settled(page', t) \/ (t = "passage_independence" /\ alone')
  <2>1. ASSUME NEW t \in followed'
        PROVE  Settled(page', t) \/ (t = "passage_independence" /\ alone')
    <3>1. CASE t = s
      BY <1>2, <1>3, <3>1
    <3>2. CASE t # s
      <4>1. Settled(page, t) \/ (t = "passage_independence" /\ alone)
        BY <1>2, <2>1, <3>2 DEF PageInv
      <4>2. CASE Settled(page, t)
        BY <1>3, <4>2
      <4>3. CASE t = "passage_independence" /\ alone
        BY <1>2, <3>2, <4>3
      <4> QED BY <4>1, <4>2, <4>3
    <3> QED BY <3>1, <3>2
  <2> QED BY <2>1
<1>5. KeysShareNoWord'
  BY <1>2 DEF PageInv, KeysShareNoWord
<1> QED BY <1>3, <1>4, <1>5 DEF PageInv

\* A keyword of two clusters would be related to the key of the first.
LEMMA ClusterStep ==
    ASSUME PageInv, NEW q \in Phrases, Cluster(q)
    PROVE  PageInv'
<1>1. q \in Seq(ToSet(q))
  BY PageAssumption
<1>2. PICK cs : cs = Clustered(q)
  OBVIOUS
<1>3. cs \in Seq(ToSet(q) \X Seq(ToSet(q))) /\ Apart(cs)
  BY <1>1, <1>2, ClusteredIs
<1>4. clusters' = cs /\ page' = page /\ followed' = followed /\ alone' = alone
  BY <1>2 DEF Cluster
<1>5. \A i, j \in DOMAIN cs : i # j =>
         /\ cs[i][1] \cap cs[j][1] = {}
         /\ ToSet(cs[i][2]) \cap ToSet(cs[j][2]) = {}
  <2>1. DOMAIN cs = 1..Len(cs) /\ Len(cs) \in Nat
    BY <1>3
  <2>2. \A i, j \in DOMAIN cs : i = j \/ i < j \/ j < i
    BY <2>1
  <2>3. ASSUME NEW i \in DOMAIN cs, NEW j \in DOMAIN cs, i # j,
               NEW w \in ToSet(cs[i][2]), w \in ToSet(cs[j][2])
        PROVE  FALSE
    <3>1. InPlace(cs, i, w) /\ InPlace(cs, j, w)
      BY <1>3, <2>3, Zenon DEF Apart
    <3>2. cs[i][1] # cs[j][1]
      BY <1>3, <2>3, Zenon DEF Apart
    <3>3. Related(cs[i][1], w) => w # {}
      BY DEF Related
    <3>4. Related(cs[j][1], w) => w # {}
      BY DEF Related
    <3> QED BY <3>1, <3>2, <3>3, <3>4, <2>2, <2>3, Zenon DEF InPlace
  <2> QED BY <1>3, <2>3 DEF Apart
<1>6. KeysShareNoWord'
  BY <1>4, <1>5 DEF KeysShareNoWord
<1> QED BY <1>4, <1>6 DEF PageInv

\* The invariant says what is promised.
LEMMA AdviceIs == PageInv => AdviceIsSound
<1> SUFFICES ASSUME PageInv PROVE AdviceIsSound
  OBVIOUS
<1>1. FollowedIsSilenced
  BY SettledIsSilent DEF PageInv, FollowedIsSilenced
<1>2. NoTextIsNeverFine
  BY NoTextIsNotFine DEF PageInv, NoTextIsNeverFine
<1> QED BY <1>1, <1>2 DEF PageInv, AdviceIsSound

(***************************************************************************)
(* Whatever the pages, the keywords and the edits: a recommendation that   *)
(* was followed is not given again, the one on passages excepted if there  *)
(* was one paragraph at most, a page without text is never passed over,    *)
(* and no two clusters share a keyword or a word of their keys             *)
(* (OnPageAuditor, AEOOptimizer, GEOOptimizer, cluster_keywords).          *)
(***************************************************************************)
THEOREM AdviceStaysSound == PageSpec => []AdviceIsSound
<1>1. ASSUME PageInv, [PageNext]_pageVars
      PROVE  PageInv'
  <2>1. CASE \E s \in Recommended(page) : Follow(s)
    BY <1>1, <2>1, FollowStep
  <2>2. CASE \E q \in Phrases : Cluster(q)
    BY <1>1, <2>2, ClusterStep
  <2>3. CASE UNCHANGED pageVars
    <3>1. page' = page /\ followed' = followed /\ clusters' = clusters /\ alone' = alone
      BY <2>3 DEF pageVars
    <3> QED BY <1>1, <3>1 DEF PageInv, KeysShareNoWord
  <2> QED BY <1>1, <2>1, <2>2, <2>3 DEF PageNext
<1> QED BY <1>1, PageStarts, AdviceIs, PTL DEF PageSpec
===============================================================================
