--------------------------- MODULE CompetitorWatch ---------------------------
(***************************************************************************)
(* The competitor agent (competitor.py): overlapping calls of              *)
(* monitor_content share the sets of known urls, and identify_gaps         *)
(* compares keyword lists that it fetches one after the other.             *)
(***************************************************************************)
EXTENDS Integers, Sequences, FiniteSets

CONSTANTS
    Watch,         \* runs of monitor_content
    Rivals,        \* self.competitors, a sequence of domains
    Article,       \* urls the content search may return
    NoSet,
    Volume,        \* competitor keyword -> search_volume
    MaxGaps        \* gaps[:50]

\* Where volumes are the same the order of the lists decides, which is left out.
ASSUME VolumesDiffer == \A k, l \in DOMAIN Volume : Volume[k] = Volume[l] => k = l

VARIABLES
    known,         \* _known_content of a domain: the run that made its set, or NoSet
    set,           \* the set made by a run, which other runs may come to share
    handle,        \* of a run: whose set it holds while it awaits the search
    turn,          \* of a run: index of the competitor it asks about
    reports,       \* history: how many runs reported an article as new
    early,         \* history: runs that began a domain before it had a set
    gaps           \* of the last identify_keyword_gaps: [ours, theirs, found]

watchVars == <<known, set, handle, turn, reports, early, gaps>>

Rival == {Rivals[i] : i \in DOMAIN Rivals}

ASSUME WatchAssumption ==
    /\ IsFiniteSet(Watch) /\ NoSet \notin Watch
    /\ Rivals \in Seq(Rival) /\ Rivals # <<>>
    /\ Volume \in [DOMAIN Volume -> Nat] /\ IsFiniteSet(DOMAIN Volume) /\ MaxGaps \in Nat

NoGaps == [ours |-> {}, theirs |-> {}, found |-> {}]

WatchInit ==
    /\ known = [d \in Rival |-> NoSet]
    /\ set = [d \in Rival |-> [r \in Watch |-> {}]]
    /\ handle = [r \in Watch |-> NoSet] /\ turn = [r \in Watch |-> 0]
    /\ reports = [d \in Rival |-> [u \in Article |-> 0]]
    /\ early = [d \in Rival |-> {}] /\ gaps = NoGaps

\* Mutant of Begin: always a set of its own.
BeginAnew(r, d) ==
    /\ handle' = [handle EXCEPT ![r] = r]
    /\ early' = IF known[d] = NoSet THEN [early EXCEPT ![d] = @ \cup {r}] ELSE early

\* The set a run goes on with: the stored object itself, or a new one of its own.
Begin(r, d) ==
    /\ handle' = [handle EXCEPT ![r] = IF known[d] = NoSet THEN r ELSE known[d]]
    /\ early' = IF known[d] = NoSet THEN [early EXCEPT ![d] = @ \cup {r}] ELSE early

\* monitor_content, up to the first search.
Monitor(r) ==
    /\ turn[r] = 0
    /\ turn' = [turn EXCEPT ![r] = 1]
    /\ Begin(r, Rivals[1])
    /\ UNCHANGED <<known, set, reports, gaps>>

(***************************************************************************)
(* The search returned (nothing, if it raised): what the held set does not *)
(* contain by now is new, joins it, and the held set becomes the domain's. *)
(***************************************************************************)
Searched(r) ==
    /\ turn[r] \in DOMAIN Rivals
    /\ LET d == Rivals[turn[r]]
           owner == handle[r]
       IN  \E hits \in SUBSET Article :
              LET new == hits \ set[d][owner]
              IN  /\ reports' = [reports EXCEPT ![d] =
                                    [u \in Article |-> @[u] + IF u \in new THEN 1 ELSE 0]]
                  /\ set' = [set EXCEPT ![d][owner] = @ \cup new]
                  /\ known' = [known EXCEPT ![d] = owner]
    /\ turn' = [turn EXCEPT ![r] = @ + 1]
    /\ IF turn[r] < Len(Rivals)
       THEN Begin(r, Rivals[turn[r] + 1])
       ELSE handle' = [handle EXCEPT ![r] = NoSet] /\ UNCHANGED early
    /\ UNCHANGED gaps

(***************************************************************************)
(* identify_keyword_gaps: an exception gives no gaps; an answer without a  *)
(* result counts as a site without keywords.                               *)
(***************************************************************************)
Top(candidates) ==
    {k \in candidates :
        Cardinality({c \in candidates : Volume[c] > Volume[k]}) < MaxGaps}

IdentifyGaps ==
    /\ turn = [r \in Watch |-> 0]
    /\ \E ours, theirs \in SUBSET DOMAIN Volume :
          gaps' = [ours |-> ours, theirs |-> theirs, found |-> Top(theirs \ ours)]
    /\ UNCHANGED <<known, set, handle, turn, reports, early>>

WatchNext == IdentifyGaps \/ \E r \in Watch : Monitor(r) \/ Searched(r)

WatchSpec == WatchInit /\ [][WatchNext]_watchVars

(***************************************************************************)
(* Properties                                                              *)
(***************************************************************************)
(* A domain's set was made by one of the runs.                             *)
WatchTypeOK ==
    /\ known \in [Rival -> Watch \cup {NoSet}]
    /\ \A r \in Watch : turn[r] \in 0..Len(Rivals) + 1
    /\ \A r \in Watch : turn[r] \in DOMAIN Rivals <=> handle[r] # NoSet

(***************************************************************************)
(* An article is reported as new once, however runs overlap: twice or more *)
(* only when several runs began before the domain had its first set, and   *)
(* then at most once for each of them.                                     *)
(***************************************************************************)
NewsIsNewOnce ==
    \A d \in Rival : \A u \in Article :
        reports[d][u] <= IF early[d] = {} THEN 0 ELSE Cardinality(early[d])

(***************************************************************************)
(* A keyword gap is a keyword of the competitor that we do not rank for,   *)
(* and no gap that is left out has more searches than one that is listed.  *)
(***************************************************************************)
GapsAreTheLargest ==
    /\ gaps.found \subseteq gaps.theirs \ gaps.ours
    /\ \A k \in (gaps.theirs \ gaps.ours) \ gaps.found, g \in gaps.found : Volume[k] <= Volume[g]
    /\ Cardinality(gaps.found) >= IF Cardinality(gaps.theirs \ gaps.ours) < MaxGaps
                                  THEN Cardinality(gaps.theirs \ gaps.ours) ELSE MaxGaps

(***************************************************************************)
(* What the competitor agent reports is news, and what it leaves out       *)
(* matters less: the two above, and the types.                             *)
(***************************************************************************)
WatchIsSound == WatchTypeOK /\ NewsIsNewOnce /\ GapsAreTheLargest
===============================================================================
