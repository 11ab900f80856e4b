----------------------------- MODULE RankTracking -----------------------------
(***************************************************************************)
(* The rank agent (rank.py): overlapping calls of track_rankings for one   *)
(* keyword share the snapshots of the last answers.  Between an answer and *)
(* the next request nothing is awaited, so the comparison with the last    *)
(* snapshot, the alerts and the new snapshot are one step.                 *)
(***************************************************************************)
EXTENDS Integers, Sequences, FiniteSets, SequencesExt

CONSTANTS
    Tracking,      \* runs of track_rankings
    Engines,       \* self.engines, a sequence
    Page,          \* answers: our position, and those a competitor is listed at
    DropAt, GainAt,\* rank_drop_threshold and rank_gain_threshold
    MaxAnswers     \* bound: engine -> answers that are stored for it

ASSUME RankAssumption ==
    /\ Engines \in Seq(ToSet(Engines))
    /\ \A p \in Page : p.ours \in Nat /\ p.theirs \in Seq(Nat)
    /\ DropAt \in Int /\ GainAt \in Int

Missing == 0       \* our domain is not among the results; positions count from 1
Unasked == -1      \* an engine that has no entry in the report yet
Errored == -2      \* an engine whose entry is an error

VARIABLES
    snapshot,      \* _rank_history of an engine: <<>> or <<[ours, theirs]>>
    at,            \* of a run: index of the engine it asks, 0 before, beyond the last when done
    report,        \* of a run: engine -> our position, Unasked or Errored
    delta,         \* of a run: <<>> or <<[engine, from, to]>>, of the last comparison
    alerts,        \* history of an engine and a kind: the alerts, in the order they were raised
    trail          \* history of an engine: the snapshots that were stored

rankVars == <<snapshot, at, report, delta, alerts, trail>>

Engine == ToSet(Engines)
Kind == {"drop", "gain", "overtake"}

RankInit ==
    /\ snapshot = [e \in Engine |-> <<>>] /\ trail = [e \in Engine |-> <<>>]
    /\ at = [r \in Tracking |-> 0] /\ alerts = [e \in Engine |-> [k \in Kind |-> <<>>]]
    /\ report = [r \in Tracking |-> [e \in Engine |-> Unasked]]
    /\ delta = [r \in Tracking |-> <<>>]

(***************************************************************************)
(* PositionChangeAlerter.evaluate: how many alerts of a kind, and what     *)
(* they say.  A competitor overtakes with each of its listings, and its    *)
(* former position is that of its last listing (prev_map keeps one per     *)
(* domain).                                                                *)
(***************************************************************************)
Falls(from, to) == to - from >= DropAt
Gains(from, to) == from - to >= GainAt

Overtaking(before, now) ==
    {i \in DOMAIN now.theirs : /\ now.theirs[i] < now.ours
                               /\ before.theirs # <<>> /\ Last(before.theirs) > before.ours}

Raised(kind, before, now) ==
    IF Missing \in {before.ours, now.ours} THEN 0
    ELSE CASE kind = "drop" -> IF Falls(before.ours, now.ours) THEN 1 ELSE 0
           [] kind = "gain" -> IF Gains(before.ours, now.ours) THEN 1 ELSE 0
           [] kind = "overtake" -> Cardinality(Overtaking(before, now))

Evaluate(kind, before, now) ==
    [i \in 1..Raised(kind, before, now) |->
        [from |-> before.ours, to |-> now.ours,
         urgent |-> kind = "drop" /\ now.ours - before.ours >= 5]]

\* state TRACKING: the first request.
Track(r) ==
    /\ at[r] = 0
    /\ at' = [at EXCEPT ![r] = 1]
    /\ UNCHANGED <<snapshot, report, delta, alerts, trail>>

\* Mutant of Stored: the first snapshot of an engine is kept.
StoredOnce(e, now) == IF snapshot[e] = <<>> THEN [snapshot EXCEPT ![e] = <<now>>] ELSE snapshot
Stored(e, now) == [snapshot EXCEPT ![e] = <<now>>]

\* An engine answered: compare with the last snapshot, whoever stored it, and replace it.
Answered(r) ==
    /\ at[r] \in DOMAIN Engines
    /\ LET e == Engines[at[r]]
       IN  \E now \in Page :
              /\ Len(trail[e]) < MaxAnswers[e]
              /\ report' = [report EXCEPT ![r][e] = now.ours]
              /\ snapshot' = Stored(e, now)
              /\ trail' = [trail EXCEPT ![e] = Append(@, now)]
              /\ IF snapshot[e] = <<>>
                 THEN delta' = [delta EXCEPT ![r] = <<>>] /\ UNCHANGED alerts
                 ELSE LET before == snapshot[e][1]
                      IN  /\ delta' = [delta EXCEPT ![r] =
                                          <<[engine |-> e, from |-> before.ours, to |-> now.ours]>>]
                          /\ alerts' = [alerts EXCEPT ![e] =
                                           [k \in Kind |-> alerts[e][k] \o Evaluate(k, before, now)]]
    /\ at' = [at EXCEPT ![r] = @ + 1]

\* The client raised: the engine has an error in the report and keeps its snapshot.
Failed(r) ==
    /\ at[r] \in DOMAIN Engines
    /\ report' = [report EXCEPT ![r][Engines[at[r]]] = Errored]
    /\ at' = [at EXCEPT ![r] = @ + 1]
    /\ UNCHANGED <<snapshot, delta, alerts, trail>>

RankNext == \E r \in Tracking : Track(r) \/ Answered(r) \/ Failed(r)

RankSpec == RankInit /\ [][RankNext]_rankVars

(***************************************************************************)
(* Properties                                                              *)
(***************************************************************************)
(* Snapshots and reports hold what an engine can answer.                   *)
RankTypeOK ==
    /\ \A e \in Engine : snapshot[e] = <<>> \/ snapshot[e][1] \in Page
    /\ at \in [Tracking -> 0..Len(Engines) + 1]

\* The answers of a history that the next one is a fall from, or an overtaking.
Listed(h, i) == Missing \notin {h[i].ours, h[i + 1].ours}
FallsOf(h) == {i \in 1..Len(h) - 1 : Listed(h, i) /\ h[i + 1].ours >= h[i].ours + DropAt}
PassesOf(h) ==
    {i \in 1..Len(h) - 1 : /\ Listed(h, i) /\ h[i].theirs # <<>>
                           /\ \A j \in DOMAIN h[i].theirs : h[i].theirs[j] > h[i].ours
                           /\ \E j \in DOMAIN h[i + 1].theirs : h[i + 1].theirs[j] < h[i + 1].ours}

(***************************************************************************)
(* The drop alerts are exactly the falls between one stored answer and the *)
(* next, each raised once and in their order, whichever of the overlapping *)
(* runs got which answer and however many requests failed in between.      *)
(***************************************************************************)
DropsAreTheFalls ==
    \A e \in Engine :
        LET falls == FallsOf(trail[e])
            drops == alerts[e]["drop"]
        IN  /\ Len(drops) = Cardinality(falls)
            /\ \A i \in falls :
                  LET alert == drops[Cardinality(falls \cap 1..i)]
                  IN  /\ alert.from = trail[e][i].ours /\ alert.to = trail[e][i + 1].ours
                      /\ alert.urgent <=> trail[e][i + 1].ours - trail[e][i].ours >= 5

(***************************************************************************)
(* A competitor that stood behind us with all its listings and is ahead    *)
(* of us in the next answer is alerted about: no overtaking is missed.     *)
(***************************************************************************)
OvertakingIsAlerted ==
    \A e \in Engine : Len(alerts[e]["overtake"]) >= Cardinality(PassesOf(trail[e]))

(***************************************************************************)
(* What a run reports about an engine was true of a stored answer, and the *)
(* comparison it returns is one between two answers of the same engine in  *)
(* a row, even when another run stored the earlier one.                    *)
(***************************************************************************)
ComparesNeighbours ==
    \A r \in Tracking :
        /\ \A e \in Engine : report[r][e] \in {Unasked, Errored}
                \/ \E i \in DOMAIN trail[e] : trail[e][i].ours = report[r][e]
        /\ delta[r] # <<>> =>
              LET h == trail[delta[r][1].engine]
              IN  \E i \in 1..Len(h) - 1 : h[i].ours = delta[r][1].from /\ h[i + 1].ours = delta[r][1].to

(***************************************************************************)
(* What overlapping runs of track_rankings alert and report is what        *)
(* happened between answers that followed one another: the three above,    *)
(* and the types.                                                          *)
(***************************************************************************)
AlertsAreTrue == RankTypeOK /\ DropsAreTheFalls /\ OvertakingIsAlerted /\ ComparesNeighbours
===============================================================================
