---------------------------- MODULE ResourceGovernor ----------------------------
(***************************************************************************)
(* ResourceGovernor and APIQuotaTracker (governor.py): calls of the agents *)
(* take a slot and a unit of quota, report how their API call went and     *)
(* give the slot back.  The lock is never kept over an await, so that      *)
(* every method is one step; a circuit breaker belongs to an API.          *)
(***************************************************************************)
EXTENDS Integers, Sequences, FiniteSets, FiniteSetsExt, SequencesExt

CONSTANTS
    Call,          \* calls, each of one agent to one API
    AgentOf, ApiOf,\* the agent and the API of a call
    Slots,         \* agent -> max_concurrent_tasks
    Metered,       \* calls whose agent has an entry for the API in its api_quotas
    Quota,         \* api -> limit, the same for every agent that has one
    MaxUsage,      \* bound: entries of an API that a call without a quota finds at most
    QuotaWindow,   \* ticks of its window
    Threshold,     \* consecutive failures that open a breaker
    Recovery       \* ticks after the last failure it stays open

Governed == {AgentOf[c] : c \in Call}
Service == {ApiOf[c] : c \in Call}

ASSUME GovernorAssumption ==
    /\ IsFiniteSet(Call) /\ Slots \in [Governed -> Nat] /\ Quota \in [Service -> Nat]
    /\ Metered \subseteq Call /\ MaxUsage \in Nat
    /\ Threshold \in Nat \ {0} /\ Recovery \in Nat /\ QuotaWindow \in Nat \ {0}

VARIABLES
    active,        \* _active_tasks
    usage,         \* _usage: ages of the entries of an API, QuotaWindow at most, oldest first
    breaker,       \* state of the breaker of an API
    failures,      \* consecutive_failures, Threshold at most
    sinceFailure,  \* ticks since last_failure, Recovery + 1 at most
    phase,         \* of a call: "idle", "holds" its slot, "reported"
    charged,       \* history: calls of an API that were granted in the last i ticks
    metered,       \* history: those of them that were under the quota
    lastVerdict    \* history: what the last acquire of an API said

governorVars == <<active, usage, breaker, failures, sinceFailure, phase, charged, metered, lastVerdict>>

GovernorInit ==
    /\ active = [a \in Governed |-> 0] /\ usage = [s \in Service |-> <<>>]
    /\ breaker = [s \in Service |-> "closed"] /\ failures = [s \in Service |-> 0]
    /\ sinceFailure = [s \in Service |-> Recovery + 1]
    /\ phase = [c \in Call |-> "idle"]
    /\ charged = [s \in Service |-> [i \in 1..QuotaWindow |-> 0]]
    /\ metered = charged
    /\ lastVerdict = [s \in Service |-> "granted"]

\* check: entries are in the order of their time, so that those it drops come first.
Expired(s) == Cardinality({i \in DOMAIN usage[s] : usage[s][i] >= QuotaWindow})
Live(s) == SubSeq(usage[s], Expired(s) + 1, Len(usage[s]))
QuotaLeft(s) == Len(Live(s)) < Quota[s]

\* Only the calls of an agent with an entry are checked, and only the check drops old entries.
Checked(c) == IF c \in Metered THEN Live(ApiOf[c]) ELSE usage[ApiOf[c]]
MayPass(c) == IF c \in Metered THEN QuotaLeft(ApiOf[c]) ELSE Len(usage[ApiOf[c]]) < MaxUsage

(***************************************************************************)
(* acquire: the limit of the agent, its quota if it has one, and the       *)
(* breaker, which lets every call through once it has waited.  Every call  *)
(* that is let through is recorded, with a quota or without.               *)
(***************************************************************************)
NoSlot(c) ==
    /\ active[AgentOf[c]] >= Slots[AgentOf[c]]
    /\ lastVerdict' = [lastVerdict EXCEPT ![ApiOf[c]] = "no_slot"]
    /\ UNCHANGED <<active, usage, breaker, phase, charged, metered>>

\* Mutant of NoQuota: the slot is taken before the quota is looked at.
NoQuotaButSlot(c) ==
    /\ c \in Metered /\ active[AgentOf[c]] < Slots[AgentOf[c]] /\ ~QuotaLeft(ApiOf[c])
    /\ active' = [active EXCEPT ![AgentOf[c]] = @ + 1]
    /\ UNCHANGED <<usage, lastVerdict, breaker, phase, charged, metered>>

NoQuota(c) ==
    /\ c \in Metered /\ active[AgentOf[c]] < Slots[AgentOf[c]] /\ ~QuotaLeft(ApiOf[c])
    /\ usage' = [usage EXCEPT ![ApiOf[c]] = Live(ApiOf[c])]
    /\ lastVerdict' = [lastVerdict EXCEPT ![ApiOf[c]] = "no_quota"]
    /\ UNCHANGED <<active, breaker, phase, charged, metered>>

\* Mutant of Open: it never recovers.
OpenForGood(s) == breaker[s] = "open"
Open(s) == breaker[s] = "open" /\ sinceFailure[s] <= Recovery

BreakerOrSlot(c) ==
    LET s == ApiOf[c]
        a == AgentOf[c]
        Counted(sums) == [sums EXCEPT ![s] = [i \in 1..QuotaWindow |-> @[i] + 1]]
    IN  /\ active[a] < Slots[a] /\ MayPass(c)
        /\ IF Open(s)
           THEN /\ usage' = [usage EXCEPT ![s] = Checked(c)]
                /\ lastVerdict' = [lastVerdict EXCEPT ![s] = "open"]
                /\ UNCHANGED <<active, breaker, phase, charged, metered>>
           ELSE /\ breaker' = [breaker EXCEPT ![s] = IF @ = "open" THEN "half_open" ELSE @]
                /\ active' = [active EXCEPT ![a] = @ + 1]
                /\ usage' = [usage EXCEPT ![s] = Append(Checked(c), 0)]
                /\ phase' = [phase EXCEPT ![c] = "holds"]
                /\ charged' = Counted(charged)
                /\ metered' = IF c \in Metered THEN Counted(metered) ELSE metered
                /\ lastVerdict' = [lastVerdict EXCEPT ![s] = "granted"]

AcquireSlot(c) ==
    /\ phase[c] = "idle"
    /\ NoSlot(c) \/ NoQuota(c) \/ BreakerOrSlot(c)
    /\ UNCHANGED <<failures, sinceFailure>>

\* record_api_success and record_api_failure: late reports count like any other.
ApiSucceeded(c) ==
    /\ phase[c] = "holds"
    /\ phase' = [phase EXCEPT ![c] = "reported"]
    /\ breaker' = [breaker EXCEPT ![ApiOf[c]] = "closed"]
    /\ failures' = [failures EXCEPT ![ApiOf[c]] = 0]
    /\ UNCHANGED <<active, usage, sinceFailure, charged, metered, lastVerdict>>

ApiFailed(c) ==
    /\ phase[c] = "holds"
    /\ phase' = [phase EXCEPT ![c] = "reported"]
    /\ LET s == ApiOf[c]
           n == Min({Threshold, failures[s] + 1})
       IN  /\ failures' = [failures EXCEPT ![s] = n]
           /\ sinceFailure' = [sinceFailure EXCEPT ![s] = 0]
           /\ breaker' = [breaker EXCEPT ![s] = IF n >= Threshold THEN "open" ELSE @]
    /\ UNCHANGED <<active, usage, charged, metered, lastVerdict>>

Release(c) ==
    /\ phase[c] \in {"holds", "reported"}
    /\ phase' = [phase EXCEPT ![c] = "idle"]
    /\ active' = [active EXCEPT ![AgentOf[c]] = Max({0, @ - 1})]
    /\ UNCHANGED <<usage, breaker, failures, sinceFailure, charged, metered, lastVerdict>>

GovernorTick ==
    /\ usage' = [s \in Service |-> [i \in DOMAIN usage[s] |-> Min({usage[s][i] + 1, QuotaWindow})]]
    /\ sinceFailure' = [s \in Service |-> Min({sinceFailure[s] + 1, Recovery + 1})]
    /\ charged' = [s \in Service |-> <<0>> \o Front(charged[s])]
    /\ metered' = [s \in Service |-> <<0>> \o Front(metered[s])]
    /\ UNCHANGED <<active, breaker, failures, phase, lastVerdict>>

GovernorNext ==
    \/ \E c \in Call : AcquireSlot(c) \/ ApiSucceeded(c) \/ ApiFailed(c) \/ Release(c)
    \/ GovernorTick

GovernorSpec == GovernorInit /\ [][GovernorNext]_governorVars

(***************************************************************************)
(* Properties                                                              *)
(***************************************************************************)
(* Breakers and counters have the values the code gives them.              *)
GovernorTypeOK ==
    /\ breaker \in [Service -> {"closed", "open", "half_open"}]
    /\ failures \in [Service -> 0..Threshold] /\ sinceFailure \in [Service -> 0..Recovery + 1]
    /\ phase \in [Call -> {"idle", "holds", "reported"}]
    /\ \A s \in Service : Len(usage[s]) <= Max({Quota[s], MaxUsage})

(***************************************************************************)
(* The slots an agent has taken are those of its calls in progress, never  *)
(* more than it has, whatever was refused in between: a call that is       *)
(* turned away by the quota or by the breaker leaves no slot behind.       *)
(***************************************************************************)
SlotsAreHeld ==
    \A a \in Governed :
        /\ active[a] = Cardinality({c \in Call : AgentOf[c] = a /\ phase[c] # "idle"})
        /\ active[a] <= Slots[a]

(***************************************************************************)
(* No window of time, wherever it starts, has more calls of an API under   *)
(* its quota than the limit, although several agents draw on it and calls  *)
(* of agents without an entry, which nothing limits, are recorded among    *)
(* theirs: those take from the quota and never add to it.                  *)
(***************************************************************************)
QuotaHolds == \A s \in Service : metered[s][QuotaWindow] <= Quota[s]

(***************************************************************************)
(* A breaker shuts an API while it fails and never for good: no call gets  *)
(* a slot when the last Threshold outcomes were failures, the last of them *)
(* within Recovery, and none is refused by the breaker otherwise, although *)
(* outcomes of calls that began long before may come in between.           *)
(***************************************************************************)
BreakerFollowsFailures ==
    [][\A s \in Service :
          LET failing == failures[s] >= Threshold /\ sinceFailure[s] <= Recovery
          IN  /\ failing => charged'[s][1] <= charged[s][1]
              /\ (lastVerdict[s] # "open" /\ lastVerdict'[s] = "open") => failing]_governorVars

(***************************************************************************)
(* The limits of the governor hold, for agents and for APIs: the two       *)
(* above, and the types.                                                   *)
(***************************************************************************)
LimitsHold == GovernorTypeOK /\ SlotsAreHeld /\ QuotaHolds
=================================================================================
