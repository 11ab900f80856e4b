---------------------------- MODULE DecisionEngine ----------------------------
(***************************************************************************)
(* DecisionEngine (decision.py): tasks are scored once, wait in a queue    *)
(* that is sorted at every arrival, and get API budgets when they are      *)
(* dispatched.  Every method runs to its end without an await.             *)
(***************************************************************************)
EXTENDS Integers, Sequences, FiniteSets, FiniteSetsExt, SequencesExt

CONSTANTS
    Task,          \* tasks, by their id
    Profile,       \* task -> [type, impact, drop, deadline, waited], see Impact and Urgency
    Target,        \* task -> target_agent
    Requests,      \* the numbers of requests that are asked for directly
    Claims         \* sequences of claimants [agent, score] of a conflict

Agent == {"sentinel", "forge", "technical", "scout", "outreach", "competitor"}

ASSUME DecisionAssumption ==
    /\ \A t \in Task : /\ Profile[t].impact \in Nat /\ Target[t] \in Agent
                       /\ {Profile[t].drop, Profile[t].deadline, Profile[t].waited} \subseteq Int
    /\ Requests \subseteq Nat
    /\ \A claims \in Claims : /\ Len(claims) \in Nat \ {0} /\ DOMAIN claims = 1..Len(claims)
                             /\ \A i \in 1..Len(claims) : claims[i].score \in Int

VARIABLES
    queue,         \* _task_queue: <<task, score>>
    used,          \* _used_today
    dispatched,    \* _dispatched_tasks: [task, granted]
    resolution,    \* history: the last conflict and its resolution
    arrived        \* history: tasks in the order of score_and_queue

decisionVars == <<queue, used, dispatched, resolution, arrived>>

(***************************************************************************)
(* PriorityScorer.  The maps are in tenths and impacts are whole points.   *)
(* Scores are in 84ths of a point, of which effort times risk always gives *)
(* a whole number: two scores tie exactly when they are equal, but for the *)
(* rounding of the code's floating-point numbers, which is left out.       *)
(***************************************************************************)
Factors(type) ==    \* <<confidence, effort, risk>>, the defaults for a type that is not listed
    CASE type = "rank_drop" -> <<8, 30, 2>>
      [] type \in {"cwv_issue"} -> <<9, 40, 1>>
      [] type = "broken_link" -> <<9, 20, 1>>
      [] type = "content_audit" -> <<7, 50, 3>>
      [] type = "haro" -> <<5, 60, 4>>
      [] type = "guest_post" -> <<4, 70, 5>>
      [] type = "unlinked_mention" -> <<6, 40, 3>>
      [] type = "competitor_overtake" -> <<7, 60, 2>>
      [] type = "keyword_gap" -> <<6, 30, 2>>
      [] OTHER -> <<5, 50, 3>>

\* Volume, position and revenue are capped by themselves, their sum with the rest at 10.
Impact(p) == Min({p.impact, 10})

Ageing(p) == (IF p.waited > 48 THEN 2 ELSE 0) + (IF p.waited > 168 THEN 1 ELSE 0)

Urgency(p) ==
    CASE p.type = "haro" /\ p.deadline < 2 -> 10
      [] p.type = "rank_drop" /\ p.drop >= 5 -> 9
      [] p.type \in {"cwv_critical", "outreach_reply"} -> 8
      [] p.type \in {"broken_link_spike", "competitor_overtake"} -> 7
      [] OTHER -> 5 + Ageing(p)

Capped(score) == Min({8400, score})

\* impact * urgency * confidence / (effort * risk) * 10, in 84ths, capped.
Normalized(p) ==
    LET f == Factors(p.type)
    IN  Capped((Impact(p) * Urgency(p) * f[1] * 8400) \div (f[2] * f[3]))

Priority(score) ==
    CASE score >= 6720 -> "P0"
      [] score >= 5040 -> "P1"
      [] score >= 3360 -> "P2"
      [] OTHER -> "P3"

(***************************************************************************)
(* ResourceAllocator.  The budgets are kept under other names than the     *)
(* shares; what has no entry counts as 0.                                  *)
(***************************************************************************)
DailyBudget == [dataforseo_requests |-> 167, gmail_sends |-> 50, exa_requests |-> 1000,
                tavily_requests |-> 1000, pagespeed_requests |-> 1000,
                gsc_requests |-> 5000, llm_tokens |-> 100000]
Percent == [sentinel |-> [dataforseo |-> 5, gsc |-> 40, pagespeed |-> 10],
            forge |-> [dataforseo |-> 20, exa |-> 40, tavily |-> 50, llm |-> 50, gsc |-> 20],
            technical |-> [pagespeed |-> 80, gsc |-> 20],
            scout |-> [dataforseo |-> 60, gsc |-> 10],
            outreach |-> [gmail |-> 100, exa |-> 40, tavily |-> 30, dataforseo |-> 50, llm |-> 30],
            competitor |-> [exa |-> 20, tavily |-> 20, dataforseo |-> 15]]
Api == DOMAIN DailyBudget \cup UNION {DOMAIN Percent[a] : a \in Agent}

Daily(api) == IF api \in DOMAIN DailyBudget THEN DailyBudget[api] ELSE 0
Share(agent, api) == IF api \in DOMAIN Percent[agent] THEN Percent[agent][api] ELSE 0
TotalUsed(u, api) ==
    u.sentinel[api] + u.forge[api] + u.technical[api] + u.scout[api] + u.outreach[api] + u.competitor[api]

Pool(u, api) == Max({0, Daily(api) - TotalUsed(u, api)})

\* allocate: the agent's own budget, then what is left of the day for everyone.
Granted(u, agent, api, requested) ==
    LET own == Max({0, (Daily(api) * Share(agent, api)) \div 100 - u[agent][api]})
    IN  Min({requested, IF own < requested THEN own + Pool(u, api) ELSE own})

DispatchApis == <<"dataforseo", "gsc", "exa", "tavily", "gmail", "llm">>

(***************************************************************************)
(* ConflictResolver: the first claimant with the highest score wins, and   *)
(* whoever differs from it loses; for the language model, everyone after   *)
(* it in the order of the scores.                                          *)
(***************************************************************************)
Winner(claims) ==
    SelectInSeq(claims, LAMBDA c : \A i \in DOMAIN claims : claims[i].score <= c.score)
Losers(type, claims) ==
    IF type = "llm_contention"
    THEN {claims[i].agent : i \in DOMAIN claims \ {Winner(claims)}}
    ELSE {claims[i].agent : i \in {j \in DOMAIN claims : claims[j] # claims[Winner(claims)]}}

Quiet == [type |-> "none", claims |-> <<>>, winner |-> "none", losers |-> {}]

DecisionInit ==
    /\ queue = <<>> /\ dispatched = <<>> /\ arrived = <<>> /\ resolution = Quiet
    /\ used = [a \in Agent |-> [api \in Api |-> 0]]

\* Mutant of AheadOf: a task goes before those that score as much.
StrictlyAhead(q, entry) == {i \in DOMAIN q : q[i][2] > entry[2]}
AheadOf(q, entry) == {i \in DOMAIN q : q[i][2] >= entry[2]}

\* sort(reverse=True) is stable: a new task goes behind those that score as much.
Sorted(q, entry) == InsertAt(q, Cardinality(AheadOf(q, entry)) + 1, entry)

ScoreAndQueue(t) ==
    /\ t \notin ToSet(arrived)
    /\ queue' = Sorted(queue, <<t, Normalized(Profile[t])>>)
    /\ arrived' = Append(arrived, t) /\ resolution' = Quiet
    /\ UNCHANGED <<used, dispatched>>

\* get_next_task, and dispatch_task for what it returned: ten requests of each API.
Dispatch ==
    /\ queue # <<>>
    /\ LET t == Head(queue)[1]
           agent == Target[t]
           got == [api \in ToSet(DispatchApis) |-> Granted(used, agent, api, 10)]
       IN  /\ dispatched' = Append(dispatched, [task |-> t, priority |-> Priority(Head(queue)[2]),
                                                 granted |-> got])
           /\ used' = [used EXCEPT ![agent] =
                          [api \in Api |-> @[api] + IF api \in DOMAIN got THEN got[api] ELSE 0]]
    /\ queue' = Tail(queue) /\ resolution' = Quiet
    /\ UNCHANGED arrived

Allocate(agent, api, requested) ==
    /\ used' = [used EXCEPT ![agent][api] = @ + Granted(used, agent, api, requested)]
    /\ resolution' = Quiet
    /\ UNCHANGED <<queue, dispatched, arrived>>

\* A conflict shares nothing with the queue and the budgets: it comes before them.
Resolve(type, claims) ==
    /\ arrived = <<>> /\ used = [a \in Agent |-> [api \in Api |-> 0]]
    /\ resolution' = [type |-> type, claims |-> claims,
                      winner |-> claims[Winner(claims)].agent, losers |-> Losers(type, claims)]
    /\ UNCHANGED <<queue, used, dispatched, arrived>>

DecisionNext ==
    \/ \E t \in Task : ScoreAndQueue(t)
    \/ Dispatch
    \/ \E a \in {"outreach", "forge"}, api \in {"gmail", "gmail_sends"}, n \in Requests :
          Allocate(a, api, n)
    \/ \E type \in {"api_budget", "same_url_task", "llm_contention"}, claims \in Claims :
          Resolve(type, claims)

DecisionSpec == DecisionInit /\ [][DecisionNext]_decisionVars

(***************************************************************************)
(* Properties                                                              *)
(***************************************************************************)
(* The queue, the grants and the counters have the values the code gives.  *)
DecisionTypeOK ==
    /\ \A i \in DOMAIN queue : queue[i] \in Task \X (0..8400)
    /\ used \in [Agent -> [Api -> Nat]]
    /\ \A i \in DOMAIN dispatched : dispatched[i].task \in Task

(***************************************************************************)
(* Whatever order tasks arrive and leave in, none is lost or queued twice, *)
(* and among tasks of one score nobody overtakes an earlier one.           *)
(***************************************************************************)
QueueIsFair ==
    /\ {queue[i][1] : i \in DOMAIN queue} =
           ToSet(arrived) \ {dispatched[i].task : i \in DOMAIN dispatched}
    /\ Len(queue) + Len(dispatched) = Len(arrived)
    /\ \A i, j \in DOMAIN queue : i < j =>
          \/ queue[i][2] > queue[j][2]
          \/ /\ queue[i][2] = queue[j][2]
             /\ \E k, l \in DOMAIN arrived : arrived[k] = queue[i][1] /\ arrived[l] = queue[j][1] /\ k < l

(***************************************************************************)
(* The agents together never get more of an API than its budget for the    *)
(* day, although the shares of one API add up to more than the whole.      *)
(***************************************************************************)
GrantsWithinBudget == \A api \in Api : TotalUsed(used, api) <= Daily(api)

(***************************************************************************)
(* Two tasks that differ in one respect are ordered by it: more impact, a  *)
(* longer wait or a larger drop never makes a task less urgent, nor does a *)
(* nearer deadline.                                                        *)
(***************************************************************************)
WorseNeverScoresLower ==
    \A t, u \in ToSet(arrived) :
        LET p == Profile[t]
            q == Profile[u]
        IN  (/\ p.type = q.type /\ p.impact <= q.impact /\ p.waited <= q.waited
             /\ p.drop <= q.drop /\ p.deadline >= q.deadline)
               => Normalized(p) <= Normalized(q)

(***************************************************************************)
(* Everyone who claims a resource hears of the outcome, as the winner or   *)
(* as a loser, and nobody who asked with a higher score loses.             *)
(***************************************************************************)
EveryClaimIsSettled ==
    resolution # Quiet =>
        LET claims == resolution.claims
        IN  /\ {claims[i].agent : i \in DOMAIN claims} = {resolution.winner} \cup resolution.losers
            /\ \E i \in DOMAIN claims :
                  /\ claims[i].agent = resolution.winner
                  /\ \A j \in DOMAIN claims : claims[j].score <= claims[i].score

(***************************************************************************)
(* The decision engine is fair to tasks, agents and claimants: the four    *)
(* above, and the types.                                                   *)
(***************************************************************************)
DecisionsAreFair ==
    /\ DecisionTypeOK
    /\ QueueIsFair
    /\ GrantsWithinBudget
    /\ WorseNeverScoresLower
    /\ EveryClaimIsSettled
===============================================================================
