------------------------------ MODULE MCPlatform ------------------------------
(***************************************************************************)
(* The shared services of the agents and of the API next to one another.   *)
(* They share no state, so that a behaviour is one service's: Init chooses *)
(* it, and the others stay where they begin, with one of their initial     *)
(* states.                                                                 *)
(***************************************************************************)
EXTENDS DecisionEngine, ActionExecutor, ResourceGovernor, RateLimits, Accounts, TenantRecords

VARIABLE part
groupVars == <<decisionVars, executorVars, governorVars, rateVars, accountVars, recordVars, part>>

(***************************************************************************)
(* Instances                                                               *)
(***************************************************************************)
Facts(type, impact, drop, deadline, waited) ==
    [type |-> type, impact |-> impact, drop |-> drop, deadline |-> deadline, waited |-> waited]
MCProfile ==
    [drop |-> Facts("rank_drop", 12, 6, 99, 0),
     gap_young |-> Facts("keyword_gap", 1, 0, 99, 100),
     gap_old |-> Facts("keyword_gap", 1, 0, 99, 200),
     gap_twin |-> Facts("keyword_gap", 1, 0, 99, 200),
     haro |-> Facts("haro", 6, 0, 1, 0)]
MCTarget == [drop |-> "forge", gap_young |-> "scout", gap_old |-> "scout",
             gap_twin |-> "forge", haro |-> "outreach"]
MCClaims == UNION {[1..n -> [agent : {"scout", "forge"}, score : {1, 2}]] : n \in 1..2}

MCKindOf == [mail |-> "email", note |-> "notification", map |-> "sitemap",
             ping |-> "indexing", fix |-> "local", junk |-> "local"]

\* outreach and executor have an entry for the API, forge has none.
MCAgentOf == [g1 |-> "outreach", g2 |-> "outreach", g3 |-> "executor", g4 |-> "forge"]
MCApiOf == [c \in Call |-> "gmail"]
MCSlots == [outreach |-> 1, executor |-> 2, forge |-> 2]
MCQuota == [gmail |-> 2]

(***************************************************************************)
(* The choices of Init that only matter to their own part are made once    *)
(* in the others.                                                          *)
(***************************************************************************)
Init ==
    /\ part \in {"decide", "execute", "govern", "limit", "accounts", "records"}
    /\ DecisionInit /\ GovernorInit
    /\ ExecutorInit /\ (part # "execute" => clients = {})
    /\ RateInit /\ (part # "limit" => limiter = "bucket")
    /\ AccountsInit /\ (part # "accounts" =>
                            ~postgres /\ email = [s \in Signup |-> CHOOSE e \in Email : TRUE])
    /\ RecordsInit /\ (part # "records" => ~sql /\ owner = [k \in Id |-> Nobody])

Next ==
    \/ /\ part = "decide" /\ DecisionNext
       /\ UNCHANGED <<executorVars, governorVars, rateVars, accountVars, recordVars, part>>
    \/ /\ part = "execute" /\ ExecutorNext
       /\ UNCHANGED <<decisionVars, governorVars, rateVars, accountVars, recordVars, part>>
    \/ /\ part = "govern" /\ GovernorNext
       /\ UNCHANGED <<decisionVars, executorVars, rateVars, accountVars, recordVars, part>>
    \/ /\ part = "limit" /\ RateNext
       /\ UNCHANGED <<decisionVars, executorVars, governorVars, accountVars, recordVars, part>>
    \/ /\ part = "accounts" /\ AccountsNext
       /\ UNCHANGED <<decisionVars, executorVars, governorVars, rateVars, recordVars, part>>
    \/ /\ part = "records" /\ RecordsNext
       /\ UNCHANGED <<decisionVars, executorVars, governorVars, rateVars, accountVars, part>>

Spec == Init /\ [][Next]_groupVars
===============================================================================
