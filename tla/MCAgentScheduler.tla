--------------------------- MODULE MCAgentScheduler ---------------------------
(* One agent name, and an interval schedule and two event schedules that share it. *)
EXTENDS AgentScheduler
MCNameOf == [a \in Agent |-> "outreach"]
MCTargetOf == [t \in Schedule |-> "outreach"]
===============================================================================
