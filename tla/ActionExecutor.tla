---------------------------- MODULE ActionExecutor ----------------------------
(***************************************************************************)
(* ActionExecutor and its RollbackManager (executor.py): overlapping calls *)
(* of execute on one executor.  A step is the code between two awaits; the *)
(* only awaits are the calls a handler makes to Gmail, to a webhook, to a  *)
(* search engine or to the search console.                                 *)
(***************************************************************************)
EXTENDS Integers, Sequences, FiniteSets, FiniteSetsExt, SequencesExt

CONSTANTS
    Execution,    \* coroutines that call execute
    Action,       \* actions, by their id
    KindOf,       \* what the handler of an action does, see Kind
    Malformed,    \* actions of an unknown type or without a required parameter
    Gated,        \* actions with requires_approval
    NoAction,
    MaxHistory,   \* RollbackManager.max_history
    MaxExecutes   \* bound: calls of execute

\* local: returns without a call, as do the CMS handlers with or without a client.
Kind == {"email", "notification", "sitemap", "indexing", "local"}
Client == {"gmail", "gsc", "slack"}
Status == {"success", "failed", "rolled_back", "pending_approval"}

ASSUME ExecutorAssumption ==
    /\ KindOf \in [Action -> Kind]
    /\ Gated \subseteq Action
    /\ MaxHistory \in Nat \ {0} /\ NoAction \notin Action

VARIABLES
    clients,        \* the clients and channels that are configured
    executorState,  \* self.state
    history,        \* _rollback_history: ids, the oldest point first
    approved,       \* actions an operator approved
    executing,      \* of every coroutine: the action it awaits a call for
    callsLeft,      \* calls of its handler that did not answer yet
    log,            \* _execution_log: number of entries per action and status
    delivered,      \* history: what the outside received of an action
    newer           \* history: actions that began since the coroutine's own

executorVars == <<clients, executorState, history, approved, executing, callsLeft, log,
                  delivered, newer>>

\* Entries that say that the action was carried out, if only to be rolled back, and all.
CarriedOut(a) == log[a]["success"] + log[a]["rolled_back"]
Entries == MapThenSumSet(LAMBDA a : MapThenSumSet(LAMBDA s : log[a][s], Status), Action)
InFlight(a) == {c \in Execution : executing[c] = a}

ExecutorInit ==
    /\ clients \in SUBSET Client
    /\ executorState = "received" /\ history = <<>> /\ approved = {}
    /\ executing = [c \in Execution |-> NoAction]
    /\ callsLeft = [c \in Execution |-> 0]
    /\ log = [a \in Action |-> [s \in Status |-> 0]]
    /\ delivered = [a \in Action |-> 0] /\ newer = [c \in Execution |-> {}]

\* The calls a handler awaits, one after the other, with these clients.
CallsOf(a) ==
    CASE KindOf[a] = "email" -> Cardinality(clients \cap {"gmail"})
      [] KindOf[a] = "notification" -> Cardinality(clients \cap {"slack", "gmail"})
      [] KindOf[a] = "sitemap" -> 2
      [] KindOf[a] = "indexing" -> Cardinality(clients \cap {"gsc"})
      [] OTHER -> 0

Trimmed(points) == IF Len(points) > MaxHistory THEN Tail(points) ELSE points

\* create_rollback_point: a new point, then the oldest goes if there are too many.
Pointed(h, a) == Trimmed(Append(RemoveFirst(h, a), a))

Record(a, status) == log' = [log EXCEPT ![a][status] = @ + 1]

\* Where execute ends: verified, or rolled back, which only reads the point.
Finish(a, status) ==
    /\ Record(a, status)
    /\ executorState' = IF status = "success" THEN "done" ELSE "failed"

Waits(a) == a \in Gated \ approved

(***************************************************************************)
(* execute, up to its first await or its return.                           *)
(***************************************************************************)
Refused(c, a) ==
    /\ a \in Malformed \/ Waits(a)
    /\ Record(a, IF a \in Malformed THEN "failed" ELSE "pending_approval")
    /\ executorState' = "validating"
    /\ UNCHANGED <<history, executing, callsLeft, newer>>

Begun(c, a) ==
    /\ a \notin Malformed /\ ~Waits(a)
    /\ history' = Pointed(history, a)
    /\ newer' = [d \in Execution |-> IF d = c THEN {} ELSE newer[d] \cup {a}]
    /\ IF CallsOf(a) > 0
       THEN /\ executorState' = "executing"
            /\ executing' = [executing EXCEPT ![c] = a]
            /\ callsLeft' = [callsLeft EXCEPT ![c] = CallsOf(a)]
            /\ UNCHANGED log
       ELSE /\ Finish(a, IF KindOf[a] = "email" THEN "failed" ELSE "success")
            /\ UNCHANGED <<executing, callsLeft>>

Execute(c, a) ==
    /\ executing[c] = NoAction
    /\ Cardinality({d \in Execution : executing[d] # NoAction}) + Entries < MaxExecutes
    /\ Refused(c, a) \/ Begun(c, a)
    /\ UNCHANGED <<clients, approved, delivered>>

(***************************************************************************)
(* A call answers, or raises before or after the other side acted on it.   *)
(* Only the email handler lets the exception through; only for an email    *)
(* does _verify_execution look into the result.                            *)
(***************************************************************************)
\* Mutant of Verdict: an exception is rolled back like a bad answer.
VerdictOfBoth(a, answer) == IF KindOf[a] # "email" \/ answer = "id" THEN "success" ELSE "rolled_back"

Verdict(a, answer) ==
    IF KindOf[a] # "email" \/ answer = "id" THEN "success"
    ELSE IF answer = "raise" THEN "failed" ELSE "rolled_back"

CallAnswered(c) ==
    \E answer \in {"id", "no_id", "raise"}, acted \in BOOLEAN :
        LET a == executing[c]
        IN  /\ a # NoAction
            /\ acted \/ answer = "raise"
            /\ delivered' = [delivered EXCEPT ![a] = @ + (IF acted THEN 1 ELSE 0)]
            /\ IF callsLeft[c] > 1
               THEN /\ callsLeft' = [callsLeft EXCEPT ![c] = @ - 1]
                    /\ UNCHANGED <<executing, newer, log, executorState>>
               ELSE /\ callsLeft' = [callsLeft EXCEPT ![c] = 0]
                    /\ executing' = [executing EXCEPT ![c] = NoAction]
                    /\ newer' = [newer EXCEPT ![c] = {}]
                    /\ Finish(a, Verdict(a, answer))
            /\ UNCHANGED <<clients, history, approved>>

\* The operator sets action.approved.
Approve(a) ==
    /\ a \in Gated \ approved
    /\ approved' = approved \cup {a}
    /\ UNCHANGED <<clients, executorState, history, executing, callsLeft, log, delivered, newer>>

ExecutorNext ==
    \/ \E c \in Execution : CallAnswered(c) \/ \E a \in Action : Execute(c, a)
    \/ \E a \in Action : Approve(a)

ExecutorSpec == ExecutorInit /\ [][ExecutorNext]_executorVars

(***************************************************************************)
(* Properties                                                              *)
(***************************************************************************)
(* The fields of the executor have the values the code gives them.         *)
ExecutorTypeOK ==
    /\ executorState \in {"received", "validating", "executing", "done", "failed"}
    /\ Len(history) <= MaxHistory /\ IsInjective(history) /\ ToSet(history) \subseteq Action
    /\ executing \in [Execution -> Action \cup {NoAction}]
    /\ \A c \in Execution : callsLeft[c] > 0 <=> executing[c] # NoAction

(***************************************************************************)
(* One execute sends at most one email, and the log does not hide one:     *)
(* what it calls a success or a rollback was sent, and only an entry that  *)
(* says failed leaves open whether the message went out.                   *)
(***************************************************************************)
EmailsMatchTheLog ==
    \A a \in Action : KindOf[a] = "email" =>
        /\ CarriedOut(a) <= delivered[a]
        /\ delivered[a] <= CarriedOut(a) + log[a]["failed"]

(***************************************************************************)
(* While an action is executed its rollback point is there to go back to,  *)
(* unless at least MaxHistory other actions began in the meantime.         *)
(***************************************************************************)
PointOutlivesFewer ==
    \A c \in Execution : executing[c] # NoAction =>
        \/ executing[c] \in ToSet(history)
        \/ Cardinality(newer[c] \ {executing[c]}) >= MaxHistory

(***************************************************************************)
(* The shared state says "executing" only while some action is in flight:  *)
(* overlapping executions may hide one another, but none leaves the        *)
(* executor busy for good.                                                 *)
(***************************************************************************)
ExecutingMeansInFlight ==
    executorState = "executing" => \E c \in Execution : executing[c] # NoAction

(***************************************************************************)
(* Whatever was in flight when, nothing an operator has to approve reaches *)
(* the outside before that, and what waits for approval left no trace.     *)
(***************************************************************************)
NothingUnapprovedGoesOut ==
    \A a \in Gated \ approved :
        /\ delivered[a] = 0 /\ InFlight(a) = {} /\ a \notin ToSet(history)
        /\ CarriedOut(a) = 0

(***************************************************************************)
(* However executions overlap and their calls fail, the log, the points,   *)
(* the state and the approvals tell what happened: the four above, and the *)
(* types.                                                                  *)
(***************************************************************************)
ExecutionIsAccounted ==
    /\ ExecutorTypeOK
    /\ EmailsMatchTheLog
    /\ PointOutlivesFewer
    /\ ExecutingMeansInFlight
    /\ NothingUnapprovedGoesOut
===============================================================================
