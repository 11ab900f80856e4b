-------------------------- MODULE IdempotentCommands --------------------------
(***************************************************************************)
(* What the API promises about commands (docs/03-api-specification.md:59): *)
(* the first request with a key claims it, every response to a request     *)
(* with that key names the claimed task, and a task is dispatched by the   *)
(* claim that created it, once.  The promise ends with the 24 hours of a   *)
(* claim: its key lapses, and what is left is that a response names a task *)
(* that was made for a request with the same key.  With the dispatch       *)
(* switched off the responses are the same and nothing is dispatched.      *)
(***************************************************************************)
CONSTANTS Request, Key, NoKey, NoTask, Failed, TaskDispatchEnabled

VARIABLES
    keyOf,    \* the key a request carries
    taskOf,   \* the task a key is claimed for, or NoTask
    reply,    \* the task a response names, or Failed
    sent,     \* tasks that have been dispatched
    lapsed    \* keys whose first claim has ended

vars == <<keyOf, taskOf, reply, sent, lapsed>>

Init ==
    /\ keyOf = [r \in Request |-> NoKey]
    /\ taskOf = [k \in Key |-> NoTask]
    /\ reply = [r \in Request |-> NoTask]
    /\ sent = {} /\ lapsed = {}

Carry(r, k) ==
    /\ reply[r] = NoTask
    /\ keyOf[r] = NoKey
    /\ keyOf' = [keyOf EXCEPT ![r] = k]
    /\ UNCHANGED <<taskOf, reply, sent, lapsed>>

Claim(r) ==
    /\ keyOf[r] \in Key \ lapsed
    /\ taskOf[keyOf[r]] = NoTask
    /\ taskOf' = [taskOf EXCEPT ![keyOf[r]] = r]
    /\ UNCHANGED <<keyOf, reply, sent, lapsed>>

\* The task a request may name and dispatch: the one its key is claimed for.
TaskFor(r) == IF keyOf[r] = NoKey THEN r ELSE taskOf[keyOf[r]]

Reply(r) ==
    /\ reply[r] = NoTask
    /\ keyOf[r] \in Key
    /\ TaskFor(r) # NoTask
    /\ reply' = [reply EXCEPT ![r] = TaskFor(r)]
    /\ UNCHANGED <<keyOf, taskOf, sent, lapsed>>

Dispatch(r) ==
    /\ reply[r] = NoTask
    /\ TaskFor(r) = r
    /\ r \notin sent
    /\ \/ /\ sent' = IF TaskDispatchEnabled THEN sent \cup {r} ELSE sent
          /\ reply' = [reply EXCEPT ![r] = r]
       \/ /\ TaskDispatchEnabled
          /\ sent' \in {sent, sent \cup {r}} /\ reply' = [reply EXCEPT ![r] = Failed]
    /\ UNCHANGED <<keyOf, taskOf, lapsed>>

Lapse(k) ==
    /\ k \notin lapsed
    /\ lapsed' = lapsed \cup {k}
    /\ taskOf' = [taskOf EXCEPT ![k] = NoTask]
    /\ UNCHANGED <<keyOf, reply, sent>>

\* A request whose key has lapsed.
Beyond(r) ==
    /\ reply[r] = NoTask
    /\ keyOf[r] \in lapsed
    /\ \E t \in {Failed} \cup {q \in Request : keyOf[q] = keyOf[r]} :
          reply' = [reply EXCEPT ![r] = t]
    /\ sent' \in {sent, sent \cup {r}}
    /\ UNCHANGED <<keyOf, taskOf, lapsed>>

Next ==
    \/ \E k \in Key : Lapse(k)
    \/ \E r \in Request :
        \/ \E k \in Key : Carry(r, k)
        \/ Claim(r) \/ Reply(r) \/ Dispatch(r) \/ Beyond(r)

Spec == Init /\ [][Next]_vars
===============================================================================
