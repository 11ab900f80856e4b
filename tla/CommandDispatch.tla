--------------------------- MODULE CommandDispatch ---------------------------
(***************************************************************************)
(* The command endpoints of the API: the idempotency record in Redis and   *)
(* the dispatch of the agent task (api/app.py: _generic_handler,           *)
(* _idempotency_get, _idempotency_put).                                    *)
(*                                                                         *)
(* Each round trip to Redis is a step.  A request creates one task, so a   *)
(* task is named by the request that created it.  A key stands for the     *)
(* digest of organisation, operation and Idempotency-Key.                  *)
(***************************************************************************)
EXTENDS Naturals, FiniteSets

CONSTANTS
    Request,       \* command requests, each served once
    Key,           \* idempotency records they may share
    NoKey,         \* a request without the header
    NoTask,        \* no reply yet, or no record
    Failed,        \* the reply of a request whose send_task raised
    TaskDispatchEnabled,   \* task_dispatch_enabled: off by default, on in docker-compose.yml
    MaxExpiries,   \* bound on the times a record outlives its 24 hours
    MaxFaults      \* bound on crashed handlers and failed sends

ASSUME DispatchBounds == MaxExpiries \in Nat /\ MaxFaults \in Nat
ASSUME RequestFinite == IsFiniteSet(Request)
ASSUME Distinct == /\ NoKey \notin Key
                   /\ NoTask \notin Request
                   /\ Failed \notin Request \cup {NoTask}
ASSUME Switch == TaskDispatchEnabled \in BOOLEAN

VARIABLES
    pc,         \* where each request is
    keyOf,      \* the key each request carries
    entry,      \* Redis: the task recorded for a key, or NoTask
    reply,      \* the task named in the 202 response, or Failed
    sent,       \* tasks handed to the broker
    inserted,   \* history: requests whose SET NX inserted a record
    expiries,   \* history: how often the record of each key expired
    faults      \* how many faults have happened

vars == <<pc, keyOf, entry, reply, sent, inserted, expiries, faults>>

Stage == {"new", "get", "put", "reread", "send", "done", "gone"}

TypeOK ==
    /\ pc \in [Request -> Stage]
    /\ keyOf \in [Request -> Key \cup {NoKey}]
    /\ entry \in [Key -> Request \cup {NoTask}]
    /\ reply \in [Request -> Request \cup {NoTask, Failed}]
    /\ sent \subseteq Request
    /\ inserted \subseteq Request
    /\ expiries \in [Key -> 0 .. MaxExpiries]
    /\ faults \in 0 .. MaxFaults

Init ==
    /\ pc = [r \in Request |-> "new"]
    /\ keyOf = [r \in Request |-> NoKey]
    /\ entry = [k \in Key |-> NoTask]
    /\ reply = [r \in Request |-> NoTask]
    /\ sent = {}
    /\ inserted = {}
    /\ expiries = [k \in Key |-> 0]
    /\ faults = 0

Goto(r, stage) == pc' = [pc EXCEPT ![r] = stage]

Answer(r, t) ==
    /\ Goto(r, "done")
    /\ reply' = [reply EXCEPT ![r] = t]

(***************************************************************************)
(* The request arrives.  Without a key it goes straight to the dispatch.   *)
(***************************************************************************)
Arrive(r, k) ==
    /\ pc[r] = "new"
    /\ keyOf' = [keyOf EXCEPT ![r] = k]
    /\ Goto(r, IF k = NoKey THEN "send" ELSE "get")
    /\ UNCHANGED <<entry, reply, sent, inserted, expiries, faults>>

(***************************************************************************)
(* _idempotency_get: a recorded task is the answer; else a task is made.   *)
(***************************************************************************)
GetHit(r) ==
    /\ pc[r] = "get"
    /\ entry[keyOf[r]] # NoTask
    /\ Answer(r, entry[keyOf[r]])
    /\ UNCHANGED <<keyOf, entry, sent, inserted, expiries, faults>>

GetMiss(r) ==
    /\ pc[r] = "get"
    /\ entry[keyOf[r]] = NoTask
    /\ Goto(r, "put")
    /\ UNCHANGED <<keyOf, entry, reply, sent, inserted, expiries, faults>>

(***************************************************************************)
(* _idempotency_put: SET NX, and a read of the record that was there.  A   *)
(* record that expired between the two leaves this request with its own    *)
(* task, which is neither recorded nor dispatched.                         *)
(***************************************************************************)
\* Mutants of PutInserts: SET without NX; the response returned before the task is sent.
PutOverwrites(r) ==
    /\ pc[r] = "put"
    /\ entry' = [entry EXCEPT ![keyOf[r]] = r]
    /\ inserted' = inserted \cup {r}
    /\ Goto(r, "send")
    /\ UNCHANGED <<keyOf, reply, sent, expiries, faults>>

PutUnsent(r) ==
    /\ pc[r] = "put"
    /\ entry[keyOf[r]] = NoTask
    /\ entry' = [entry EXCEPT ![keyOf[r]] = r]
    /\ inserted' = inserted \cup {r}
    /\ Answer(r, r)
    /\ UNCHANGED <<keyOf, sent, expiries, faults>>

PutInserts(r) ==
    /\ pc[r] = "put"
    /\ entry[keyOf[r]] = NoTask
    /\ entry' = [entry EXCEPT ![keyOf[r]] = r]
    /\ inserted' = inserted \cup {r}
    /\ Goto(r, "send")
    /\ UNCHANGED <<keyOf, reply, sent, expiries, faults>>

\* Mutant of PutFinds: the SET NX is tried again until it succeeds.
PutRetries(r) ==
    /\ pc[r] = "put"
    /\ entry[keyOf[r]] # NoTask
    /\ UNCHANGED vars

PutFinds(r) ==
    /\ pc[r] = "put"
    /\ entry[keyOf[r]] # NoTask
    /\ Goto(r, "reread")
    /\ UNCHANGED <<keyOf, entry, reply, sent, inserted, expiries, faults>>

\* Mutant of Reread: the request answers with the task it had made itself.
RereadOwn(r) ==
    /\ pc[r] = "reread"
    /\ Answer(r, r)
    /\ UNCHANGED <<keyOf, entry, sent, inserted, expiries, faults>>

Reread(r) ==
    /\ pc[r] = "reread"
    /\ Answer(r, IF entry[keyOf[r]] = NoTask THEN r ELSE entry[keyOf[r]])
    /\ UNCHANGED <<keyOf, entry, sent, inserted, expiries, faults>>

(***************************************************************************)
(* send_task, when it succeeds, and when it raises: the response is then   *)
(* an error, and the broker may or may not hold the message.  While the    *)
(* dispatch is switched off the response is the same, and nothing is sent. *)
(***************************************************************************)
Send(r) ==
    /\ pc[r] = "send"
    /\ sent' = IF TaskDispatchEnabled THEN sent \cup {r} ELSE sent
    /\ Answer(r, r)
    /\ UNCHANGED <<keyOf, entry, inserted, expiries, faults>>

SendRaises(r) ==
    /\ TaskDispatchEnabled /\ pc[r] = "send"
    /\ faults < MaxFaults
    /\ faults' = faults + 1
    /\ sent' \in {sent, sent \cup {r}}
    /\ Answer(r, Failed)
    /\ UNCHANGED <<keyOf, entry, inserted, expiries>>

(***************************************************************************)
(* The API process dies inside the request; a record expires.              *)
(***************************************************************************)
Crash(r) ==
    /\ pc[r] \in {"get", "put", "reread", "send"}
    /\ faults < MaxFaults
    /\ faults' = faults + 1
    /\ Goto(r, "gone")
    /\ UNCHANGED <<keyOf, entry, reply, sent, inserted, expiries>>

Expire(k) ==
    /\ entry[k] # NoTask
    /\ expiries[k] < MaxExpiries
    /\ entry' = [entry EXCEPT ![k] = NoTask]
    /\ expiries' = [expiries EXCEPT ![k] = @ + 1]
    /\ UNCHANGED <<pc, keyOf, reply, sent, inserted, faults>>

Serve(r) ==
    \/ GetHit(r) \/ GetMiss(r)
    \/ PutInserts(r) \/ PutFinds(r) \/ Reread(r)
    \/ Send(r)

Next ==
    \/ \E r \in Request :
          \/ \E k \in Key \cup {NoKey} : Arrive(r, k)
          \/ Serve(r)
          \/ SendRaises(r)
          \/ Crash(r)
    \/ \E k \in Key : Expire(k)

(***************************************************************************)
(* The event loop resumes a handler whose reply from Redis has come.       *)
(***************************************************************************)
Fairness == \A r \in Request : WF_vars(Serve(r))

Spec == Init /\ [][Next]_vars /\ Fairness

(***************************************************************************)
(* Properties                                                              *)
(***************************************************************************)
SentFor(k) == {r \in sent : keyOf[r] = k}

(***************************************************************************)
(* However its requests race, crash or are retried, a key has at most one  *)
(* task dispatched per 24-hour window (docs/03-api-specification.md:59).   *)
(***************************************************************************)
OneDispatchPerWindow ==
    \A k \in Key : Cardinality(SentFor(k)) <= expiries[k] + 1

(***************************************************************************)
(* While the record of a key lives, all its responses name one task, and   *)
(* that is the task on record.                                             *)
(***************************************************************************)
RepliesAgree ==
    \A r \in Request :
        (keyOf[r] \in Key /\ expiries[keyOf[r]] = 0 /\ reply[r] \in Request)
            => reply[r] = entry[keyOf[r]]

(***************************************************************************)
(* A task named in a 202 response is with the broker or about to be, when  *)
(* the dispatch is switched on, nothing crashed, no send failed and no     *)
(* record expired meanwhile.                                               *)
(***************************************************************************)
AnsweredIsDispatched ==
    TaskDispatchEnabled /\ faults = 0 =>
        \A r \in Request :
            (reply[r] \in Request /\ (keyOf[r] \in Key => expiries[keyOf[r]] = 0))
                => reply[r] \in sent \/ pc[reply[r]] = "send"

(***************************************************************************)
(* A task reported as queued reaches the broker (api/app.py:395).          *)
(***************************************************************************)
QueuedIsDispatched ==
    \A r, t \in Request : (reply[r] = t) ~> (t \in sent)

(***************************************************************************)
(* A request that arrived gets its response, unless its process died.      *)
(***************************************************************************)
EveryRequestAnswered ==
    \A r \in Request : (pc[r] = "get") ~> (pc[r] \in {"done", "gone"})

(***************************************************************************)
(* The endpoints implement idempotent commands: a record that lives is the *)
(* claim of its key, and the key lapses when its first record expires.     *)
(***************************************************************************)
Claimed == [k \in Key |-> IF expiries[k] = 0 THEN entry[k] ELSE NoTask]
Lapsed == {k \in Key : expiries[k] > 0}

Commands == INSTANCE IdempotentCommands WITH taskOf <- Claimed, lapsed <- Lapsed

ImplementsCommands == Commands!Spec
==============================================================================
