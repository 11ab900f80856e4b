----------------------------- MODULE TaskDelivery -----------------------------
(***************************************************************************)
(* Agent tasks between send_task and their result: Celery over a Redis     *)
(* broker as celery_app.py configures it (late acknowledgement, requeue    *)
(* when a worker process is lost, a one-hour visibility timeout, one       *)
(* message per process, a bounded dead-letter list), and the agent run     *)
(* itself (agent_tasks.py, agents/base.py).                                *)
(*                                                                         *)
(* A message is in its queue, or unacknowledged under the delivery of one  *)
(* worker, or gone.  A restore gives it back to its queue while the worker *)
(* may still be running it; what that worker acknowledges later is then a  *)
(* delivery Redis no longer knows, and changes nothing.                    *)
(***************************************************************************)
EXTENDS Naturals, Sequences, FiniteSets

CONSTANTS
    Command,       \* tasks the API sends
    Tick,          \* heartbeats the beat schedule sends
    Worker,        \* worker processes, each with one message at a time
    NoMessage,
    MaxLosses,     \* bound on worker processes lost and workers killed
    MaxTimeouts,   \* bound on runs that outlive the visibility timeout
    DlqLimit       \* length the dead-letter list is trimmed to

ASSUME DeliveryBounds == /\ MaxLosses \in Nat /\ MaxTimeouts \in Nat
                         /\ DlqLimit \in Nat \ {0}
ASSUME DistinctMessages == Command \cap Tick = {} /\ NoMessage \notin Command \cup Tick

Message == Command \cup Tick

VARIABLES
    where,      \* "unsent", "ready" in its queue, "unacked" or "gone"
    owner,      \* the worker of a message's latest delivery
    phase,      \* what each worker does
    job,        \* the message it does it for
    met,        \* what the reported runs of each message met with
    dlq,        \* the dead-letter list, newest first
    runs,       \* history: how often each message was started
    losses,     \* how many processes or workers were lost
    timeouts    \* how many runs were overtaken by the visibility timeout

vars == <<where, owner, phase, job, met, dlq, runs, losses, timeouts>>

Place == {"unsent", "ready", "unacked", "gone"}
Phase == {"idle", "running", "reported", "down"}
Cause == {"ok", "timeout", "error", "invalid"}

TypeOK ==
    /\ where \in [Message -> Place]
    /\ owner \in [Message -> Worker \cup {NoMessage}]
    /\ phase \in [Worker -> Phase]
    /\ job \in [Worker -> Message \cup {NoMessage}]
    /\ met \in [Message -> SUBSET Cause]
    /\ dlq \in Seq(Message) /\ Len(dlq) <= DlqLimit
    /\ runs \in [Message -> Nat]
    /\ losses \in 0 .. MaxLosses
    /\ timeouts \in 0 .. MaxTimeouts

Init ==
    /\ where = [m \in Message |-> "unsent"]
    /\ owner = [m \in Message |-> NoMessage]
    /\ phase = [w \in Worker |-> "idle"]
    /\ job = [w \in Worker |-> NoMessage]
    /\ met = [m \in Message |-> {}]
    /\ dlq = <<>>
    /\ runs = [m \in Message |-> 0]
    /\ losses = 0
    /\ timeouts = 0

(***************************************************************************)
(* task_routes names a queue for the agent tasks only; the workers are     *)
(* started with the queues of the agents.                                  *)
(***************************************************************************)
\* Mutant of QueueOf: the agent tasks have no route.
QueueUnrouted(m) == "celery"

QueueOf(m) == IF m \in Command THEN "agent" ELSE "celery"
ConsumedQueues == {"agent"}

\* The delivery worker w works on is the one Redis holds the message under.
Holds(w, m) == job[w] = m /\ where[m] = "unacked" /\ owner[m] = w

Publish(m) ==
    /\ where[m] = "unsent"
    /\ where' = [where EXCEPT ![m] = "ready"]
    /\ UNCHANGED <<owner, phase, job, met, dlq, runs, losses, timeouts>>

\* Mutant of Deliver: task_acks_late is off, the message is gone on delivery.
DeliverAcked(w, m) ==
    /\ phase[w] = "idle"
    /\ where[m] = "ready"
    /\ QueueOf(m) \in ConsumedQueues
    /\ where' = [where EXCEPT ![m] = "gone"]
    /\ owner' = [owner EXCEPT ![m] = w]
    /\ phase' = [phase EXCEPT ![w] = "running"]
    /\ job' = [job EXCEPT ![w] = m]
    /\ runs' = [runs EXCEPT ![m] = @ + 1]
    /\ UNCHANGED <<met, dlq, losses, timeouts>>

\* Mutant of Deliver: the message is not taken off its queue.
DeliverKept(w, m) ==
    /\ phase[w] = "idle"
    /\ where[m] = "ready"
    /\ QueueOf(m) \in ConsumedQueues
    /\ owner' = [owner EXCEPT ![m] = w]
    /\ phase' = [phase EXCEPT ![w] = "running"]
    /\ job' = [job EXCEPT ![w] = m]
    /\ runs' = [runs EXCEPT ![m] = @ + 1]
    /\ UNCHANGED <<where, met, dlq, losses, timeouts>>

Deliver(w, m) ==
    /\ phase[w] = "idle"
    /\ where[m] = "ready"
    /\ QueueOf(m) \in ConsumedQueues
    /\ where' = [where EXCEPT ![m] = "unacked"]
    /\ owner' = [owner EXCEPT ![m] = w]
    /\ phase' = [phase EXCEPT ![w] = "running"]
    /\ job' = [job EXCEPT ![w] = m]
    /\ runs' = [runs EXCEPT ![m] = @ + 1]
    /\ UNCHANGED <<met, dlq, losses, timeouts>>

(***************************************************************************)
(* A record pushed on the dead-letter list, which is then trimmed.         *)
(***************************************************************************)

DeadLetter(m) ==
    IF Len(dlq) < DlqLimit THEN <<m>> \o dlq
                           ELSE <<m>> \o SubSeq(dlq, 1, DlqLimit - 1)

(***************************************************************************)
(* A run ends and its result is stored.  run_agent validates the payload,  *)
(* which raises when it is invalid, and runs the agent, whose `run` turns  *)
(* every exception of `execute`, a TimeoutError too, into a FAILED result. *)
(* So what RetryingTask retries never reaches it, and only an invalid      *)
(* payload reaches on_failure.                                             *)
(***************************************************************************)
Report(w, cause) ==
    /\ phase[w] = "running"
    /\ met' = [met EXCEPT ![job[w]] = @ \cup {cause}]
    /\ dlq' = IF cause = "invalid" THEN DeadLetter(job[w]) ELSE dlq
    /\ phase' = [phase EXCEPT ![w] = "reported"]
    /\ UNCHANGED <<where, owner, job, runs, losses, timeouts>>

(***************************************************************************)
(* The acknowledgement comes after the result is stored.                   *)
(***************************************************************************)
Acknowledge(w) ==
    /\ phase[w] = "reported"
    /\ where' = IF Holds(w, job[w]) THEN [where EXCEPT ![job[w]] = "gone"] ELSE where
    /\ phase' = [phase EXCEPT ![w] = "idle"]
    /\ job' = [job EXCEPT ![w] = NoMessage]
    /\ UNCHANGED <<owner, met, dlq, runs, losses, timeouts>>

(***************************************************************************)
(* A pool process dies: its worker rejects the message with requeue and    *)
(* starts another process.  A whole worker dies: its message stays         *)
(* unacknowledged until the visibility timeout.                            *)
(***************************************************************************)
LoseProcess(w) ==
    /\ phase[w] \in {"running", "reported"}
    /\ losses < MaxLosses
    /\ losses' = losses + 1
    /\ where' = IF Holds(w, job[w]) THEN [where EXCEPT ![job[w]] = "ready"] ELSE where
    /\ phase' = [phase EXCEPT ![w] = "idle"]
    /\ job' = [job EXCEPT ![w] = NoMessage]
    /\ UNCHANGED <<owner, met, dlq, runs, timeouts>>

KillWorker(w) ==
    /\ phase[w] # "down"
    /\ losses < MaxLosses
    /\ losses' = losses + 1
    /\ phase' = [phase EXCEPT ![w] = "down"]
    /\ job' = [job EXCEPT ![w] = NoMessage]
    /\ UNCHANGED <<where, owner, met, dlq, runs, timeouts>>

Restart(w) ==
    /\ phase[w] = "down"
    /\ phase' = [phase EXCEPT ![w] = "idle"]
    /\ UNCHANGED <<where, owner, job, met, dlq, runs, losses, timeouts>>

(***************************************************************************)
(* The visibility timeout: a message nobody works on is restored, and so   *)
(* is one whose run takes longer than an hour.                             *)
(***************************************************************************)
RestoreOrphan(m) ==
    /\ where[m] = "unacked"
    /\ \A w \in Worker : ~Holds(w, m)
    /\ where' = [where EXCEPT ![m] = "ready"]
    /\ UNCHANGED <<owner, phase, job, met, dlq, runs, losses, timeouts>>

RestoreRunning(m) ==
    /\ \E w \in Worker : Holds(w, m)
    /\ timeouts < MaxTimeouts
    /\ timeouts' = timeouts + 1
    /\ where' = [where EXCEPT ![m] = "ready"]
    /\ UNCHANGED <<owner, phase, job, met, dlq, runs, losses>>

Work(w) == (\E cause \in Cause : Report(w, cause)) \/ Acknowledge(w) \/ Restart(w)

Broker ==
    \/ \E w \in Worker, m \in Message : Deliver(w, m)
    \/ \E m \in Message : RestoreOrphan(m) \/ RestoreRunning(m)

Workers == \E w \in Worker : Work(w) \/ LoseProcess(w) \/ KillWorker(w)

Next ==
    \/ \E m \in Message : Publish(m)
    \/ Broker
    \/ Workers

(***************************************************************************)
(* Every agent ends its run and every worker is restarted; the visibility  *)
(* timeout does run out.  Workers take their queues in turn and each queue *)
(* is first in, first out, so a message that waits is taken in the end.    *)
(***************************************************************************)
Fairness ==
    /\ \A w \in Worker : WF_vars(Work(w))
    /\ \A m \in Message : WF_vars(RestoreOrphan(m))
    /\ \A m \in Message : SF_vars(\E w \in Worker : Deliver(w, m))

Spec == Init /\ [][Next]_vars /\ Fairness

(***************************************************************************)
(* Properties                                                              *)
(***************************************************************************)

(***************************************************************************)
(* A message leaves the broker only after a run of it was reported: a lost *)
(* process, a killed worker or a late acknowledgement never lose a task.   *)
(***************************************************************************)
GoneIsReported == \A m \in Message : where[m] = "gone" => met[m] # {}

(***************************************************************************)
(* A message is run once more than there were lost processes, killed       *)
(* workers and runs longer than the visibility timeout, at the most.       *)
(***************************************************************************)
RunsAreAccountedFor == \A m \in Message : runs[m] <= 1 + losses + timeouts

(***************************************************************************)
(* Two workers run one message at a time only if the visibility timeout    *)
(* overtook a run.                                                         *)
(***************************************************************************)
OverlapNeedsTimeout ==
    \A v, w \in Worker :
        (v # w /\ phase[v] = "running" /\ phase[w] = "running" /\ job[v] = job[w])
            => timeouts > 0


(***************************************************************************)
(* Every command that was sent is run and reported, and then leaves the    *)
(* broker, in spite of lost processes, killed workers and timeouts.        *)
(***************************************************************************)
CommandsAreDone ==
    \A m \in Command : (where[m] = "ready") ~> (where[m] = "gone")

(***************************************************************************)
(* A run that met a TimeoutError or ConnectionError is tried again, or     *)
(* dead-lettered, before its message leaves the broker (celery_app.py:47). *)
(***************************************************************************)
TimeoutsAreRetried ==
    \A m \in Message : (where[m] = "gone" /\ met[m] = {"timeout"}) =>
        runs[m] > 1 \/ \E i \in 1 .. Len(dlq) : dlq[i] = m
==============================================================================
