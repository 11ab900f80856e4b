------------------------- MODULE TaskDelivery_proofs -------------------------
(***************************************************************************)
(* Proofs about TaskDelivery, for any tasks, workers and bounds.           *)
(*                                                                         *)
(* The properties follow from an inductive invariant that says who works   *)
(* on what: a worker that has a job is running or has reported it; until   *)
(* the visibility timeout has overtaken a run, a job is held under the     *)
(* delivery Redis knows; and a message that waits for a worker has a start *)
(* left in the budget its losses and timeouts pay for.                     *)
(***************************************************************************)
EXTENDS TaskDelivery, TLAPS

Busy == \A w \in Worker :
    IF phase[w] \in {"running", "reported"} THEN job[w] \in Message ELSE job[w] = NoMessage
Reporting == \A w \in Worker : phase[w] = "reported" => met[job[w]] # {}
AllHeld == timeouts = 0 => \A w \in Worker : job[w] # NoMessage => Holds(w, job[w])
Waiting(m) == \/ where[m] \in {"unsent", "ready"}
              \/ where[m] = "unacked" /\ \A w \in Worker : ~Holds(w, m)
Budget == \A m \in Message :
    /\ runs[m] <= 1 + losses + timeouts
    /\ Waiting(m) => runs[m] <= losses + timeouts

IInv == TypeOK /\ Busy /\ Reporting /\ GoneIsReported /\ AllHeld /\ Budget

(***************************************************************************)
(* A record pushed on the dead-letter list leaves it a list of messages no *)
(* longer than its limit.                                                  *)
(***************************************************************************)
LEMMA DeadLetterBounded ==
    ASSUME dlq \in Seq(Message), Len(dlq) <= DlqLimit, NEW m \in Message
    PROVE  DeadLetter(m) \in Seq(Message) /\ Len(DeadLetter(m)) <= DlqLimit
<1> USE DeliveryBounds
<1>1. CASE Len(dlq) < DlqLimit
    BY <1>1 DEF DeadLetter
<1>2. CASE ~(Len(dlq) < DlqLimit)
  <2>1. DlqLimit - 1 \in 0 .. Len(dlq)
      BY <1>2
  <2>2. SubSeq(dlq, 1, DlqLimit - 1) \in Seq(Message)
      BY <2>1
  <2>3. Len(SubSeq(dlq, 1, DlqLimit - 1)) = DlqLimit - 1
      BY <2>1
  <2> QED BY <1>2, <2>2, <2>3 DEF DeadLetter
<1> QED BY <1>1, <1>2

(***************************************************************************)
(* The initial states satisfy the inductive invariant.                     *)
(***************************************************************************)
LEMMA InitIInv == Init => IInv
<1> SUFFICES ASSUME Init PROVE IInv
    OBVIOUS
<1> USE DeliveryBounds, DistinctMessages DEF Init
<1>1. TypeOK
    BY DEF TypeOK, Place, Phase
<1>2. Busy /\ Reporting /\ GoneIsReported /\ AllHeld
    BY DEF Busy, Reporting, GoneIsReported, AllHeld
<1>3. Budget
    BY DEF Budget, Waiting
<1> QED BY <1>1, <1>2, <1>3 DEF IInv

(***************************************************************************)
(* Each action keeps the inductive invariant.                              *)
(***************************************************************************)
\* A message that is sent waits for its first run.
LEMMA PublishStep ==
    ASSUME IInv, NEW m \in Message, Publish(m) PROVE IInv'
<1> USE DeliveryBounds, DistinctMessages DEF Publish, IInv
<1>1. TypeOK'
    BY DEF TypeOK, Place
<1>2. (Busy /\ Reporting /\ GoneIsReported)'
    BY DEF Busy, Reporting, GoneIsReported, TypeOK
<1>3. AllHeld'
    BY DEF AllHeld, Holds, TypeOK, Busy
<1>4. Budget'
    BY DEF Budget, Waiting, Holds, TypeOK
<1> QED BY <1>1, <1>2, <1>3, <1>4

\* A delivery spends one start, and makes the worker the holder.
LEMMA DeliverStep ==
    ASSUME IInv, NEW w \in Worker, NEW m \in Message, Deliver(w, m) PROVE IInv'
<1> USE DeliveryBounds, DistinctMessages DEF Deliver, IInv
<1>1. TypeOK'
    BY DEF TypeOK, Place, Phase
<1>2. (Busy /\ Reporting /\ GoneIsReported)'
    BY DEF Busy, Reporting, GoneIsReported, TypeOK
<1>3. AllHeld'
    BY DEF AllHeld, Holds, TypeOK, Busy
<1>4. Budget'
  <2> SUFFICES ASSUME NEW n \in Message
               PROVE  /\ (runs[n] <= 1 + losses + timeouts)'
                      /\ (Waiting(n) => runs[n] <= losses + timeouts)'
      BY DEF Budget
  <2>1. CASE n = m
    <3>1. Waiting(m) /\ ~Waiting(m)'
        BY DEF Waiting, Holds, TypeOK
    <3> QED BY <2>1, <3>1 DEF Budget, TypeOK
  <2>2. CASE n # m
    <3>1. job[w] = NoMessage
        BY DEF Busy
    <3>2. ASSUME NEW v \in Worker PROVE Holds(v, n)' <=> Holds(v, n)
        BY <2>2, <3>1 DEF Holds, TypeOK, Message
    <3>3. Waiting(n)' <=> Waiting(n)
        BY <2>2, <3>2 DEF Waiting, TypeOK
    <3> QED BY <2>2, <3>3 DEF Budget, TypeOK
  <2> QED BY <2>1, <2>2
<1> QED BY <1>1, <1>2, <1>3, <1>4

\* A report adds a cause, which the acknowledgement relies on.
LEMMA ReportStep ==
    ASSUME IInv, NEW w \in Worker, NEW cause \in Cause, Report(w, cause) PROVE IInv'
<1> USE DeliveryBounds, DistinctMessages DEF Report, IInv
<1>1. job[w] \in Message
    BY DEF Busy
<1>2. TypeOK'
  <2>1. dlq' \in Seq(Message) /\ Len(dlq') <= DlqLimit
      BY <1>1, DeadLetterBounded DEF TypeOK
  <2> QED BY <1>1, <2>1 DEF TypeOK, Phase
<1>3. (Busy /\ Reporting /\ GoneIsReported)'
    BY <1>1 DEF Busy, Reporting, GoneIsReported, TypeOK
<1>4. AllHeld' /\ Budget'
    BY DEF AllHeld, Budget, Waiting, Holds
<1> QED BY <1>2, <1>3, <1>4

\* An acknowledgement removes only what its worker holds.
LEMMA AcknowledgeStep ==
    ASSUME IInv, NEW w \in Worker, Acknowledge(w) PROVE IInv'
<1> USE DeliveryBounds, DistinctMessages DEF Acknowledge, IInv
<1>1. job[w] \in Message
    BY DEF Busy
<1>2. TypeOK'
    BY <1>1 DEF TypeOK, Place, Phase
<1>3. (Busy /\ Reporting /\ GoneIsReported)'
    BY <1>1 DEF Busy, Reporting, GoneIsReported, TypeOK
<1>4. AllHeld'
  <2> SUFFICES ASSUME timeouts = 0, NEW v \in Worker, job'[v] # NoMessage
               PROVE  Holds(v, job[v])'
      BY DEF AllHeld, TypeOK
  <2>1. v # w /\ job'[v] = job[v]
      BY DEF TypeOK
  <2>2. Holds(v, job[v]) /\ Holds(w, job[w])
      BY <1>1, <2>1 DEF AllHeld, Message
  <2>3. job[v] # job[w]
      BY <2>1, <2>2 DEF Holds
  <2> QED BY <2>1, <2>2, <2>3 DEF Holds, TypeOK
<1>5. Budget'
  <2> SUFFICES ASSUME NEW n \in Message
               PROVE  Waiting(n)' => Waiting(n)
      BY DEF Budget, TypeOK
  <2>1. \A v \in Worker : Holds(v, n) => (Holds(v, n)' \/ where'[n] = "gone")
      BY DEF Holds, TypeOK
  <2> QED BY <2>1 DEF Waiting, TypeOK
<1> QED BY <1>2, <1>3, <1>4, <1>5

\* A lost process pays for the run that replaces its own.
LEMMA LoseProcessStep ==
    ASSUME IInv, NEW w \in Worker, LoseProcess(w) PROVE IInv'
<1> USE DeliveryBounds, DistinctMessages DEF LoseProcess, IInv
<1>1. job[w] \in Message
    BY DEF Busy
<1>2. TypeOK'
    BY <1>1 DEF TypeOK, Place, Phase
<1>3. (Busy /\ Reporting /\ GoneIsReported)'
    BY <1>1 DEF Busy, Reporting, GoneIsReported, TypeOK
<1>4. AllHeld'
  <2> SUFFICES ASSUME timeouts = 0, NEW v \in Worker, job'[v] # NoMessage
               PROVE  Holds(v, job[v])'
      BY DEF AllHeld, TypeOK
  <2>1. v # w /\ job'[v] = job[v]
      BY DEF TypeOK
  <2>2. Holds(v, job[v]) /\ Holds(w, job[w])
      BY <1>1, <2>1 DEF AllHeld, Message
  <2>3. job[v] # job[w]
      BY <2>1, <2>2 DEF Holds
  <2> QED BY <2>1, <2>2, <2>3 DEF Holds, TypeOK
<1>5. Budget'
    BY DEF Budget, TypeOK
<1> QED BY <1>2, <1>3, <1>4, <1>5

\* A killed worker pays for the run that replaces its own.
LEMMA KillWorkerStep ==
    ASSUME IInv, NEW w \in Worker, KillWorker(w) PROVE IInv'
<1> USE DeliveryBounds, DistinctMessages DEF KillWorker, IInv
<1>1. TypeOK'
    BY DEF TypeOK, Phase
<1>2. (Busy /\ Reporting /\ GoneIsReported)'
    BY DEF Busy, Reporting, GoneIsReported, TypeOK
<1>3. AllHeld'
    BY DEF AllHeld, Holds, TypeOK
<1>4. Budget'
    BY DEF Budget, TypeOK
<1> QED BY <1>1, <1>2, <1>3, <1>4

\* A restarted worker has no job.
LEMMA RestartStep ==
    ASSUME IInv, NEW w \in Worker, Restart(w) PROVE IInv'
<1> USE DeliveryBounds, DistinctMessages DEF Restart, IInv
<1>1. TypeOK'
    BY DEF TypeOK, Phase
<1>2. (Busy /\ Reporting /\ GoneIsReported)'
    BY DEF Busy, Reporting, GoneIsReported, TypeOK
<1>3. AllHeld' /\ Budget'
    BY DEF AllHeld, Budget, Waiting, Holds
<1> QED BY <1>1, <1>2, <1>3

\* Restoring an orphan changes where it waits, not that it waits.
LEMMA RestoreOrphanStep ==
    ASSUME IInv, NEW m \in Message, RestoreOrphan(m) PROVE IInv'
<1> USE DeliveryBounds, DistinctMessages DEF RestoreOrphan, IInv
<1>1. TypeOK'
    BY DEF TypeOK, Place
<1>2. (Busy /\ Reporting /\ GoneIsReported)'
    BY DEF Busy, Reporting, GoneIsReported, TypeOK
<1>3. AllHeld'
    BY DEF AllHeld, Holds, TypeOK
<1>4. Budget'
  <2> SUFFICES ASSUME NEW n \in Message
               PROVE  Waiting(n)' => Waiting(n)
      BY DEF Budget, TypeOK
  <2> QED BY DEF Waiting, Holds, TypeOK
<1> QED BY <1>1, <1>2, <1>3, <1>4

\* A visibility timeout pays for the second run it allows.
LEMMA RestoreRunningStep ==
    ASSUME IInv, NEW m \in Message, RestoreRunning(m) PROVE IInv'
<1> USE DeliveryBounds, DistinctMessages DEF RestoreRunning, IInv
<1>1. TypeOK'
    BY DEF TypeOK, Place
<1>2. (Busy /\ Reporting /\ GoneIsReported)'
    BY DEF Busy, Reporting, GoneIsReported, TypeOK
<1>3. AllHeld'
    BY DEF AllHeld, TypeOK
<1>4. Budget'
    BY DEF Budget, TypeOK
<1> QED BY <1>1, <1>2, <1>3, <1>4

(***************************************************************************)
(* Every step keeps the inductive invariant.                               *)
(***************************************************************************)
LEMMA StepIInv == IInv /\ [Next]_vars => IInv'
<1> SUFFICES ASSUME IInv, [Next]_vars PROVE IInv'
    OBVIOUS
<1>1. CASE \E m \in Message : Publish(m)
    BY <1>1, PublishStep
<1>2. CASE Broker
    BY <1>2, DeliverStep, RestoreOrphanStep, RestoreRunningStep DEF Broker
<1>3. CASE Workers
    BY <1>3, ReportStep, AcknowledgeStep, RestartStep, LoseProcessStep, KillWorkerStep
       DEF Workers, Work
<1>4. CASE UNCHANGED vars
    BY <1>4 DEF vars, IInv, TypeOK, Busy, Reporting, GoneIsReported, AllHeld, Budget,
                Waiting, Holds
<1> QED BY <1>1, <1>2, <1>3, <1>4 DEF Next

(***************************************************************************)
(* The inductive invariant holds in every reachable state.                 *)
(***************************************************************************)
THEOREM Invariance == Spec => []IInv
<1> QED BY InitIInv, StepIInv, PTL DEF Spec

(***************************************************************************)
(* The broker, the workers and the dead-letter list keep their types; the  *)
(* list stays within its limit.                                            *)
(***************************************************************************)
THEOREM TypeCorrect == Spec => []TypeOK
<1>1. IInv => TypeOK
    BY DEF IInv
<1> QED BY <1>1, Invariance, PTL

(***************************************************************************)
(* A message only leaves the broker after a run of it was reported.        *)
(***************************************************************************)
THEOREM NothingIsLost == Spec => []GoneIsReported
<1>1. IInv => GoneIsReported
    BY DEF IInv
<1> QED BY <1>1, Invariance, PTL

(***************************************************************************)
(* Extra runs of a message are paid for by losses and timeouts.            *)
(***************************************************************************)
THEOREM RunsBounded == Spec => []RunsAreAccountedFor
<1>1. IInv => RunsAreAccountedFor
    BY DeliveryBounds DEF IInv, Budget, RunsAreAccountedFor, TypeOK
<1> QED BY <1>1, Invariance, PTL

(***************************************************************************)
(* Without a run that outlives the visibility timeout no two workers run   *)
(* one message at the same time.                                           *)
(***************************************************************************)
THEOREM NoOverlap == Spec => []OverlapNeedsTimeout
<1>1. IInv => OverlapNeedsTimeout
  <2> SUFFICES ASSUME IInv, NEW v \in Worker, NEW w \in Worker, v # w,
                      phase[v] = "running", phase[w] = "running", job[v] = job[w],
                      timeouts = 0
               PROVE  FALSE
      BY DeliveryBounds DEF IInv, TypeOK, OverlapNeedsTimeout
  <2>1. job[v] # NoMessage /\ job[w] # NoMessage
      BY DistinctMessages DEF IInv, Busy, Message
  <2>2. Holds(v, job[v]) /\ Holds(w, job[w])
      BY <2>1 DEF IInv, AllHeld
  <2> QED BY <2>2 DEF Holds
<1> QED BY <1>1, Invariance, PTL
==============================================================================
