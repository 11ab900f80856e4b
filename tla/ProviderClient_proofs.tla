------------------------ MODULE ProviderClient_proofs ------------------------
(***************************************************************************)
(* Proofs about ProviderClient, for any callers, threshold and attempts.   *)
(*                                                                         *)
(* What reaches the provider while the circuit is open was waiting for the *)
(* limiter when it opened.  Nobody joins that queue before the circuit     *)
(* closes, and the caller whose failure opened it was not in it.           *)
(***************************************************************************)
EXTENDS ProviderClient, FiniteSetTheorems, TLAPS

LeakedSent == \A c \in leaked : opened /\ pc[c] # "limiter"
SomeoneKeptOut == opened => \E c \in Client : c \notin leaked /\ pc[c] # "limiter"

IInv == TypeOK /\ OpenAtThreshold /\ LeakedSent /\ SomeoneKeptOut

(***************************************************************************)
(* Initially the circuit is closed and nothing has leaked.                 *)
(***************************************************************************)
LEMMA InitIInv == Init => IInv
<1> SUFFICES ASSUME Init PROVE IInv
    OBVIOUS
<1> USE ClientAssumption DEF Init
<1>1. TypeOK
  <2>1. opened \in BOOLEAN /\ up \in BOOLEAN
      BY ZenonT(20)
  <2>2. attempt \in [Client -> 0 .. MaxAttempts - 1] /\ age \in 0 .. Recovery
      OBVIOUS
  <2> QED BY <2>1, <2>2 DEF TypeOK, Stage
<1>2. OpenAtThreshold /\ LeakedSent /\ SomeoneKeptOut
    BY DEF OpenAtThreshold, LeakedSent, SomeoneKeptOut
<1> QED BY <1>1, <1>2 DEF IInv

(***************************************************************************)
(* Moves of a caller that tell the breaker nothing keep the invariant.     *)
(***************************************************************************)
LEMMA QuietStep ==
    ASSUME IInv, NEW c \in Client,
           Start(c) \/ Reject(c) \/ Retry(c) \/ Cancel(c) \/ Admit(c)
    PROVE  IInv'
<1> USE ClientAssumption DEF IInv, TypeOK, Goto, Return, Stage,
        Start, Reject, Retry, Cancel, Admit
<1>1. TypeOK'
    OBVIOUS
<1>2. OpenAtThreshold'
    BY DEF OpenAtThreshold
<1>3. LeakedSent' /\ SomeoneKeptOut'
  <2>1. CASE Admit(c)
      BY <2>1 DEF LeakedSent, SomeoneKeptOut
  <2>2. CASE ~Admit(c)
    <3>1. \A d \in Client : pc[d] # "limiter" => pc'[d] # "limiter"
        BY <2>2
    <3> QED BY <2>2, <3>1 DEF LeakedSent, SomeoneKeptOut
  <2> QED BY <2>1, <2>2
<1> QED BY <1>1, <1>2, <1>3

(***************************************************************************)
(* A send moves one caller out of the limiter's queue.                     *)
(***************************************************************************)
LEMMA SendStep == ASSUME IInv, NEW c \in Client, Send(c) PROVE IInv'
<1> USE ClientAssumption DEF IInv, TypeOK, Goto, Stage, Send
<1>1. TypeOK'
    OBVIOUS
<1>2. OpenAtThreshold'
    BY DEF OpenAtThreshold
<1>3. LeakedSent'
    BY DEF LeakedSent
<1>4. SomeoneKeptOut'
  <2> SUFFICES ASSUME opened
               PROVE  \E d \in Client : d \notin leaked' /\ pc'[d] # "limiter"
      BY DEF SomeoneKeptOut
  <2>1. PICK d \in Client : d \notin leaked /\ pc[d] # "limiter"
      BY DEF SomeoneKeptOut
  <2>2. d # c
      BY <2>1
  <2> QED BY <2>1, <2>2
<1> QED BY <1>1, <1>2, <1>3, <1>4

(***************************************************************************)
(* A success or a probe closes the circuit and with it the account.        *)
(***************************************************************************)
LEMMA CloseStep ==
    ASSUME IInv, NEW c \in Client, Succeed(c) \/ Probe(c) PROVE IInv'
<1> USE ClientAssumption DEF IInv, TypeOK, Goto, Return, Stage, Succeed, Probe, Close
<1>1. TypeOK'
  <2>1. opened' \in BOOLEAN
      BY ZenonT(20)
  <2>2. 0 \in 0 .. MaxAttempts - 1 /\ age' \in 0 .. Recovery
      OBVIOUS
  <2> QED BY <2>1, <2>2
<1>2. OpenAtThreshold' /\ LeakedSent' /\ SomeoneKeptOut'
    BY DEF OpenAtThreshold, LeakedSent, SomeoneKeptOut
<1> QED BY <1>1, <1>2

(***************************************************************************)
(* A failure may open the circuit; the caller it came back to is then the  *)
(* one that is kept out.                                                   *)
(***************************************************************************)
LEMMA FailureStep ==
    ASSUME IInv, NEW c \in Client, Refused(c) \/ TransientLast(c) \/ Transient(c)
    PROVE  IInv'
<1> USE ClientAssumption DEF IInv, TypeOK, Goto, Return, Stage,
        Refused, TransientLast, Transient, LastAttempt, Failure
<1>1. TypeOK'
  <2>1. opened' \in BOOLEAN
      BY ZenonT(20)
  <2>2. attempt' \in [Client -> 0 .. MaxAttempts - 1]
      OBVIOUS
  <2>3. pc' \in [Client -> Stage] /\ failures' \in Nat /\ age' \in 0 .. Recovery
      OBVIOUS
  <2>4. up' = up /\ leaked' = leaked
      OBVIOUS
  <2> QED BY <2>1, <2>2, <2>3, <2>4
<1>2. OpenAtThreshold'
  <2>1. failures' = failures + 1 /\ (opened' <=> (opened \/ failures + 1 >= Threshold))
      BY ZenonT(20)
  <2>2. opened => failures + 1 >= Threshold
      BY DEF OpenAtThreshold
  <2> QED BY <2>1, <2>2 DEF OpenAtThreshold
<1>3. pc'[c] # "limiter" /\ leaked' = leaked
    OBVIOUS
<1>4. \A d \in Client : pc[d] # "limiter" => pc'[d] # "limiter"
    BY <1>3
<1>5. LeakedSent'
    BY <1>3, <1>4 DEF LeakedSent
<1>6. SomeoneKeptOut'
  <2>1. CASE opened
      BY <2>1, <1>3, <1>4 DEF SomeoneKeptOut
  <2>2. CASE ~opened
    <3>1. leaked = {}
        BY <2>2 DEF LeakedSent
    <3> QED BY <3>1, <1>3 DEF SomeoneKeptOut
  <2> QED BY <2>1, <2>2
<1> QED BY <1>1, <1>2, <1>5, <1>6

(***************************************************************************)
(* Every step keeps the inductive invariant.                               *)
(***************************************************************************)
LEMMA StepIInv == IInv /\ [Next]_vars => IInv'
<1> SUFFICES ASSUME IInv, [Next]_vars PROVE IInv'
    OBVIOUS
<1>1. CASE Clock
    BY <1>1, ClientAssumption
       DEF Clock, IInv, TypeOK, OpenAtThreshold, LeakedSent, SomeoneKeptOut
<1>2. CASE Heal
    BY <1>2 DEF Heal, IInv, TypeOK, OpenAtThreshold, LeakedSent, SomeoneKeptOut
<1>3. CASE \E c \in Client : Start(c) \/ Proceed(c) \/ Cancel(c)
    BY <1>3, QuietStep, SendStep, CloseStep, FailureStep DEF Proceed, Answered
<1>4. CASE UNCHANGED vars
    BY <1>4 DEF vars, IInv, TypeOK, OpenAtThreshold, LeakedSent, SomeoneKeptOut
<1> QED BY <1>1, <1>2, <1>3, <1>4 DEF Next

(***************************************************************************)
(* The inductive invariant holds in every reachable state.                 *)
(***************************************************************************)
THEOREM Invariance == Spec => []IInv
<1> QED BY InitIInv, StepIInv, PTL DEF Spec

(***************************************************************************)
(* The circuit is open exactly at the threshold, however answers come in.  *)
(***************************************************************************)
THEOREM OpensAtThreshold == Spec => [](TypeOK /\ OpenAtThreshold)
<1>1. IInv => TypeOK /\ OpenAtThreshold
    BY DEF IInv
<1> QED BY <1>1, Invariance, PTL

(***************************************************************************)
(* While the circuit is open some caller sends nothing.                    *)
(***************************************************************************)
THEOREM LeaksBounded == Spec => []LeakBound
<1>1. IInv => LeakBound
  <2> SUFFICES ASSUME IInv, opened
               PROVE  Cardinality(leaked) < Cardinality(Client)
      BY DEF LeakBound
  <2>1. PICK c \in Client : c \notin leaked
      BY DEF IInv, SomeoneKeptOut
  <2>2. leaked \subseteq Client \ {c}
      BY <2>1 DEF IInv, TypeOK
  <2>3. /\ IsFiniteSet(Client \ {c})
        /\ Cardinality(Client \ {c}) = Cardinality(Client) - 1
      BY ClientFinite, FS_RemoveElement
  <2>4. Cardinality(leaked) <= Cardinality(Client \ {c}) /\ IsFiniteSet(leaked)
      BY <2>2, <2>3, FS_Subset
  <2> QED BY <2>3, <2>4, ClientFinite, FS_CardinalityType
<1> QED BY <1>1, Invariance, PTL

(***************************************************************************)
(* No caller sends twice while the circuit is open.                        *)
(***************************************************************************)
THEOREM LeaksOnce == Spec => OneLeakEach
<1>1. IInv /\ [Next]_vars
        => [\A c \in Client : (opened /\ Send(c)) => c \notin leaked]_vars
    BY DEF IInv, LeakedSent, Send
<1> QED BY <1>1, Invariance, PTL DEF Spec, OneLeakEach

(***************************************************************************)
(* How far a call is from its end, in steps of its own: four an attempt.   *)
(***************************************************************************)
StepsLeft(c) ==
    LET later == 4 * (MaxAttempts - 1 - attempt[c])
    IN  CASE pc[c] = "idle" -> 0
          [] pc[c] = "check" -> later + 3
          [] pc[c] = "limiter" -> later + 2
          [] pc[c] = "sent" -> later + 1
          [] pc[c] = "backoff" -> later + 4

(***************************************************************************)
(* Whatever the breaker and other callers do, every step a call takes      *)
(* brings it nearer to its end, and no step of another delays it           *)
(* (ResilientHttpClient.request): retries do not add up, however often     *)
(* they are refused.                                                       *)
(***************************************************************************)
CallsAdvance ==
    [][\A c \in Client : pc[c] # "idle" =>
          \/ StepsLeft(c)' < StepsLeft(c)
          \/ pc'[c] = pc[c] /\ attempt'[c] = attempt[c]]_vars

THEOREM CallsAreShort ==
    /\ Spec => [](\A c \in Client : StepsLeft(c) \in 0 .. 4 * MaxAttempts)
    /\ Spec => CallsAdvance
<1>1. ASSUME IInv, NEW c \in Client
      PROVE  StepsLeft(c) \in 0 .. 4 * MaxAttempts
  <2>1. PICK n \in 0 .. MaxAttempts - 1 : n = attempt[c]
      BY <1>1 DEF IInv, TypeOK
  <2>2. pc[c] \in Stage
      BY <1>1 DEF IInv, TypeOK
  <2>3. MaxAttempts \in Nat \ {0}
      BY ClientAssumption
  <2> QED BY <2>1, <2>2, <2>3 DEF StepsLeft, Stage
<1>2. ASSUME IInv, [Next]_vars, NEW c \in Client, pc[c] # "idle"
      PROVE  \/ StepsLeft(c)' < StepsLeft(c)
             \/ pc'[c] = pc[c] /\ attempt'[c] = attempt[c]
  <2>1. /\ pc \in [Client -> Stage] /\ attempt \in [Client -> 0 .. MaxAttempts - 1]
        /\ MaxAttempts \in Nat \ {0}
      BY <1>2, ClientAssumption DEF IInv, TypeOK
  <2>2. ASSUME NEW d \in Client, Start(d) \/ Proceed(d) \/ Cancel(d)
        PROVE  \/ StepsLeft(c)' < StepsLeft(c)
               \/ pc'[c] = pc[c] /\ attempt'[c] = attempt[c]
    <3>1. CASE d # c
        BY <3>1, <2>1, <2>2
           DEF Start, Proceed, Cancel, Admit, Probe, Reject, Send, Answered, Succeed, Refused,
               TransientLast, Transient, Retry, Goto, Return
    <3>2. CASE d = c /\ Transient(c)
        BY <3>2, <2>1 DEF Transient, LastAttempt, Goto, StepsLeft
    <3>3. CASE d = c /\ (Admit(c) \/ Send(c) \/ Retry(c))
        BY <3>3, <2>1 DEF Admit, Send, Retry, Goto, StepsLeft
    <3>4. CASE d = c /\ Probe(c)
        BY <3>4, <2>1 DEF Probe, Goto, StepsLeft
    <3>5. CASE /\ d = c
               /\ Reject(c) \/ Succeed(c) \/ Refused(c) \/ TransientLast(c) \/ Cancel(c)
      <4>1. pc'[c] = "idle"
          BY <3>5, <2>1 DEF Reject, Succeed, Refused, TransientLast, Cancel, Goto, Return
      <4>2. StepsLeft(c)' = 0
          BY <4>1 DEF StepsLeft
      <4>3. StepsLeft(c) > 0
          BY <2>1, <1>2 DEF StepsLeft, Stage
      <4> QED BY <4>2, <4>3
    <3>6. ~(d = c /\ Start(c))
        BY <1>2 DEF Start
    <3> QED BY <2>2, <3>1, <3>2, <3>3, <3>4, <3>5, <3>6 DEF Proceed, Answered
  <2>3. CASE Clock \/ Heal \/ UNCHANGED vars
      BY <2>3 DEF Clock, Heal, vars
  <2> QED BY <1>2, <2>2, <2>3 DEF Next
<1>3. IInv => \A c \in Client : StepsLeft(c) \in 0 .. 4 * MaxAttempts
    BY <1>1
<1>4. IInv /\ [Next]_vars
        => [\A c \in Client : pc[c] # "idle" =>
               \/ StepsLeft(c)' < StepsLeft(c)
               \/ pc'[c] = pc[c] /\ attempt'[c] = attempt[c]]_vars
    BY <1>2
<1>5. Spec => [](\A c \in Client : StepsLeft(c) \in 0 .. 4 * MaxAttempts)
    BY <1>3, Invariance, PTL
<1>6. Spec => CallsAdvance
    BY <1>4, Invariance, PTL DEF Spec, CallsAdvance
<1> QED BY <1>5, <1>6

(***************************************************************************)
(* The requests whose answers can still stamp an open circuit anew.        *)
(***************************************************************************)
OnTheirWay == {c \in Client : pc[c] \in {"limiter", "sent"}}

(***************************************************************************)
(* An open circuit is stamped anew by answers to requests that were        *)
(* admitted before it opened, and by each of them once: nobody joins them, *)
(* and who stamps leaves them.  So the probe is put off no more often than *)
(* there are callers (CircuitBreaker.failure), and retries and             *)
(* rejections put off nothing.                                             *)
(***************************************************************************)
StampsRunOut ==
    [][(opened /\ opened') =>
          /\ OnTheirWay' \subseteq OnTheirWay
          /\ age' < age => OnTheirWay' # OnTheirWay]_vars

THEOREM ProbeIsNotPutOff == Spec => StampsRunOut
<1>1. ASSUME IInv, [Next]_vars, opened, opened'
      PROVE  /\ OnTheirWay' \subseteq OnTheirWay
             /\ age' < age => OnTheirWay' # OnTheirWay
  <2>1. pc \in [Client -> Stage] /\ age \in Nat
      BY <1>1, ClientAssumption DEF IInv, TypeOK
  <2>2. ASSUME NEW d \in Client, Refused(d) \/ TransientLast(d) \/ Transient(d)
        PROVE  OnTheirWay' \subseteq OnTheirWay /\ OnTheirWay' # OnTheirWay
    <3>1. pc[d] = "sent" /\ pc'[d] \in {"idle", "backoff"}
        BY <2>1, <2>2 DEF Refused, TransientLast, Transient, Goto, Return
    <3>2. \A c \in Client : c # d => pc'[c] = pc[c]
        BY <2>1, <2>2 DEF Refused, TransientLast, Transient, Goto, Return
    <3>3. d \in OnTheirWay /\ d \notin OnTheirWay'
        BY <3>1 DEF OnTheirWay
    <3>4. OnTheirWay' \subseteq OnTheirWay
        BY <3>1, <3>2 DEF OnTheirWay
    <3> QED BY <3>3, <3>4
  <2>3. ASSUME NEW d \in Client, Start(d) \/ Reject(d) \/ Retry(d) \/ Cancel(d) \/ Send(d)
        PROVE  OnTheirWay' \subseteq OnTheirWay /\ age' = age
    <3>1. age' = age
        BY <2>3 DEF Start, Reject, Retry, Cancel, Send
    <3>2. \A c \in Client : c # d => pc'[c] = pc[c]
        BY <2>1, <2>3 DEF Start, Reject, Retry, Cancel, Send, Goto, Return
    <3>3. pc[d] = "limiter" \/ pc'[d] \notin {"limiter", "sent"}
        BY <2>1, <2>3 DEF Start, Reject, Retry, Cancel, Send, Goto, Return
    <3> QED BY <3>1, <3>2, <3>3 DEF OnTheirWay
  <2>4. \A d \in Client : ~Admit(d) /\ ~Probe(d) /\ ~Succeed(d)
      BY <1>1 DEF Admit, Probe, Succeed, Close
  <2>5. CASE Clock \/ Heal \/ UNCHANGED vars
    <3>1. pc' = pc /\ age' >= age
        BY <2>1, <2>5 DEF Clock, Heal, vars
    <3>2. ~(age' < age)
        BY <2>1, <2>5 DEF Clock, Heal, vars
    <3> QED BY <3>1, <3>2 DEF OnTheirWay
  <2>6. CASE \E d \in Client : Start(d) \/ Proceed(d) \/ Cancel(d)
    <3>1. PICK d \in Client : Start(d) \/ Proceed(d) \/ Cancel(d)
        BY <2>6
    <3>2. CASE Refused(d) \/ TransientLast(d) \/ Transient(d)
        BY <3>2, <2>2
    <3>3. CASE Start(d) \/ Reject(d) \/ Retry(d) \/ Cancel(d) \/ Send(d)
      <4>1. ~(age' < age)
          BY <2>1, <2>3, <3>3
      <4> QED BY <4>1, <2>3, <3>3
    <3> QED BY <3>1, <3>2, <3>3, <2>4 DEF Proceed, Answered
  <2> QED BY <1>1, <2>5, <2>6 DEF Next
<1>2. IInv /\ [Next]_vars
        => [(opened /\ opened') =>
               /\ OnTheirWay' \subseteq OnTheirWay
               /\ age' < age => OnTheirWay' # OnTheirWay]_vars
    BY <1>1
<1> QED BY <1>2, Invariance, PTL DEF Spec, StampsRunOut
==============================================================================
