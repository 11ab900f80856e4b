---------------------------- MODULE ProviderClient ----------------------------
(***************************************************************************)
(* ResilientHttpClient: calls to one SEO provider that share a circuit     *)
(* breaker and a rate limiter (integrations/base.py).                      *)
(*                                                                         *)
(* A caller asks the breaker, waits for the limiter, sends, and tells the  *)
(* breaker what came back; every one of these may be separated by an await *)
(* in which other callers run.  An answer that arrives may therefore find  *)
(* the circuit in a state its request was not admitted in.                 *)
(***************************************************************************)
EXTENDS Naturals, FiniteSets

CONSTANTS
    Client,        \* coroutines that call the provider
    Threshold,     \* failures that open the circuit
    Recovery,      \* clock ticks from the last failure to the probe
    MaxAttempts    \* attempts of one call

ASSUME ClientAssumption == /\ Threshold \in Nat \ {0}
                           /\ Recovery \in Nat \ {0}
                           /\ MaxAttempts \in Nat \ {0}
ASSUME ClientFinite == IsFiniteSet(Client)

VARIABLES
    pc,         \* where each caller is
    attempt,    \* the attempt it is in
    failures,   \* CircuitBreaker.failures
    opened,     \* CircuitBreaker.opened_at is set ...
    age,        \* ... and this many ticks ago
    up,         \* the provider has recovered for good
    leaked      \* history: who sent a request since the circuit opened

vars == <<pc, attempt, failures, opened, age, up, leaked>>

Stage == {"idle", "check", "limiter", "sent", "backoff"}

TypeOK ==
    /\ pc \in [Client -> Stage]
    /\ attempt \in [Client -> 0 .. MaxAttempts - 1]
    /\ failures \in Nat
    /\ opened \in BOOLEAN
    /\ age \in 0 .. Recovery
    /\ up \in BOOLEAN
    /\ leaked \subseteq Client

Init ==
    /\ pc = [c \in Client |-> "idle"]
    /\ attempt = [c \in Client |-> 0]
    /\ failures = 0
    /\ opened = FALSE
    /\ age = 0
    /\ up = FALSE
    /\ leaked = {}

Goto(c, stage) == pc' = [pc EXCEPT ![c] = stage]

\* The call returns or raises; its attempt counter is gone.
Return(c) ==
    /\ Goto(c, "idle")
    /\ attempt' = [attempt EXCEPT ![c] = 0]

(***************************************************************************)
(* CircuitBreaker: close (success, or a recovery that has elapsed) and     *)
(* failure.  opened_at is stamped again by failures after the threshold.   *)
(***************************************************************************)
Close ==
    /\ failures' = 0
    /\ opened' = FALSE
    /\ age' = 0
    /\ leaked' = {}


Failure ==
    /\ failures' = failures + 1
    /\ opened' = (opened \/ failures + 1 >= Threshold)
    /\ age' = IF failures + 1 >= Threshold THEN 0 ELSE age

Start(c) ==
    /\ pc[c] = "idle"
    /\ Goto(c, "check")
    /\ UNCHANGED <<attempt, failures, opened, age, up, leaked>>

(***************************************************************************)
(* before_request: pass, pass as the probe that closes the circuit, or     *)
(* raise CircuitOpenError.                                                 *)
(***************************************************************************)
Admit(c) ==
    /\ pc[c] = "check"
    /\ ~opened
    /\ Goto(c, "limiter")
    /\ UNCHANGED <<attempt, failures, opened, age, up, leaked>>

Probe(c) ==
    /\ pc[c] = "check"
    /\ opened /\ age = Recovery
    /\ Close
    /\ Goto(c, "limiter")
    /\ UNCHANGED <<attempt, up>>

\* Mutant of Reject: a rejected call counts as the latest failure.
RejectRestamps(c) ==
    /\ pc[c] = "check"
    /\ opened /\ age < Recovery
    /\ age' = 0
    /\ Return(c)
    /\ UNCHANGED <<failures, opened, up, leaked>>

Reject(c) ==
    /\ pc[c] = "check"
    /\ opened /\ age < Recovery
    /\ Return(c)
    /\ UNCHANGED <<failures, opened, age, up, leaked>>

(***************************************************************************)
(* The limiter lets the caller send, whatever the circuit is by now.       *)
(***************************************************************************)
Send(c) ==
    /\ pc[c] = "limiter"
    /\ Goto(c, "sent")
    /\ leaked' = IF opened THEN leaked \cup {c} ELSE leaked
    /\ UNCHANGED <<attempt, failures, opened, age, up>>

(***************************************************************************)
(* An answer below 400; its body may still fail to parse, which is raised  *)
(* after the breaker was told of the success.                              *)
(***************************************************************************)
Succeed(c) ==
    /\ pc[c] = "sent"
    /\ Close
    /\ Return(c)
    /\ UNCHANGED up

(***************************************************************************)
(* An error: a refusal (any other 4xx) is raised at once, a transient one  *)
(* (408, 425, 429, 5xx, timeout, network) is retried after a pause.  Both  *)
(* count as failures of the provider.                                      *)
(***************************************************************************)
Refused(c) ==
    /\ pc[c] = "sent"
    /\ Failure
    /\ Return(c)
    /\ UNCHANGED <<up, leaked>>

LastAttempt(c) == attempt[c] = MaxAttempts - 1

TransientLast(c) ==
    /\ pc[c] = "sent"
    /\ ~up
    /\ LastAttempt(c)
    /\ Failure
    /\ Return(c)
    /\ UNCHANGED <<up, leaked>>

\* Mutant of Transient: the loop does not count its attempts.
TransientForever(c) ==
    /\ pc[c] = "sent"
    /\ ~up
    /\ ~LastAttempt(c)
    /\ Failure
    /\ Goto(c, "backoff")
    /\ UNCHANGED <<attempt, up, leaked>>

Transient(c) ==
    /\ pc[c] = "sent"
    /\ ~up
    /\ ~LastAttempt(c)
    /\ Failure
    /\ attempt' = [attempt EXCEPT ![c] = @ + 1]
    /\ Goto(c, "backoff")
    /\ UNCHANGED <<up, leaked>>

\* Mutant of Retry: the attempt goes to the limiter without asking the breaker.
RetryUnchecked(c) ==
    /\ pc[c] = "backoff"
    /\ Goto(c, "limiter")
    /\ UNCHANGED <<attempt, failures, opened, age, up, leaked>>

Retry(c) ==
    /\ pc[c] = "backoff"
    /\ Goto(c, "check")
    /\ UNCHANGED <<attempt, failures, opened, age, up, leaked>>

(***************************************************************************)
(* The coroutine is cancelled while it awaits; the breaker hears nothing.  *)
(***************************************************************************)
Cancel(c) ==
    /\ pc[c] \in {"limiter", "sent", "backoff"}
    /\ Return(c)
    /\ UNCHANGED <<failures, opened, age, up, leaked>>

Clock ==
    /\ opened
    /\ age < Recovery
    /\ age' = age + 1
    /\ UNCHANGED <<pc, attempt, failures, opened, up, leaked>>

Heal ==
    /\ ~up
    /\ up' = TRUE
    /\ UNCHANGED <<pc, attempt, failures, opened, age, leaked>>

Answered(c) == Succeed(c) \/ Refused(c) \/ TransientLast(c) \/ Transient(c)

Proceed(c) ==
    \/ Admit(c) \/ Probe(c) \/ Reject(c)
    \/ Send(c)
    \/ Answered(c)
    \/ Retry(c)

Next ==
    \/ \E c \in Client : Start(c) \/ Proceed(c) \/ Cancel(c)
    \/ Clock
    \/ Heal

(***************************************************************************)
(* Time passes, the limiter is a fair lock over a window that moves on,    *)
(* requests time out and pauses end.  Nothing makes callers call.          *)
(***************************************************************************)
Fairness ==
    /\ WF_vars(Clock)
    /\ \A c \in Client : WF_vars(Proceed(c))

Spec == Init /\ [][Next]_vars /\ Fairness

(***************************************************************************)
(* Properties                                                              *)
(***************************************************************************)

(***************************************************************************)
(* The circuit is open exactly while the failures counted reach the        *)
(* threshold, however answers to old requests come in.                     *)
(***************************************************************************)
OpenAtThreshold == opened <=> failures >= Threshold

(***************************************************************************)
(* While the circuit is open the provider still gets the requests that     *)
(* were admitted before, but not one of every caller: the caller whose     *)
(* failure opened the circuit sends nothing.                               *)
(***************************************************************************)
LeakBound == opened => Cardinality(leaked) < Cardinality(Client)

(***************************************************************************)
(* No caller sends twice while the circuit is open, retries included.      *)
(***************************************************************************)
OneLeakEach == [][\A c \in Client : (opened /\ Send(c)) => c \notin leaked]_vars

(***************************************************************************)
(* A call returns or raises: retries end.                                  *)
(***************************************************************************)
CallsReturn == \A c \in Client : (pc[c] = "check") ~> (pc[c] = "idle")

(***************************************************************************)
(* Once the provider has recovered, callers that keep calling find the     *)
(* circuit closed.                                                         *)
(***************************************************************************)
Calling == \E c \in Client : pc[c] = "check"
CircuitRecloses == ([]<>Calling /\ <>[]up) => []<>(~opened)
==============================================================================
