------------------------ MODULE CommandDispatch_proofs ------------------------
(***************************************************************************)
(* Proofs about CommandDispatch, for any requests, keys and bounds.        *)
(*                                                                         *)
(* The inductive invariant counts insertions: every insertion into the     *)
(* record of a key after the first is preceded by an expiry, and only a    *)
(* request that inserted sends a keyed task.                               *)
(***************************************************************************)
EXTENDS CommandDispatch, FiniteSetTheorems, TLAPS

Inserters(k) == {r \in inserted : keyOf[r] = k}

\* Before its request arrives nothing of it is known.
Untouched == \A r \in Request : pc[r] = "new" =>
    keyOf[r] = NoKey /\ r \notin inserted /\ r \notin sent
Keyed == \A r \in Request : pc[r] \in {"get", "put", "reread"} => keyOf[r] \in Key
NotYet == \A r \in Request :
    /\ pc[r] \in {"get", "put", "reread"} => r \notin inserted
    /\ pc[r] \in {"new", "get", "put", "reread", "send"} =>
          reply[r] = NoTask /\ r \notin sent
SendersInserted == \A r \in Request :
    (keyOf[r] \in Key /\ (pc[r] = "send" \/ r \in sent)) => r \in inserted
RecordInserted == \A k \in Key :
    entry[k] # NoTask => entry[k] \in inserted /\ keyOf[entry[k]] = k
RecordKept == \A k \in Key : expiries[k] = 0 =>
    /\ \A r \in inserted : keyOf[r] = k => entry[k] = r
    /\ \A r \in Request : (keyOf[r] = k /\ pc[r] = "reread") => entry[k] # NoTask
InsertedIsSent == TaskDispatchEnabled /\ faults = 0 =>
    \A r \in inserted : r \in sent \/ pc[r] = "send"
UnkeyedIsSent == \A r \in Request :
    (keyOf[r] = NoKey /\ reply[r] \in Request)
        => reply[r] = r /\ (TaskDispatchEnabled => r \in sent)
InsertionsCounted == \A k \in Key :
    Cardinality(Inserters(k)) <= expiries[k] + (IF entry[k] = NoTask THEN 0 ELSE 1)

IInv ==
    /\ TypeOK
    /\ Untouched /\ Keyed /\ NotYet
    /\ SendersInserted /\ RecordInserted /\ RecordKept
    /\ InsertedIsSent /\ UnkeyedIsSent /\ RepliesAgree
    /\ InsertionsCounted

\* The part of the invariant that is not about counting or types.
Facts == /\ Untouched /\ Keyed /\ NotYet
         /\ SendersInserted /\ RecordInserted /\ RecordKept
         /\ InsertedIsSent /\ UnkeyedIsSent /\ RepliesAgree

(***************************************************************************)
(* The initial states satisfy the invariant.                               *)
(***************************************************************************)
LEMMA InitIInv == Init => IInv
<1> SUFFICES ASSUME Init PROVE IInv
    OBVIOUS
<1> USE DispatchBounds, Distinct DEF Init
<1>1. TypeOK
    BY DEF TypeOK, Stage
<1>2. Facts
    BY DEF Facts, Untouched, Keyed, NotYet, SendersInserted, RecordInserted, RecordKept,
           InsertedIsSent, UnkeyedIsSent, RepliesAgree
<1>3. InsertionsCounted
  <2> SUFFICES ASSUME NEW k \in Key
               PROVE  Cardinality(Inserters(k)) <= expiries[k] + 0
      BY DEF InsertionsCounted
  <2>1. Inserters(k) = {}
      BY DEF Inserters
  <2> QED BY <2>1, FS_EmptySet
<1> QED BY <1>1, <1>2, <1>3 DEF IInv, Facts

(***************************************************************************)
(* Every step keeps the types.                                             *)
(***************************************************************************)
LEMMA TypeStep == TypeOK /\ Keyed /\ [Next]_vars => TypeOK'
<1> SUFFICES ASSUME TypeOK, Keyed, [Next]_vars PROVE TypeOK'
    OBVIOUS
<1> USE DispatchBounds DEF TypeOK, Stage, Goto, Answer
<1>1. ASSUME NEW r \in Request, NEW k \in Key \cup {NoKey}, Arrive(r, k) PROVE TypeOK'
    BY <1>1 DEF Arrive
<1>2. ASSUME NEW r \in Request, GetHit(r) PROVE TypeOK'
    BY <1>2 DEF GetHit, Keyed
<1>3. ASSUME NEW r \in Request, GetMiss(r) PROVE TypeOK'
    BY <1>3 DEF GetMiss
<1>4. ASSUME NEW r \in Request, PutInserts(r) PROVE TypeOK'
    BY <1>4 DEF PutInserts
<1>5. ASSUME NEW r \in Request, PutFinds(r) PROVE TypeOK'
    BY <1>5 DEF PutFinds
<1>6. ASSUME NEW r \in Request, Reread(r) PROVE TypeOK'
    BY <1>6 DEF Reread, Keyed
<1>7. ASSUME NEW r \in Request, Send(r) PROVE TypeOK'
    BY <1>7 DEF Send
<1>8. ASSUME NEW r \in Request, SendRaises(r) PROVE TypeOK'
  <2>1. faults' \in 0 .. MaxFaults
      BY <1>8 DEF SendRaises
  <2> QED BY <1>8, <2>1 DEF SendRaises
<1>9. ASSUME NEW r \in Request, Crash(r) PROVE TypeOK'
    BY <1>9 DEF Crash
<1>10. ASSUME NEW k \in Key, Expire(k) PROVE TypeOK'
    BY <1>10 DEF Expire
<1>11. CASE UNCHANGED vars
    BY <1>11 DEF vars
<1> QED BY <1>1, <1>2, <1>3, <1>4, <1>5, <1>6, <1>7, <1>8, <1>9, <1>10, <1>11
        DEF Next, Serve

(***************************************************************************)
(* Every step keeps the facts about who inserted, sent and answered what.  *)
(***************************************************************************)
LEMMA FactsStep == TypeOK /\ Facts /\ [Next]_vars => Facts'
<1> SUFFICES ASSUME TypeOK, Facts, [Next]_vars PROVE Facts'
    OBVIOUS
<1> USE DispatchBounds, Distinct DEF TypeOK, Goto, Answer, Facts
<1>a. ASSUME NEW r \in Request, NEW k \in Key \cup {NoKey}, Arrive(r, k) PROVE Facts'
  <2> USE <1>a DEF Arrive
  <2>1. (Untouched /\ Keyed /\ NotYet)'
      BY DEF Untouched, Keyed, NotYet
  <2>2. SendersInserted'
      BY DEF SendersInserted, Untouched, NotYet
  <2>3. (RecordInserted /\ InsertedIsSent)'
      BY DEF RecordInserted, InsertedIsSent, Untouched
  <2>4. RecordKept'
      BY DEF RecordKept, Untouched
  <2>5. (UnkeyedIsSent /\ RepliesAgree)'
      BY DEF UnkeyedIsSent, RepliesAgree, NotYet
  <2> QED BY <2>1, <2>2, <2>3, <2>4, <2>5
<1>b. ASSUME NEW r \in Request, GetHit(r) PROVE Facts'
  <2> USE <1>b DEF GetHit
  <2>1. keyOf[r] \in Key
      BY DEF Keyed
  <2>2. (Untouched /\ Keyed /\ NotYet)'
      BY DEF Untouched, Keyed, NotYet
  <2>3. (SendersInserted /\ RecordInserted /\ RecordKept /\ InsertedIsSent)'
      BY DEF SendersInserted, RecordInserted, RecordKept, InsertedIsSent, NotYet
  <2>4. (UnkeyedIsSent /\ RepliesAgree)'
      BY <2>1 DEF UnkeyedIsSent, RepliesAgree
  <2> QED BY <2>2, <2>3, <2>4
<1>c. ASSUME NEW r \in Request, GetMiss(r) PROVE Facts'
    BY <1>c DEF GetMiss, Untouched, Keyed, NotYet, SendersInserted, RecordInserted,
                RecordKept, InsertedIsSent, UnkeyedIsSent, RepliesAgree
<1>d. ASSUME NEW r \in Request, PutInserts(r) PROVE Facts'
  <2> USE <1>d DEF PutInserts
  <2>1. keyOf[r] \in Key /\ r \notin inserted
      BY DEF Keyed, NotYet
  <2>2. (Untouched /\ Keyed /\ NotYet)'
      BY DEF Untouched, Keyed, NotYet
  <2>3. SendersInserted' /\ RecordInserted'
      BY <2>1 DEF SendersInserted, RecordInserted
  <2>4. RecordKept'
      BY <2>1 DEF RecordKept
  <2>5. InsertedIsSent' /\ UnkeyedIsSent'
      BY DEF InsertedIsSent, UnkeyedIsSent
  <2>6. RepliesAgree'
      BY <2>1 DEF RepliesAgree
  <2> QED BY <2>2, <2>3, <2>4, <2>5, <2>6
<1>e. ASSUME NEW r \in Request, PutFinds(r) PROVE Facts'
    BY <1>e DEF PutFinds, Untouched, Keyed, NotYet, SendersInserted, RecordInserted,
                RecordKept, InsertedIsSent, UnkeyedIsSent, RepliesAgree
<1>f. ASSUME NEW r \in Request, Reread(r) PROVE Facts'
  <2> USE <1>f DEF Reread
  <2>1. keyOf[r] \in Key
      BY DEF Keyed
  <2>2. (Untouched /\ Keyed /\ NotYet)'
      BY DEF Untouched, Keyed, NotYet
  <2>3. (SendersInserted /\ RecordInserted /\ RecordKept /\ InsertedIsSent)'
      BY DEF SendersInserted, RecordInserted, RecordKept, InsertedIsSent, NotYet
  <2>4. (UnkeyedIsSent /\ RepliesAgree)'
      BY <2>1 DEF UnkeyedIsSent, RepliesAgree, RecordKept
  <2> QED BY <2>2, <2>3, <2>4
<1>g. ASSUME NEW r \in Request, Send(r) PROVE Facts'
  <2> USE <1>g DEF Send
  <2>1. (Untouched /\ Keyed /\ NotYet)'
      BY DEF Untouched, Keyed, NotYet
  <2>2. (SendersInserted /\ RecordInserted /\ RecordKept /\ InsertedIsSent)'
      BY DEF SendersInserted, RecordInserted, RecordKept, InsertedIsSent
  <2>3. (UnkeyedIsSent /\ RepliesAgree)'
      BY DEF UnkeyedIsSent, RepliesAgree, SendersInserted, RecordKept
  <2> QED BY <2>1, <2>2, <2>3
<1>h. ASSUME NEW r \in Request, SendRaises(r) PROVE Facts'
  <2> USE <1>h DEF SendRaises
  <2>1. (Untouched /\ Keyed /\ NotYet)'
      BY DEF Untouched, Keyed, NotYet
  <2>2. (SendersInserted /\ RecordInserted /\ RecordKept)'
      BY DEF SendersInserted, RecordInserted, RecordKept
  <2>3. (InsertedIsSent /\ UnkeyedIsSent /\ RepliesAgree)'
      BY DEF InsertedIsSent, UnkeyedIsSent, RepliesAgree
  <2> QED BY <2>1, <2>2, <2>3
<1>i. ASSUME NEW r \in Request, Crash(r) PROVE Facts'
  <2> USE <1>i DEF Crash
  <2>1. (Untouched /\ Keyed /\ NotYet)'
      BY DEF Untouched, Keyed, NotYet
  <2>2. (SendersInserted /\ RecordInserted /\ RecordKept)'
      BY DEF SendersInserted, RecordInserted, RecordKept
  <2>3. (InsertedIsSent /\ UnkeyedIsSent /\ RepliesAgree)'
      BY DEF InsertedIsSent, UnkeyedIsSent, RepliesAgree
  <2> QED BY <2>1, <2>2, <2>3
<1>j. ASSUME NEW k \in Key, Expire(k) PROVE Facts'
  <2> USE <1>j DEF Expire
  <2>1. (Untouched /\ Keyed /\ NotYet)'
      BY DEF Untouched, Keyed, NotYet
  <2>2. (SendersInserted /\ RecordInserted)'
      BY DEF SendersInserted, RecordInserted
  <2>3. \A l \in Key : expiries'[l] = 0 => l # k /\ expiries[l] = 0 /\ entry'[l] = entry[l]
      OBVIOUS
  <2>4. RecordKept' /\ RepliesAgree'
      BY <2>3 DEF RecordKept, RepliesAgree
  <2>5. (InsertedIsSent /\ UnkeyedIsSent)'
      BY DEF InsertedIsSent, UnkeyedIsSent
  <2> QED BY <2>1, <2>2, <2>4, <2>5
<1>k. CASE UNCHANGED vars
    BY <1>k DEF vars, Untouched, Keyed, NotYet, SendersInserted, RecordInserted,
                RecordKept, InsertedIsSent, UnkeyedIsSent, RepliesAgree
<1> QED BY <1>a, <1>b, <1>c, <1>d, <1>e, <1>f, <1>g, <1>h, <1>i, <1>j, <1>k
        DEF Next, Serve

(***************************************************************************)
(* Every step keeps the count of insertions.                               *)
(***************************************************************************)
LEMMA CountStep == TypeOK /\ Facts /\ InsertionsCounted /\ [Next]_vars => InsertionsCounted'
<1> SUFFICES ASSUME TypeOK, Facts, InsertionsCounted, [Next]_vars, NEW k \in Key
             PROVE  (Cardinality(Inserters(k))
                       <= expiries[k] + (IF entry[k] = NoTask THEN 0 ELSE 1))'
    BY DEF InsertionsCounted
<1> USE DispatchBounds, Distinct
<1>1. IsFiniteSet(Inserters(k)) /\ Cardinality(Inserters(k)) \in Nat
  <2>1. Inserters(k) \subseteq Request
      BY DEF Inserters, TypeOK
  <2> QED BY <2>1, RequestFinite, FS_Subset, FS_CardinalityType
<1>2. Cardinality(Inserters(k)) <= expiries[k] + (IF entry[k] = NoTask THEN 0 ELSE 1)
    BY DEF InsertionsCounted
<1>3. ASSUME NEW r \in Request, PutInserts(r), keyOf[r] = k
      PROVE  (Cardinality(Inserters(k))
                <= expiries[k] + (IF entry[k] = NoTask THEN 0 ELSE 1))'
  <2> USE <1>3 DEF PutInserts
  <2>1. r \notin Inserters(k)
      BY DEF Facts, NotYet, Inserters
  <2>2. Inserters(k)' = Inserters(k) \cup {r}
      BY DEF Inserters
  <2>3. Cardinality(Inserters(k)') = Cardinality(Inserters(k)) + 1
      BY <1>1, <2>1, <2>2, FS_AddElement
  <2>4. entry[k] = NoTask /\ entry'[k] = r /\ expiries'[k] = expiries[k] /\ expiries[k] \in Nat
      BY DEF TypeOK
  <2> QED BY <1>1, <1>2, <2>3, <2>4
<1>4. ASSUME Expire(k)
      PROVE  (Cardinality(Inserters(k))
                <= expiries[k] + (IF entry[k] = NoTask THEN 0 ELSE 1))'
  <2>1. Inserters(k)' = Inserters(k)
      BY <1>4 DEF Expire, Inserters
  <2>2. expiries'[k] = expiries[k] + 1 /\ expiries[k] \in Nat
      BY <1>4 DEF Expire, TypeOK
  <2> QED BY <1>1, <1>2, <1>4, <2>1, <2>2 DEF Expire, TypeOK
<1>5. ASSUME /\ Inserters(k)' = Inserters(k)
             /\ expiries'[k] = expiries[k] /\ entry'[k] = entry[k]
      PROVE  (Cardinality(Inserters(k))
                <= expiries[k] + (IF entry[k] = NoTask THEN 0 ELSE 1))'
    BY <1>2, <1>5
<1>6. ASSUME NEW r \in Request, PutInserts(r), keyOf[r] # k
      PROVE  /\ Inserters(k)' = Inserters(k)
             /\ expiries'[k] = expiries[k] /\ entry'[k] = entry[k]
    BY <1>6 DEF PutInserts, Inserters, TypeOK, Facts, Keyed
<1>7. ASSUME NEW r \in Request, NEW l \in Key \cup {NoKey}, Arrive(r, l)
      PROVE  /\ Inserters(k)' = Inserters(k)
             /\ expiries'[k] = expiries[k] /\ entry'[k] = entry[k]
  <2>1. r \notin inserted
      BY <1>7 DEF Arrive, Facts, Untouched
  <2>2. \A q \in inserted : keyOf'[q] = keyOf[q]
      BY <1>7, <2>1 DEF Arrive, TypeOK
  <2> QED BY <1>7, <2>2 DEF Arrive, Inserters
<1>8. ASSUME UNCHANGED <<keyOf, entry, inserted, expiries>>
      PROVE  /\ Inserters(k)' = Inserters(k)
             /\ expiries'[k] = expiries[k] /\ entry'[k] = entry[k]
    BY <1>8 DEF Inserters
<1>9. ASSUME NEW l \in Key, Expire(l), l # k
      PROVE  /\ Inserters(k)' = Inserters(k)
             /\ expiries'[k] = expiries[k] /\ entry'[k] = entry[k]
    BY <1>9 DEF Expire, Inserters, TypeOK
<1>10. ASSUME NEW r \in Request,
              \/ GetHit(r) \/ GetMiss(r) \/ PutFinds(r) \/ Reread(r) \/ Send(r)
              \/ SendRaises(r) \/ Crash(r)
       PROVE  UNCHANGED <<keyOf, entry, inserted, expiries>>
    BY <1>10 DEF GetHit, GetMiss, PutFinds, Reread, Send, SendRaises, Crash
<1>11. CASE UNCHANGED vars
    BY <1>5, <1>8, <1>11 DEF vars
<1>12. CASE Next
    BY <1>3, <1>4, <1>5, <1>6, <1>7, <1>8, <1>9, <1>10, <1>12 DEF Next, Serve
<1> QED BY <1>11, <1>12

(***************************************************************************)
(* The inductive invariant holds in every reachable state.                 *)
(***************************************************************************)
THEOREM Invariance == Spec => []IInv
<1>1. IInv /\ [Next]_vars => IInv'
  <2> SUFFICES ASSUME IInv, [Next]_vars PROVE IInv'
      OBVIOUS
  <2>1. TypeOK /\ Facts /\ InsertionsCounted
      BY DEF IInv, Facts
  <2>2. TypeOK'
      BY <2>1, TypeStep DEF Facts
  <2>3. Facts'
      BY <2>1, FactsStep
  <2>4. InsertionsCounted'
      BY <2>1, CountStep
  <2> QED BY <2>2, <2>3, <2>4 DEF IInv, Facts
<1> QED BY <1>1, InitIInv, PTL DEF Spec

(***************************************************************************)
(* Requests, records and replies keep their types.                         *)
(***************************************************************************)
THEOREM TypeCorrect == Spec => []TypeOK
<1>1. IInv => TypeOK
    BY DEF IInv
<1> QED BY <1>1, Invariance, PTL

(***************************************************************************)
(* A key has at most one task dispatched per 24-hour window of its record. *)
(***************************************************************************)
THEOREM DispatchedOncePerWindow == Spec => []OneDispatchPerWindow
<1>1. IInv => OneDispatchPerWindow
  <2> SUFFICES ASSUME IInv, NEW k \in Key
               PROVE  Cardinality(SentFor(k)) <= expiries[k] + 1
      BY DEF OneDispatchPerWindow
  <2>1. SentFor(k) \subseteq Inserters(k)
      BY DEF IInv, TypeOK, SendersInserted, SentFor, Inserters
  <2>2. IsFiniteSet(Inserters(k)) /\ IsFiniteSet(SentFor(k))
    <3>1. Inserters(k) \subseteq Request
        BY DEF IInv, TypeOK, Inserters
    <3> QED BY <2>1, <3>1, RequestFinite, FS_Subset
  <2>3. Cardinality(SentFor(k)) <= Cardinality(Inserters(k))
      BY <2>1, <2>2, FS_Subset
  <2>4. Cardinality(Inserters(k)) <= expiries[k] + (IF entry[k] = NoTask THEN 0 ELSE 1)
      BY DEF IInv, InsertionsCounted
  <2>5. Cardinality(SentFor(k)) \in Nat /\ Cardinality(Inserters(k)) \in Nat
      BY <2>2, FS_CardinalityType
  <2>6. expiries[k] \in Nat
      BY DispatchBounds DEF IInv, TypeOK
  <2> QED BY <2>3, <2>4, <2>5, <2>6
<1> QED BY <1>1, Invariance, PTL

(***************************************************************************)
(* While the record of a key lives its responses name the task on record.  *)
(***************************************************************************)
THEOREM RepliesConsistent == Spec => []RepliesAgree
<1>1. IInv => RepliesAgree
    BY DEF IInv
<1> QED BY <1>1, Invariance, PTL

(***************************************************************************)
(* Without a fault or an expiry an answered task is sent or being sent.    *)
(***************************************************************************)
THEOREM AnsweredDispatched == Spec => []AnsweredIsDispatched
<1>1. IInv => AnsweredIsDispatched
  <2> SUFFICES ASSUME IInv, TaskDispatchEnabled, faults = 0, NEW r \in Request, reply[r] \in Request,
                      keyOf[r] \in Key => expiries[keyOf[r]] = 0
               PROVE  reply[r] \in sent \/ pc[reply[r]] = "send"
      BY DEF AnsweredIsDispatched
  <2>1. CASE keyOf[r] \in Key
    <3>1. reply[r] = entry[keyOf[r]]
        BY <2>1 DEF IInv, RepliesAgree
    <3>2. reply[r] \in inserted
        BY <2>1, <3>1, Distinct DEF IInv, RecordInserted
    <3> QED BY <3>2 DEF IInv, InsertedIsSent
  <2>2. CASE keyOf[r] = NoKey
      BY <2>2 DEF IInv, UnkeyedIsSent
  <2> QED BY <2>1, <2>2 DEF IInv, TypeOK
<1> QED BY <1>1, Invariance, PTL

(***************************************************************************)
(* A step of the endpoints is a step of the abstract specification, or     *)
(* changes nothing it sees.                                                *)
(***************************************************************************)
LEMMA StepRefines ==
    ASSUME IInv, IInv', [Next]_vars
    PROVE  [Commands!Next]_(Commands!vars)
<1> USE Distinct, DispatchBounds DEF IInv, TypeOK, Goto, Answer, Commands!vars
<1>1. ASSUME UNCHANGED <<expiries, entry>>
      PROVE  UNCHANGED <<Claimed, Lapsed>>
    BY <1>1 DEF Claimed, Lapsed
<1>2. ASSUME NEW r \in Request, NEW k \in Key, Arrive(r, k) PROVE Commands!Carry(r, k)
    BY <1>1, <1>2 DEF Arrive, Commands!Carry, Untouched, NotYet
<1>3. ASSUME NEW r \in Request, Arrive(r, NoKey) PROVE UNCHANGED Commands!vars
  <2>1. keyOf' = keyOf
      BY <1>3 DEF Arrive, Untouched
  <2> QED BY <1>1, <1>3, <2>1 DEF Arrive
<1>4. ASSUME NEW r \in Request, GetHit(r) \/ Reread(r)
      PROVE  Commands!Reply(r) \/ Commands!Beyond(r)
  <2>1. keyOf[r] \in Key /\ reply[r] = NoTask
      BY <1>4 DEF GetHit, Reread, Keyed, NotYet
  <2>2. UNCHANGED <<Claimed, Lapsed, keyOf, sent>>
      BY <1>1, <1>4 DEF GetHit, Reread
  <2>3. CASE expiries[keyOf[r]] = 0
    <3>1. entry[keyOf[r]] # NoTask
        BY <1>4, <2>1, <2>3 DEF GetHit, Reread, RecordKept
    <3>2. keyOf[r] \notin Lapsed /\ Claimed[keyOf[r]] = entry[keyOf[r]]
        BY <2>1, <2>3 DEF Lapsed, Claimed
    <3>3. reply' = [reply EXCEPT ![r] = entry[keyOf[r]]]
        BY <1>4, <3>1 DEF GetHit, Reread
    <3> QED BY <2>1, <2>2, <3>1, <3>2, <3>3 DEF Commands!Reply, Commands!TaskFor
  <2>4. CASE expiries[keyOf[r]] # 0
    <3>1. keyOf[r] \in Lapsed
        BY <2>1, <2>4 DEF Lapsed
    <3>2. PICK t \in {q \in Request : keyOf[q] = keyOf[r]} : reply' = [reply EXCEPT ![r] = t]
      <4>1. CASE entry[keyOf[r]] = NoTask
          BY <1>4, <4>1 DEF GetHit, Reread
      <4>2. CASE entry[keyOf[r]] # NoTask
        <5>1. entry[keyOf[r]] \in Request /\ keyOf[entry[keyOf[r]]] = keyOf[r]
            BY <2>1, <4>2 DEF RecordInserted
        <5> QED BY <1>4, <4>2, <5>1 DEF GetHit, Reread
      <4> QED BY <4>1, <4>2
    <3> QED BY <2>1, <2>2, <3>1, <3>2 DEF Commands!Beyond
  <2> QED BY <2>3, <2>4
<1>5. ASSUME NEW r \in Request, PutInserts(r)
      PROVE  Commands!Claim(r) \/ UNCHANGED Commands!vars
  <2>1. keyOf[r] \in Key /\ entry[keyOf[r]] = NoTask
      BY <1>5 DEF PutInserts, Keyed
  <2>2. UNCHANGED <<Lapsed, keyOf, sent, reply>>
      BY <1>5 DEF PutInserts, Lapsed
  <2>3. CASE expiries[keyOf[r]] = 0
    <3>1. Claimed[keyOf[r]] = NoTask /\ keyOf[r] \in Key \ Lapsed
        BY <2>1, <2>3 DEF Claimed, Lapsed
    <3>2. Claimed' = [Claimed EXCEPT ![keyOf[r]] = r]
        BY <1>5, <2>1, <2>3 DEF PutInserts, Claimed
    <3> QED BY <2>2, <3>1, <3>2 DEF Commands!Claim
  <2>4. CASE expiries[keyOf[r]] # 0
    <3>1. Claimed' = Claimed
        BY <1>5, <2>1, <2>4 DEF PutInserts, Claimed
    <3> QED BY <2>2, <3>1
  <2> QED BY <2>3, <2>4
<1>6. ASSUME NEW r \in Request, Send(r) \/ SendRaises(r)
      PROVE  Commands!Dispatch(r) \/ Commands!Beyond(r)
  <2>1. reply[r] = NoTask /\ r \notin sent
      BY <1>6 DEF Send, SendRaises, NotYet
  <2>2. /\ UNCHANGED <<Claimed, Lapsed, keyOf>>
        /\ \/ /\ sent' = IF TaskDispatchEnabled THEN sent \cup {r} ELSE sent
              /\ reply' = [reply EXCEPT ![r] = r]
           \/ /\ TaskDispatchEnabled
              /\ sent' \in {sent, sent \cup {r}} /\ reply' = [reply EXCEPT ![r] = Failed]
      BY <1>1, <1>6 DEF Send, SendRaises
  <2>3. CASE keyOf[r] \notin Lapsed
    <3>1. Commands!TaskFor(r) = r
      <4>1. CASE keyOf[r] = NoKey
          BY <4>1 DEF Commands!TaskFor
      <4>2. CASE keyOf[r] \in Key
        <5>1. r \in inserted /\ expiries[keyOf[r]] = 0
            BY <1>6, <2>3, <4>2 DEF Send, SendRaises, SendersInserted, Lapsed
        <5>2. entry[keyOf[r]] = r
            BY <4>2, <5>1 DEF RecordKept
        <5> QED BY <4>2, <5>1, <5>2 DEF Commands!TaskFor, Claimed
      <4> QED BY <4>1, <4>2
    <3> QED BY <2>1, <2>2, <3>1 DEF Commands!Dispatch
  <2>4. CASE keyOf[r] \in Lapsed
      BY <2>1, <2>2, <2>4 DEF Commands!Beyond
  <2> QED BY <2>3, <2>4
<1>7. ASSUME NEW r \in Request, GetMiss(r) \/ PutFinds(r) \/ Crash(r)
      PROVE  UNCHANGED Commands!vars
    BY <1>1, <1>7 DEF GetMiss, PutFinds, Crash
<1>8. ASSUME NEW k \in Key, Expire(k)
      PROVE  Commands!Lapse(k) \/ UNCHANGED Commands!vars
  <2>1. UNCHANGED <<keyOf, reply, sent>> /\ expiries'[k] > 0
      BY <1>8 DEF Expire
  <2>2. Lapsed' = Lapsed \cup {k}
      BY <1>8 DEF Expire, Lapsed
  <2>3. CASE expiries[k] = 0
    <3>1. k \notin Lapsed
        BY <2>3 DEF Lapsed
    <3>2. Claimed' = [Claimed EXCEPT ![k] = NoTask]
        BY <1>8, <2>1 DEF Expire, Claimed
    <3> QED BY <2>1, <2>2, <3>1, <3>2 DEF Commands!Lapse
  <2>4. CASE expiries[k] # 0
    <3>1. k \in Lapsed
        BY <2>4 DEF Lapsed
    <3>2. Claimed' = Claimed
        BY <1>8, <2>1, <2>4 DEF Expire, Claimed
    <3> QED BY <2>1, <2>2, <3>1, <3>2
  <2> QED BY <2>3, <2>4
<1>9. CASE UNCHANGED vars
    BY <1>1, <1>9 DEF vars
<1> QED BY <1>2, <1>3, <1>4, <1>5, <1>6, <1>7, <1>8, <1>9
        DEF Next, Serve, Commands!Next

(***************************************************************************)
(* The endpoints implement IdempotentCommands, records that expire         *)
(* included.                                                               *)
(***************************************************************************)
THEOREM Refinement == Spec => ImplementsCommands
<1>1. Init => Commands!Init
    BY DEF Init, Commands!Init, Claimed, Lapsed
<1>2. IInv /\ IInv' /\ [Next]_vars => [Commands!Next]_(Commands!vars)
    BY StepRefines
<1> QED BY <1>1, <1>2, Invariance, PTL DEF Spec, ImplementsCommands, Commands!Spec
===============================================================================
