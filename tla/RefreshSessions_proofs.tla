------------------------ MODULE RefreshSessions_proofs ------------------------
(***************************************************************************)
(* Proofs about RefreshSessions for every set of handlers and every bound: *)
(* typing, the bound on successors, that dead tokens stay dead; and, for   *)
(* requests served one at a time, sound families and the refinement.       *)
(***************************************************************************)
EXTENDS RefreshSessions, FiniteSetTheorems, TLAPS

(***************************************************************************)
(* The inductive invariant, one conjunct per idea.                         *)
(***************************************************************************)

\* Handlers work on issued tokens, and so do family keys and passes.
OnlyIssued ==
    /\ \A h \in Handler : pc[h] # "idle" => held[h].token \in 1 .. issued
    /\ \A f \in Token : index[f] \subseteq 1 .. issued
    /\ \A h \in Handler : todo[h] \subseteq 1 .. issued
    /\ \A x \in rotated : x.from \in 1 .. issued

ScannedIssued == \A h \in Handler : scanned[h] \subseteq 1 .. issued

\* A stored session names its family, so it differs from NoSession, and the
\* session of an issued token is only missing after the token expired.
Stored ==
    /\ \A t \in Token : session[t] # NoSession => session[t].family \in Token
    /\ \A t \in 1 .. issued : session[t] = NoSession => t <= expired
    /\ \A h \in Handler : pc[h] # "idle" => held[h].copy.family \in Token

\* What has been rotated, or is about to be given its successor, is dead.
SpentIsDead ==
    /\ \A x \in rotated : Dead(x.from)
    /\ \A h \in Handler : pc[h] = "issue" => Dead(held[h].token)

\* A handler rotates a token once: not before it started on it, and not twice.
OncePerHandler ==
    /\ \A h \in Handler : pc[h] \in {"consume", "issue"} =>
          \A x \in rotated : ~(x.by = h /\ x.from = held[h].token)
    /\ \A x, y \in rotated : (x.by = y.by /\ x.from = y.from) => x = y

\* The members a pass is done with are dead.
SweptIsDead ==
    \A h \in Handler : pc[h] \in {"sweep", "sweepPut"} =>
        \A t \in scanned[h] \ todo[h] : Dead(t)

IInv ==
    /\ TypeOK
    /\ OnlyIssued
    /\ ScannedIssued
    /\ Stored
    /\ SpentIsDead
    /\ OncePerHandler
    /\ SweptIsDead

-------------------------------------------------------------------------------
(***************************************************************************)
(* What the helpers of the specification do to typed variables.            *)
(***************************************************************************)
LEMMA SessionFacts ==
    /\ NoSession \in Session
    /\ NoToken \in [token : 0 .. MaxTokens, copy : Session]
    /\ \A f \in Token : Fresh(f) \in Session /\ Fresh(f).family = f /\ Fresh(f) # NoSession
    /\ \A s \in Session : /\ MarkUsed(s) \in Session
                          /\ MarkUsed(s).family = s.family
                          /\ MarkUsed(s).used
                          /\ MarkUsed(s) # NoSession
    /\ \A s \in Session : /\ MarkRevoked(s) \in Session
                          /\ MarkRevoked(s).family = s.family
                          /\ MarkRevoked(s).revoked
                          /\ MarkRevoked(s) # NoSession
<1> USE BoundsAssumption DEF Session
<1>1. NoSession \in Session
  BY DEF NoSession
<1>2. NoToken \in [token : 0 .. MaxTokens, copy : Session]
  BY DEF NoToken, NoSession
<1>3. ASSUME NEW f \in Token
      PROVE Fresh(f) \in Session /\ Fresh(f).family = f /\ Fresh(f) # NoSession
  BY DEF Fresh, NoSession, Token
<1>4. ASSUME NEW s \in Session
      PROVE /\ MarkUsed(s) \in Session /\ MarkUsed(s).family = s.family
            /\ MarkUsed(s).used /\ MarkUsed(s) # NoSession
  BY DEF MarkUsed, NoSession
<1>5. ASSUME NEW s \in Session
      PROVE /\ MarkRevoked(s) \in Session /\ MarkRevoked(s).family = s.family
            /\ MarkRevoked(s).revoked /\ MarkRevoked(s) # NoSession
  BY DEF MarkRevoked, NoSession
<1>6. QED
  BY <1>1, <1>2, <1>3, <1>4, <1>5

\* RedisSessionStore.put of a session keeps the store typed.
LEMMA PutTyped ==
    ASSUME TypeOK, NEW t \in Token, NEW s \in Session, Put(t, s)
    PROVE  /\ session' \in [Token -> Session]
           /\ index' \in [Token -> SUBSET Token]
           /\ indexTtl' \in [Token -> 0 .. MaxTokens]
<1>1. session' \in [Token -> Session]
  BY DEF TypeOK, Put
<1>2. index' \in [Token -> SUBSET Token]
  BY DEF TypeOK, Put
<1>3. indexTtl' \in [Token -> 0 .. MaxTokens]
  <2>1. t \in 0 .. MaxTokens
    BY BoundsAssumption DEF Token
  <2>2. QED
    BY <2>1 DEF TypeOK, Put
<1>4. QED
  BY <1>1, <1>2, <1>3

\* Moving a handler to a stage keeps the stages typed.
LEMMA GotoTyped ==
    ASSUME TypeOK, NEW h \in Handler, NEW stage \in Stage, Goto(h, stage)
    PROVE  pc' \in [Handler -> Stage]
BY DEF TypeOK, Goto

\* A handler that leaves its request keeps the locals typed.
LEMMA LeaveTyped ==
    ASSUME TypeOK, NEW h \in Handler, Leave(h)
    PROVE  /\ pc' \in [Handler -> Stage]
           /\ held' \in [Handler -> [token : 0 .. MaxTokens, copy : Session]]
           /\ todo' \in [Handler -> SUBSET Token]
           /\ scanned' \in [Handler -> SUBSET Token]
BY SessionFacts DEF TypeOK, Leave, Goto, Stage

\* What TypeOK says of the value one handler or one token has.
LEMMA TypedHandler ==
    ASSUME TypeOK, NEW h \in Handler
    PROVE  /\ pc[h] \in Stage
           /\ held[h] \in [token : 0 .. MaxTokens, copy : Session]
           /\ held[h].copy \in Session
           /\ todo[h] \subseteq Token
           /\ scanned[h] \subseteq Token
BY DEF TypeOK

-------------------------------------------------------------------------------
(***************************************************************************)
(* Typing                                                                  *)
(***************************************************************************)

\* The empty store is typed.
LEMMA InitType == Init => TypeOK
BY BoundsAssumption, SessionFacts DEF Init, TypeOK, Token, Stage, Rotation

\* Every step of the store or a handler keeps TypeOK.
LEMMA StepType == IInv /\ [Next]_vars => TypeOK'
<1> SUFFICES ASSUME IInv, [Next]_vars PROVE TypeOK'
  OBVIOUS
<1> USE BoundsAssumption, SessionFacts
<1>0. TypeOK /\ OnlyIssued /\ Stored
  BY DEF IInv
<1>i. (1 .. issued) \subseteq Token
  BY <1>0 DEF TypeOK, Token
<1>1. CASE Login
  <2>1. issued + 1 \in Token /\ issued \in 0 .. MaxTokens /\ expired \in 0 .. MaxTokens
    BY <1>0, <1>1 DEF Login, TypeOK, Token
  <2>2. Fresh(issued + 1) \in Session
    BY <2>1
  <2>3. /\ session' \in [Token -> Session]
        /\ index' \in [Token -> SUBSET Token]
        /\ indexTtl' \in [Token -> 0 .. MaxTokens]
    BY <1>0, <1>1, <2>1, <2>2, PutTyped DEF Login
  <2>4. issued' \in 0 .. MaxTokens /\ expired <= issued'
    BY <1>0, <1>1, <2>1 DEF Login, TypeOK, Token
  <2>5. familyOf' \in [Token -> 0 .. MaxTokens]
    BY <1>0, <1>1, <2>1 DEF Login, TypeOK, Token
  <2>6. QED
    BY <1>0, <1>1, <2>3, <2>4, <2>5 DEF Login, TypeOK, handlerVars
<1>2. ASSUME NEW h \in Handler, NEW t \in Token, Present(h, t) PROVE TypeOK'
  <2>1. pc' \in [Handler -> Stage]
    BY <1>0, <1>2, GotoTyped DEF Present, Stage
  <2>2. session[t] \in Session /\ session[t].family \in Token
    BY <1>0, <1>2 DEF TypeOK, Present, Stored
  <2>3. [token |-> t, copy |-> session[t]] \in [token : 0 .. MaxTokens, copy : Session]
    BY <2>2 DEF Token
  <2>4. QED
    BY <1>0, <1>2, <2>1, <2>2, <2>3 DEF Present, TypeOK, storeVars
<1>3. ASSUME NEW h \in Handler, Consume(h) PROVE TypeOK'
  <2>1. held[h].token \in Token /\ MarkUsed(held[h].copy) \in Session
    BY <1>0, <1>i, <1>3, TypedHandler DEF Consume, OnlyIssued
  <2>2. pc' \in [Handler -> Stage]
    BY <1>0, <1>3, GotoTyped DEF Consume, Stage
  <2>3. QED
    BY <1>0, <1>3, <2>1, <2>2, PutTyped DEF Consume, TypeOK, historyVars
<1>4. ASSUME NEW h \in Handler, IssueSuccessor(h) PROVE TypeOK'
  <2>1. /\ issued + 1 \in Token /\ issued \in 0 .. MaxTokens /\ expired \in 0 .. MaxTokens
        /\ held[h].token \in Token
        /\ held[h].copy.family \in Token
    BY <1>0, <1>i, <1>4 DEF IssueSuccessor, TypeOK, Token, OnlyIssued, Stored
  <2>2. Fresh(held[h].copy.family) \in Session
    BY <2>1
  <2>3. [by |-> h, from |-> held[h].token, to |-> issued + 1] \in Rotation
    BY <2>1 DEF Rotation
  <2>4. /\ session' \in [Token -> Session]
        /\ index' \in [Token -> SUBSET Token]
        /\ indexTtl' \in [Token -> 0 .. MaxTokens]
    BY <1>0, <1>4, <2>1, <2>2, PutTyped DEF IssueSuccessor
  <2>5. issued' \in 0 .. MaxTokens /\ expired <= issued'
    BY <1>0, <1>4, <2>1 DEF IssueSuccessor, TypeOK, Token
  <2>6. familyOf' \in [Token -> 0 .. MaxTokens]
    BY <1>0, <1>4, <2>1 DEF IssueSuccessor, TypeOK, Token
  <2>7. rotated' \subseteq Rotation
    BY <1>0, <1>4, <2>3 DEF IssueSuccessor, TypeOK
  <2>8. QED
    BY <1>0, <1>4, <2>4, <2>5, <2>6, <2>7, LeaveTyped DEF IssueSuccessor, TypeOK
<1>5. ASSUME NEW h \in Handler, ScanFamily(h) PROVE TypeOK'
  <2>1. pc' \in [Handler -> Stage]
    BY <1>0, <1>5, GotoTyped DEF ScanFamily, Stage
  <2>2. held[h].copy.family \in Token
    BY <1>0, <1>5 DEF ScanFamily, Stored
  <2>3. QED
    BY <1>0, <1>5, <2>1, <2>2 DEF ScanFamily, TypeOK, storeVars, historyVars
<1>6. ASSUME NEW h \in Handler, NEW t \in Token, SweepGet(h, t) PROVE TypeOK'
  <2>1. pc' \in [Handler -> Stage]
    BY <1>0, <1>6, GotoTyped DEF SweepGet, Stage
  <2>2. [token |-> t, copy |-> session[t]] \in [token : 0 .. MaxTokens, copy : Session]
    BY <1>0 DEF TypeOK, Token
  <2>3. QED
    BY <1>0, <1>6, <2>1, <2>2 DEF SweepGet, TypeOK, storeVars, historyVars
<1>7. ASSUME NEW h \in Handler, NEW t \in Token, SweepMissing(h, t) PROVE TypeOK'
  BY <1>0, <1>7 DEF SweepMissing, TypeOK, storeVars, historyVars
<1>8. ASSUME NEW h \in Handler, SweepPut(h) PROVE TypeOK'
  <2>1. held[h].token \in Token /\ MarkRevoked(held[h].copy) \in Session
    BY <1>0, <1>i, <1>8, TypedHandler DEF SweepPut, OnlyIssued
  <2>2. pc' \in [Handler -> Stage]
    BY <1>0, <1>8, GotoTyped DEF SweepPut, Stage
  <2>3. QED
    BY <1>0, <1>8, <2>1, <2>2, PutTyped DEF SweepPut, TypeOK, historyVars
<1>9. ASSUME NEW h \in Handler, SweepEnd(h) PROVE TypeOK'
  BY <1>0, <1>9, LeaveTyped DEF SweepEnd, TypeOK, storeVars, historyVars
<1>10. ASSUME NEW h \in Handler, Crash(h) PROVE TypeOK'
  BY <1>0, <1>10, LeaveTyped DEF Crash, TypeOK, storeVars, historyVars
<1>11. CASE ExpireToken
  BY <1>0, <1>11 DEF ExpireToken, TypeOK, storeVars, handlerVars, historyVars
<1>12. ASSUME NEW t \in Token, DropSession(t) PROVE TypeOK'
  BY <1>0, <1>12 DEF DropSession, TypeOK, handlerVars, historyVars
<1>13. ASSUME NEW f \in Token, DropIndex(f) PROVE TypeOK'
  BY <1>0, <1>13 DEF DropIndex, TypeOK, handlerVars, historyVars
<1>14. CASE UNCHANGED vars
  BY <1>0, <1>14 DEF vars, TypeOK
<1>15. QED
  BY <1>1, <1>2, <1>3, <1>4, <1>5, <1>6, <1>7, <1>8, <1>9, <1>10, <1>11,
     <1>12, <1>13, <1>14 DEF Next, Rotate, RevokeFamily, Time

-------------------------------------------------------------------------------
(***************************************************************************)
(* Monotonicity: tokens are only added, time only passes, and no step      *)
(* brings a dead token back.                                               *)
(***************************************************************************)
LEMMA Grows == IInv /\ [Next]_vars =>
    /\ issued \in Nat /\ issued' \in Nat /\ issued <= issued'
    /\ expired \in Nat /\ expired' \in Nat /\ expired <= expired'
    /\ (1 .. issued) \subseteq Token
    /\ (1 .. issued) \subseteq (1 .. issued')
<1> SUFFICES ASSUME IInv, [Next]_vars
             PROVE  /\ issued \in Nat /\ issued' \in Nat /\ issued <= issued'
                    /\ expired \in Nat /\ expired' \in Nat /\ expired <= expired'
                    /\ (1 .. issued) \subseteq Token
  OBVIOUS
<1>0. TypeOK /\ TypeOK'
  BY StepType DEF IInv
<1>1. /\ issued \in Nat /\ issued' \in Nat /\ expired \in Nat /\ expired' \in Nat
      /\ (1 .. issued) \subseteq Token
  BY <1>0, BoundsAssumption DEF TypeOK, Token
<1>2. /\ issued' = issued \/ issued' = issued + 1
      /\ expired' = expired \/ expired' = expired + 1
  BY DEF Next, vars, storeVars, handlerVars, historyVars, Login, Rotate, Present,
         Consume, IssueSuccessor, RevokeFamily, ScanFamily, SweepGet,
         SweepMissing, SweepPut, SweepEnd, Crash, Time, ExpireToken,
         DropSession, DropIndex
<1>3. QED
  BY <1>1, <1>2

\* put writes a dead copy, or it writes a token that was not issued before.
LEMMA PutKills ==
    ASSUME TypeOK, NEW t \in Token, NEW s \in Session, Put(t, s), NEW u \in Token,
           expired' = expired,
           s.used \/ s.revoked \/ u # t,
           Dead(u) \/ u = t
    PROVE  Dead(u)'
BY DEF TypeOK, Put, Dead

\* A token that is dead before a step (used, revoked, expired) is dead after it.
LEMMA DeadPersists ==
    ASSUME IInv, [Next]_vars, NEW u \in 1 .. issued, Dead(u)
    PROVE  Dead(u)'
<1>0. /\ TypeOK /\ OnlyIssued /\ Stored
      /\ u \in Token /\ u \in Nat
      /\ issued \in Nat /\ expired \in Nat /\ expired' \in Nat /\ expired <= expired'
      /\ (1 .. issued) \subseteq Token
  BY Grows DEF IInv
<1>s. ASSUME session' = session PROVE Dead(u)'
  BY <1>0, <1>s DEF Dead
<1>1. CASE Login
  <2>0. issued + 1 \in Token /\ u # issued + 1
    BY <1>0, <1>1, BoundsAssumption DEF Login, Token
  <2>1. Fresh(issued + 1) \in Session
    BY <2>0, SessionFacts
  <2>2. QED
    BY <1>0, <1>1, <2>0, <2>1, PutKills DEF Login
<1>2. ASSUME NEW h \in Handler, NEW t \in Token, Present(h, t) PROVE Dead(u)'
  BY <1>2, <1>s DEF Present, storeVars
<1>3. ASSUME NEW h \in Handler, Consume(h) PROVE Dead(u)'
  <2>1. /\ held[h].token \in Token /\ MarkUsed(held[h].copy) \in Session
        /\ MarkUsed(held[h].copy).used
    BY <1>0, <1>3, TypedHandler, SessionFacts DEF Consume, OnlyIssued
  <2>2. QED
    BY <1>0, <1>3, <2>1, PutKills DEF Consume
<1>4. ASSUME NEW h \in Handler, IssueSuccessor(h) PROVE Dead(u)'
  <2>0. issued + 1 \in Token /\ u # issued + 1
    BY <1>0, <1>4, BoundsAssumption DEF IssueSuccessor, Token
  <2>1. Fresh(held[h].copy.family) \in Session
    BY <1>0, <1>4, SessionFacts DEF IssueSuccessor, Stored
  <2>2. QED
    BY <1>0, <1>4, <2>0, <2>1, PutKills DEF IssueSuccessor
<1>5. ASSUME NEW h \in Handler, ScanFamily(h) PROVE Dead(u)'
  BY <1>5, <1>s DEF ScanFamily, storeVars
<1>6. ASSUME NEW h \in Handler, NEW t \in Token, SweepGet(h, t) PROVE Dead(u)'
  BY <1>6, <1>s DEF SweepGet, storeVars
<1>7. ASSUME NEW h \in Handler, NEW t \in Token, SweepMissing(h, t) PROVE Dead(u)'
  BY <1>7, <1>s DEF SweepMissing, storeVars
<1>8. ASSUME NEW h \in Handler, SweepPut(h) PROVE Dead(u)'
  <2>1. /\ held[h].token \in Token /\ MarkRevoked(held[h].copy) \in Session
        /\ MarkRevoked(held[h].copy).revoked
    BY <1>0, <1>8, TypedHandler, SessionFacts DEF SweepPut, OnlyIssued
  <2>2. QED
    BY <1>0, <1>8, <2>1, PutKills DEF SweepPut
<1>9. ASSUME NEW h \in Handler, SweepEnd(h) PROVE Dead(u)'
  BY <1>9, <1>s DEF SweepEnd, storeVars
<1>10. ASSUME NEW h \in Handler, Crash(h) PROVE Dead(u)'
  BY <1>10, <1>s DEF Crash, storeVars
<1>11. CASE ExpireToken
  BY <1>11, <1>s DEF ExpireToken, storeVars
<1>12. ASSUME NEW t \in Token, DropSession(t) PROVE Dead(u)'
  BY <1>0, <1>12 DEF DropSession, Dead, TypeOK
<1>13. ASSUME NEW f \in Token, DropIndex(f) PROVE Dead(u)'
  BY <1>13, <1>s DEF DropIndex
<1>14. CASE UNCHANGED vars
  BY <1>14, <1>s DEF vars
<1>15. QED
  BY <1>1, <1>2, <1>3, <1>4, <1>5, <1>6, <1>7, <1>8, <1>9, <1>10, <1>11,
     <1>12, <1>13, <1>14 DEF Next, Rotate, RevokeFamily, Time

(***************************************************************************)
(* The other conjuncts of the invariant.                                   *)
(***************************************************************************)

\* Only issued tokens are held, indexed, swept or rotated.
LEMMA StepOnlyIssued == IInv /\ [Next]_vars => OnlyIssued'
<1> SUFFICES ASSUME IInv, [Next]_vars PROVE OnlyIssued'
  OBVIOUS
<1>0. /\ TypeOK /\ OnlyIssued /\ Stored
      /\ issued \in Nat /\ issued' \in Nat /\ (1 .. issued) \subseteq Token
      /\ (1 .. issued) \subseteq (1 .. issued')
  BY Grows DEF IInv
<1> USE DEF TypeOK, OnlyIssued
<1>1. CASE Login
  BY <1>0, <1>1 DEF Login, Put, handlerVars
<1>2. ASSUME NEW h \in Handler, NEW t \in Token, Present(h, t) PROVE OnlyIssued'
  BY <1>0, <1>2 DEF Present, storeVars, Goto
<1>3. ASSUME NEW h \in Handler, Consume(h) PROVE OnlyIssued'
  BY <1>0, <1>3 DEF Consume, Put, Goto, historyVars
<1>4. ASSUME NEW h \in Handler, IssueSuccessor(h) PROVE OnlyIssued'
  BY <1>0, <1>4 DEF IssueSuccessor, Put, Leave, Goto
<1>5. ASSUME NEW h \in Handler, ScanFamily(h) PROVE OnlyIssued'
  BY <1>0, <1>5 DEF ScanFamily, storeVars, Goto, historyVars, Stored
<1>6. ASSUME NEW h \in Handler, NEW t \in Token, SweepGet(h, t) PROVE OnlyIssued'
  BY <1>0, <1>6 DEF SweepGet, storeVars, Goto, historyVars
<1>7. ASSUME NEW h \in Handler, NEW t \in Token, SweepMissing(h, t) PROVE OnlyIssued'
  BY <1>0, <1>7 DEF SweepMissing, storeVars, historyVars
<1>8. ASSUME NEW h \in Handler, SweepPut(h) PROVE OnlyIssued'
  BY <1>0, <1>8 DEF SweepPut, Put, Goto, historyVars
<1>9. ASSUME NEW h \in Handler, SweepEnd(h) PROVE OnlyIssued'
  BY <1>0, <1>9 DEF SweepEnd, storeVars, Leave, Goto, historyVars
<1>10. ASSUME NEW h \in Handler, Crash(h) PROVE OnlyIssued'
  BY <1>0, <1>10 DEF Crash, storeVars, Leave, Goto, historyVars
<1>11. CASE ExpireToken
  BY <1>0, <1>11 DEF ExpireToken, storeVars, handlerVars, historyVars
<1>12. ASSUME NEW t \in Token, DropSession(t) PROVE OnlyIssued'
  BY <1>0, <1>12 DEF DropSession, handlerVars, historyVars
<1>13. ASSUME NEW f \in Token, DropIndex(f) PROVE OnlyIssued'
  BY <1>0, <1>13 DEF DropIndex, handlerVars, historyVars
<1>14. CASE UNCHANGED vars
  BY <1>0, <1>14 DEF vars
<1>15. QED
  BY <1>1, <1>2, <1>3, <1>4, <1>5, <1>6, <1>7, <1>8, <1>9, <1>10, <1>11,
     <1>12, <1>13, <1>14 DEF Next, Rotate, RevokeFamily, Time

\* A stored session keeps naming its family and is missing only after its token expired.
LEMMA StepStored == IInv /\ [Next]_vars => Stored'
<1> SUFFICES ASSUME IInv, [Next]_vars PROVE Stored'
  OBVIOUS
<1>0. /\ TypeOK /\ OnlyIssued /\ Stored
      /\ issued \in Nat /\ (1 .. issued) \subseteq Token
      /\ expired \in Nat /\ expired' \in Nat /\ expired <= expired'
  BY Grows DEF IInv
<1> USE DEF TypeOK, OnlyIssued, Stored
<1>1. CASE Login
  <2>0. issued + 1 \in Token /\ issued' = issued + 1
    BY <1>0, <1>1, BoundsAssumption DEF Login, Token
  <2>1. issued + 1 \in Token /\ \A t \in 1 .. issued' : t \in 1 .. issued \/ t = issued + 1
    BY <1>0, <2>0
  <2>2. /\ Fresh(issued + 1) # NoSession /\ Fresh(issued + 1).family = issued + 1
        /\ session' = [session EXCEPT ![issued + 1] = Fresh(issued + 1)]
        /\ UNCHANGED <<pc, held, expired>>
    BY <1>1, <2>1, SessionFacts DEF Login, Put, handlerVars
  <2>3. \A t \in Token : session'[t] # NoSession => session'[t].family \in Token
    BY <1>0, <2>1, <2>2
  <2>4. \A t \in 1 .. issued' : session'[t] = NoSession => t <= expired'
    BY <1>0, <2>1, <2>2
  <2>5. QED
    BY <1>0, <2>2, <2>3, <2>4
<1>2. ASSUME NEW h \in Handler, NEW t \in Token, Present(h, t) PROVE Stored'
  BY <1>0, <1>2 DEF Present, storeVars, Goto
<1>3. ASSUME NEW h \in Handler, Consume(h) PROVE Stored'
  <2>1. /\ held[h].token \in Token /\ held[h].copy.family \in Token
        /\ MarkUsed(held[h].copy) # NoSession
        /\ MarkUsed(held[h].copy).family = held[h].copy.family
    BY <1>0, <1>3, TypedHandler, SessionFacts DEF Consume
  <2>2. QED
    BY <1>0, <1>3, <2>1 DEF Consume, Put, Goto
<1>4. ASSUME NEW h \in Handler, IssueSuccessor(h) PROVE Stored'
  <2>0. held[h].copy.family \in Token
    BY <1>0, <1>4 DEF IssueSuccessor
  <2>1. /\ issued + 1 \in Token /\ 1 .. issued' = (1 .. issued) \cup {issued + 1}
    BY <1>0, <1>4, BoundsAssumption DEF IssueSuccessor, Token
  <2>2. /\ Fresh(held[h].copy.family) # NoSession
        /\ Fresh(held[h].copy.family).family \in Token
        /\ session' = [session EXCEPT ![issued + 1] = Fresh(held[h].copy.family)]
        /\ expired' = expired
    BY <1>4, <2>0, SessionFacts DEF IssueSuccessor, Put
  <2>3. pc' = [pc EXCEPT ![h] = "idle"] /\ held' = [held EXCEPT ![h] = NoToken]
    BY <1>4 DEF IssueSuccessor, Leave, Goto
  <2>4. QED
    BY <1>0, <2>1, <2>2, <2>3
<1>5. ASSUME NEW h \in Handler, ScanFamily(h) PROVE Stored'
  BY <1>0, <1>5 DEF ScanFamily, storeVars, Goto
<1>6. ASSUME NEW h \in Handler, NEW t \in Token, SweepGet(h, t) PROVE Stored'
  BY <1>0, <1>6 DEF SweepGet, storeVars, Goto
<1>7. ASSUME NEW h \in Handler, NEW t \in Token, SweepMissing(h, t) PROVE Stored'
  BY <1>0, <1>7 DEF SweepMissing, storeVars
<1>8. ASSUME NEW h \in Handler, SweepPut(h) PROVE Stored'
  <2>1. /\ held[h].token \in Token /\ held[h].copy.family \in Token
        /\ MarkRevoked(held[h].copy) # NoSession
        /\ MarkRevoked(held[h].copy).family = held[h].copy.family
    BY <1>0, <1>8, TypedHandler, SessionFacts DEF SweepPut
  <2>2. QED
    BY <1>0, <1>8, <2>1 DEF SweepPut, Put, Goto
<1>9. ASSUME NEW h \in Handler, SweepEnd(h) PROVE Stored'
  BY <1>0, <1>9 DEF SweepEnd, storeVars, Leave, Goto
<1>10. ASSUME NEW h \in Handler, Crash(h) PROVE Stored'
  BY <1>0, <1>10 DEF Crash, storeVars, Leave, Goto
<1>11. CASE ExpireToken
  BY <1>0, <1>11 DEF ExpireToken, storeVars, handlerVars
<1>12. ASSUME NEW t \in Token, DropSession(t) PROVE Stored'
  BY <1>0, <1>12 DEF DropSession, handlerVars
<1>13. ASSUME NEW f \in Token, DropIndex(f) PROVE Stored'
  BY <1>0, <1>13 DEF DropIndex, handlerVars
<1>14. CASE UNCHANGED vars
  BY <1>0, <1>14 DEF vars
<1>15. QED
  BY <1>1, <1>2, <1>3, <1>4, <1>5, <1>6, <1>7, <1>8, <1>9, <1>10, <1>11,
     <1>12, <1>13, <1>14 DEF Next, Rotate, RevokeFamily, Time

\* A token that some rotation has consumed stays dead.
LEMMA StepSpentIsDead == IInv /\ [Next]_vars => SpentIsDead'
<1> SUFFICES ASSUME IInv, [Next]_vars PROVE SpentIsDead'
  OBVIOUS
<1>0. /\ TypeOK /\ OnlyIssued /\ Stored /\ SpentIsDead
      /\ issued \in Nat /\ (1 .. issued) \subseteq Token
  BY Grows DEF IInv
<1>d. \A u \in 1 .. issued : Dead(u) => Dead(u)'
  BY DeadPersists
<1>k. ASSUME UNCHANGED <<rotated, held>>,
             \A h \in Handler : pc'[h] = "issue" => pc[h] = "issue"
      PROVE  SpentIsDead'
  BY <1>0, <1>d, <1>k DEF SpentIsDead, OnlyIssued
<1>l. ASSUME NEW h \in Handler, UNCHANGED rotated, pc' = [pc EXCEPT ![h] = "idle"],
             held' = [held EXCEPT ![h] = NoToken]
      PROVE  SpentIsDead'
  BY <1>0, <1>d, <1>l DEF SpentIsDead, OnlyIssued, TypeOK
<1>1. CASE Login
  BY <1>1, <1>k DEF Login, handlerVars
<1>2. ASSUME NEW h \in Handler, NEW t \in Token, Present(h, t) PROVE SpentIsDead'
  BY <1>0, <1>d, <1>2 DEF Present, Goto, SpentIsDead, OnlyIssued, TypeOK
<1>3. ASSUME NEW h \in Handler, Consume(h) PROVE SpentIsDead'
  <2>1. /\ held[h].token \in Token /\ MarkUsed(held[h].copy) \in Session
        /\ MarkUsed(held[h].copy).used
    BY <1>0, <1>3, TypedHandler, SessionFacts DEF Consume, OnlyIssued
  <2>2. Dead(held[h].token)'
    BY <1>0, <1>3, <2>1, PutKills DEF Consume
  <2>3. QED
    BY <1>0, <1>d, <1>3, <2>2 DEF Consume, Goto, SpentIsDead, OnlyIssued, TypeOK, historyVars
<1>4. ASSUME NEW h \in Handler, IssueSuccessor(h) PROVE SpentIsDead'
  <2>1. PICK t \in 1 .. issued : t = held[h].token /\ Dead(t)
    BY <1>0, <1>4 DEF IssueSuccessor, SpentIsDead, OnlyIssued
  <2>2. Dead(t)'
    BY <1>d, <2>1
  <2>3. /\ rotated' = rotated \cup {[by |-> h, from |-> t, to |-> issued + 1]}
        /\ pc' = [pc EXCEPT ![h] = "idle"] /\ held' = [held EXCEPT ![h] = NoToken]
    BY <2>1, <1>4 DEF IssueSuccessor, Leave, Goto
  <2>4. \A x \in rotated' : Dead(x.from)'
    BY <1>0, <1>d, <2>2, <2>3 DEF SpentIsDead, OnlyIssued
  <2>5. \A g \in Handler : pc'[g] = "issue" => Dead(held[g].token)'
    BY <1>0, <1>d, <2>3 DEF SpentIsDead, OnlyIssued, TypeOK
  <2>6. QED
    BY <2>4, <2>5 DEF SpentIsDead
<1>5. ASSUME NEW h \in Handler, ScanFamily(h) PROVE SpentIsDead'
  BY <1>0, <1>5, <1>k DEF ScanFamily, Goto, historyVars, TypeOK
<1>6. ASSUME NEW h \in Handler, NEW t \in Token, SweepGet(h, t) PROVE SpentIsDead'
  BY <1>0, <1>d, <1>6 DEF SweepGet, Goto, SpentIsDead, OnlyIssued, TypeOK, historyVars
<1>7. ASSUME NEW h \in Handler, NEW t \in Token, SweepMissing(h, t) PROVE SpentIsDead'
  BY <1>7, <1>k DEF SweepMissing, historyVars
<1>8. ASSUME NEW h \in Handler, SweepPut(h) PROVE SpentIsDead'
  BY <1>0, <1>8, <1>k DEF SweepPut, Goto, historyVars, TypeOK
<1>9. ASSUME NEW h \in Handler, SweepEnd(h) PROVE SpentIsDead'
  BY <1>9, <1>l DEF SweepEnd, Leave, Goto, historyVars
<1>10. ASSUME NEW h \in Handler, Crash(h) PROVE SpentIsDead'
  BY <1>10, <1>l DEF Crash, Leave, Goto, historyVars
<1>11. CASE ExpireToken
  BY <1>11, <1>k DEF ExpireToken, handlerVars, historyVars
<1>12. ASSUME NEW t \in Token, DropSession(t) PROVE SpentIsDead'
  BY <1>12, <1>k DEF DropSession, handlerVars, historyVars
<1>13. ASSUME NEW f \in Token, DropIndex(f) PROVE SpentIsDead'
  BY <1>13, <1>k DEF DropIndex, handlerVars, historyVars
<1>14. CASE UNCHANGED vars
  BY <1>14, <1>k DEF vars
<1>15. QED
  BY <1>1, <1>2, <1>3, <1>4, <1>5, <1>6, <1>7, <1>8, <1>9, <1>10, <1>11,
     <1>12, <1>13, <1>14 DEF Next, Rotate, RevokeFamily, Time

\* One request never gives a token a second successor.
LEMMA StepOncePerHandler == IInv /\ [Next]_vars => OncePerHandler'
<1> SUFFICES ASSUME IInv, [Next]_vars PROVE OncePerHandler'
  OBVIOUS
<1>0. TypeOK /\ OnlyIssued /\ SpentIsDead /\ OncePerHandler
  BY DEF IInv
<1>k. ASSUME UNCHANGED <<rotated, held>>,
             \A h \in Handler : pc'[h] \in {"consume", "issue"} => pc[h] \in {"consume", "issue"}
      PROVE  OncePerHandler'
  BY <1>0, <1>k DEF OncePerHandler
<1>l. ASSUME NEW h \in Handler, UNCHANGED rotated, pc' = [pc EXCEPT ![h] = "idle"],
             held' = [held EXCEPT ![h] = NoToken]
      PROVE  OncePerHandler'
  BY <1>0, <1>l DEF OncePerHandler, TypeOK
<1>1. CASE Login
  BY <1>1, <1>k DEF Login, handlerVars
<1>2. ASSUME NEW h \in Handler, NEW t \in Token, Present(h, t) PROVE OncePerHandler'
  <2>1. pc'[h] = "consume" => ~Dead(t)
    BY <1>0, <1>2 DEF Present, Goto, Dead, TypeOK, Token
  <2>2. pc'[h] = "consume" => \A x \in rotated : x.from # t
    BY <1>0, <2>1 DEF SpentIsDead
  <2>3. /\ pc'[h] \in {"scan", "consume"} /\ held'[h].token = t /\ rotated' = rotated
        /\ \A g \in Handler \ {h} : pc'[g] = pc[g] /\ held'[g] = held[g]
    BY <1>0, <1>2 DEF Present, Goto, TypeOK
  <2>4. QED
    BY <1>0, <2>2, <2>3 DEF OncePerHandler
<1>3. ASSUME NEW h \in Handler, Consume(h) PROVE OncePerHandler'
  BY <1>0, <1>3, <1>k DEF Consume, Goto, historyVars, TypeOK
<1>4. ASSUME NEW h \in Handler, IssueSuccessor(h) PROVE OncePerHandler'
  <2> DEFINE new == [by |-> h, from |-> held[h].token, to |-> issued + 1]
  <2>1. /\ rotated' = rotated \cup {new} /\ new.by = h /\ new.from = held[h].token
        /\ pc' = [pc EXCEPT ![h] = "idle"] /\ held' = [held EXCEPT ![h] = NoToken]
    BY <1>4 DEF IssueSuccessor, Leave, Goto
  <2>2. \A x \in rotated : ~(x.by = h /\ x.from = held[h].token)
    BY <1>0, <1>4 DEF IssueSuccessor, OncePerHandler
  <2> HIDE DEF new
  <2>3. \A x, y \in rotated' : (x.by = y.by /\ x.from = y.from) => x = y
    BY <1>0, <2>1, <2>2 DEF OncePerHandler
  <2>4. \A g \in Handler : pc'[g] \in {"consume", "issue"} =>
            g # h /\ pc'[g] = pc[g] /\ held'[g] = held[g]
    BY <1>0, <2>1 DEF TypeOK
  <2>5. QED
    BY <1>0, <2>1, <2>3, <2>4 DEF OncePerHandler
<1>5. ASSUME NEW h \in Handler, ScanFamily(h) PROVE OncePerHandler'
  BY <1>0, <1>5, <1>k DEF ScanFamily, Goto, historyVars, TypeOK
<1>6. ASSUME NEW h \in Handler, NEW t \in Token, SweepGet(h, t) PROVE OncePerHandler'
  BY <1>0, <1>6 DEF SweepGet, Goto, OncePerHandler, TypeOK, historyVars
<1>7. ASSUME NEW h \in Handler, NEW t \in Token, SweepMissing(h, t) PROVE OncePerHandler'
  BY <1>7, <1>k DEF SweepMissing, historyVars
<1>8. ASSUME NEW h \in Handler, SweepPut(h) PROVE OncePerHandler'
  BY <1>0, <1>8, <1>k DEF SweepPut, Goto, historyVars, TypeOK
<1>9. ASSUME NEW h \in Handler, SweepEnd(h) PROVE OncePerHandler'
  BY <1>9, <1>l DEF SweepEnd, Leave, Goto, historyVars
<1>10. ASSUME NEW h \in Handler, Crash(h) PROVE OncePerHandler'
  BY <1>10, <1>l DEF Crash, Leave, Goto, historyVars
<1>11. CASE ExpireToken
  BY <1>11, <1>k DEF ExpireToken, handlerVars, historyVars
<1>12. ASSUME NEW t \in Token, DropSession(t) PROVE OncePerHandler'
  BY <1>12, <1>k DEF DropSession, handlerVars, historyVars
<1>13. ASSUME NEW f \in Token, DropIndex(f) PROVE OncePerHandler'
  BY <1>13, <1>k DEF DropIndex, handlerVars, historyVars
<1>14. CASE UNCHANGED vars
  BY <1>14, <1>k DEF vars
<1>15. QED
  BY <1>1, <1>2, <1>3, <1>4, <1>5, <1>6, <1>7, <1>8, <1>9, <1>10, <1>11,
     <1>12, <1>13, <1>14 DEF Next, Rotate, RevokeFamily, Time

\* The members a revocation pass is through with stay dead.
LEMMA StepSweptIsDead == IInv /\ [Next]_vars => SweptIsDead'
<1> SUFFICES ASSUME IInv, [Next]_vars PROVE SweptIsDead'
  OBVIOUS
<1>0. /\ TypeOK /\ OnlyIssued /\ Stored /\ SweptIsDead /\ ScannedIssued
      /\ issued \in Nat /\ (1 .. issued) \subseteq Token
  BY Grows DEF IInv
<1>d. \A u \in 1 .. issued : Dead(u) => Dead(u)'
  BY DeadPersists
<1>k. ASSUME UNCHANGED <<todo, scanned>>,
             \A h \in Handler : pc'[h] \in {"sweep", "sweepPut"} => pc[h] \in {"sweep", "sweepPut"}
      PROVE  SweptIsDead'
  BY <1>0, <1>d, <1>k DEF SweptIsDead, ScannedIssued
<1>l. ASSUME NEW h \in Handler, Leave(h) PROVE SweptIsDead'
  BY <1>0, <1>d, <1>l DEF SweptIsDead, ScannedIssued, Leave, Goto, TypeOK
<1>1. CASE Login
  BY <1>1, <1>k DEF Login, handlerVars
<1>2. ASSUME NEW h \in Handler, NEW t \in Token, Present(h, t) PROVE SweptIsDead'
  BY <1>0, <1>2, <1>k DEF Present, Goto, TypeOK
<1>3. ASSUME NEW h \in Handler, Consume(h) PROVE SweptIsDead'
  BY <1>0, <1>3, <1>k DEF Consume, Goto, TypeOK
<1>4. ASSUME NEW h \in Handler, IssueSuccessor(h) PROVE SweptIsDead'
  BY <1>4, <1>l DEF IssueSuccessor
<1>5. ASSUME NEW h \in Handler, ScanFamily(h) PROVE SweptIsDead'
  BY <1>0, <1>d, <1>5 DEF ScanFamily, Goto, SweptIsDead, ScannedIssued, TypeOK
<1>6. ASSUME NEW h \in Handler, NEW t \in Token, SweepGet(h, t) PROVE SweptIsDead'
  BY <1>0, <1>6, <1>k DEF SweepGet, Goto, TypeOK
<1>7. ASSUME NEW h \in Handler, NEW t \in Token, SweepMissing(h, t) PROVE SweptIsDead'
  <2>1. t \in 1 .. issued
    BY <1>0, <1>7 DEF SweepMissing, OnlyIssued
  <2>2. Dead(t)'
    BY <1>0, <1>d, <2>1, <1>7 DEF SweepMissing, Stored, Dead
  <2>3. QED
    BY <1>0, <1>d, <2>2, <1>7 DEF SweepMissing, SweptIsDead, ScannedIssued, TypeOK
<1>8. ASSUME NEW h \in Handler, SweepPut(h) PROVE SweptIsDead'
  <2>1. /\ held[h].token \in Token /\ MarkRevoked(held[h].copy) \in Session
        /\ MarkRevoked(held[h].copy).revoked
    BY <1>0, <1>8, TypedHandler, SessionFacts DEF SweepPut, OnlyIssued
  <2>2. Dead(held[h].token)'
    BY <1>0, <1>8, <2>1, PutKills DEF SweepPut
  <2>3. QED
    BY <1>0, <1>d, <1>8, <2>2 DEF SweepPut, Goto, SweptIsDead, ScannedIssued, TypeOK
<1>9. ASSUME NEW h \in Handler, SweepEnd(h) PROVE SweptIsDead'
  BY <1>9, <1>l DEF SweepEnd
<1>10. ASSUME NEW h \in Handler, Crash(h) PROVE SweptIsDead'
  BY <1>10, <1>l DEF Crash
<1>11. CASE ExpireToken
  BY <1>11, <1>k DEF ExpireToken, handlerVars
<1>12. ASSUME NEW t \in Token, DropSession(t) PROVE SweptIsDead'
  BY <1>12, <1>k DEF DropSession, handlerVars
<1>13. ASSUME NEW f \in Token, DropIndex(f) PROVE SweptIsDead'
  BY <1>13, <1>k DEF DropIndex, handlerVars
<1>14. CASE UNCHANGED vars
  BY <1>14, <1>k DEF vars
<1>15. QED
  BY <1>1, <1>2, <1>3, <1>4, <1>5, <1>6, <1>7, <1>8, <1>9, <1>10, <1>11,
     <1>12, <1>13, <1>14 DEF Next, Rotate, RevokeFamily, Time

\* A revocation pass read members that were issued.
LEMMA StepScannedIssued == IInv /\ [Next]_vars => ScannedIssued'
<1> SUFFICES ASSUME IInv, [Next]_vars PROVE ScannedIssued'
  OBVIOUS
<1>0. /\ TypeOK /\ OnlyIssued /\ Stored /\ ScannedIssued
      /\ (1 .. issued) \subseteq (1 .. issued')
  BY Grows DEF IInv
<1> USE DEF ScannedIssued
<1>k. ASSUME UNCHANGED scanned PROVE ScannedIssued'
  BY <1>0, <1>k
<1>l. ASSUME NEW h \in Handler, scanned' = [scanned EXCEPT ![h] = {}] PROVE ScannedIssued'
  BY <1>0, <1>l DEF TypeOK
<1>1. CASE Login
  BY <1>1, <1>k DEF Login, handlerVars
<1>2. ASSUME NEW h \in Handler, NEW t \in Token, Present(h, t) PROVE ScannedIssued'
  BY <1>2, <1>k DEF Present
<1>3. ASSUME NEW h \in Handler, Consume(h) PROVE ScannedIssued'
  BY <1>3, <1>k DEF Consume
<1>4. ASSUME NEW h \in Handler, IssueSuccessor(h) PROVE ScannedIssued'
  BY <1>4, <1>l DEF IssueSuccessor, Leave
<1>5. ASSUME NEW h \in Handler, ScanFamily(h) PROVE ScannedIssued'
  BY <1>0, <1>5 DEF ScanFamily, TypeOK, OnlyIssued, Stored
<1>6. ASSUME NEW h \in Handler, NEW t \in Token, SweepGet(h, t) PROVE ScannedIssued'
  BY <1>6, <1>k DEF SweepGet
<1>7. ASSUME NEW h \in Handler, NEW t \in Token, SweepMissing(h, t) PROVE ScannedIssued'
  BY <1>7, <1>k DEF SweepMissing
<1>8. ASSUME NEW h \in Handler, SweepPut(h) PROVE ScannedIssued'
  BY <1>8, <1>k DEF SweepPut
<1>9. ASSUME NEW h \in Handler, SweepEnd(h) PROVE ScannedIssued'
  BY <1>9, <1>l DEF SweepEnd, Leave
<1>10. ASSUME NEW h \in Handler, Crash(h) PROVE ScannedIssued'
  BY <1>10, <1>l DEF Crash, Leave
<1>11. CASE ExpireToken
  BY <1>11, <1>k DEF ExpireToken, handlerVars
<1>12. ASSUME NEW t \in Token, DropSession(t) PROVE ScannedIssued'
  BY <1>12, <1>k DEF DropSession, handlerVars
<1>13. ASSUME NEW f \in Token, DropIndex(f) PROVE ScannedIssued'
  BY <1>13, <1>k DEF DropIndex, handlerVars
<1>14. CASE UNCHANGED vars
  BY <1>14, <1>k DEF vars
<1>15. QED
  BY <1>1, <1>2, <1>3, <1>4, <1>5, <1>6, <1>7, <1>8, <1>9, <1>10, <1>11,
     <1>12, <1>13, <1>14 DEF Next, Rotate, RevokeFamily, Time

-------------------------------------------------------------------------------
(***************************************************************************)
(* The theorems                                                            *)
(***************************************************************************)

\* The empty store satisfies the inductive invariant.
LEMMA InitIInv == Init => IInv
<1> SUFFICES ASSUME Init PROVE IInv
  OBVIOUS
<1>1. TypeOK
  BY InitType
<1>2. OnlyIssued /\ ScannedIssued /\ Stored
  BY DEF Init, OnlyIssued, ScannedIssued, Stored
<1>3. SpentIsDead /\ OncePerHandler /\ SweptIsDead
  BY DEF Init, SpentIsDead, OncePerHandler, SweptIsDead
<1>4. QED
  BY <1>1, <1>2, <1>3 DEF IInv

\* Every step of the store or a handler keeps the inductive invariant.
LEMMA StepIInv == IInv /\ [Next]_vars => IInv'
BY StepType, StepOnlyIssued, StepScannedIssued, StepStored, StepSpentIsDead,
   StepOncePerHandler, StepSweptIsDead DEF IInv

\* The inductive invariant holds of every reachable state of the session store and its handlers.
THEOREM Invariance == Spec => []IInv
BY InitIInv, StepIInv, PTL DEF Spec

(***************************************************************************)
(* The variables keep their types, for every set of handlers and bound.    *)
(***************************************************************************)
THEOREM TypeCorrect == Spec => []TypeOK
<1>1. IInv => TypeOK
  BY DEF IInv
<1>2. QED
  BY <1>1, Invariance, PTL

(***************************************************************************)
(* A token has no more successors than there are handlers: `by` is an      *)
(* injection from its rotations into Handler.                              *)
(***************************************************************************)
LEMMA BoundFromIInv == IInv => SuccessorBound
<1> SUFFICES ASSUME IInv, NEW t \in Token
             PROVE  Cardinality(Successors(t)) <= Cardinality(Handler)
  BY DEF SuccessorBound
<1> DEFINE slot == [x \in Successors(t) |-> x.by]
<1>1. slot \in [Successors(t) -> Handler]
  BY DEF IInv, TypeOK, Rotation, Successors
<1>2. \A x, y \in Successors(t) : slot[x] = slot[y] => x = y
  BY DEF IInv, OncePerHandler, Successors
<1>3. slot \in Injection(Successors(t), Handler)
  BY <1>1, <1>2 DEF Injection, IsInjective
<1>4. QED
  BY <1>3, HandlerAssumption, FS_Injection

\* rotate gives a token no more successors than there are requests at once.
THEOREM SuccessorsBounded == Spec => []SuccessorBound
BY BoundFromIInv, Invariance, PTL

(***************************************************************************)
(* No step brings a used, revoked or expired token back.                   *)
(***************************************************************************)
THEOREM DeadForGood == Spec => DeadStaysDead
<1>1. IInv /\ [Next]_vars =>
         [\A t \in Token : (t <= issued /\ Dead(t)) => Dead(t)']_vars
  <2> SUFFICES ASSUME IInv, [Next]_vars, NEW t \in Token, t <= issued, Dead(t)
               PROVE  Dead(t)'
    OBVIOUS
  <2>1. t \in 1 .. issued
    BY DEF Token, IInv, TypeOK
  <2>2. QED
    BY <2>1, DeadPersists
<1>2. QED
  BY <1>1, Invariance, PTL DEF Spec, DeadStaysDead

(***************************************************************************)
(* A revocation pass that runs to its end leaves every member it scanned   *)
(* dead.                                                                   *)
(***************************************************************************)
THEOREM SweepsKill == Spec => SweepKillsScanned
<1>1. IInv /\ [Next]_vars =>
         [\A h \in Handler :
            (pc[h] = "sweep" /\ pc'[h] = "idle" /\ crashes' = crashes)
               => \A t \in scanned[h] : Dead(t)]_vars
  <2> SUFFICES ASSUME IInv, Next, NEW h \in Handler,
                      pc[h] = "sweep", pc'[h] = "idle", crashes' = crashes
               PROVE  \A t \in scanned[h] : Dead(t)
    BY DEF vars
  <2>0. TypeOK /\ SweptIsDead
    BY DEF IInv
  <2>1. SweepEnd(h)
    BY <2>0 DEF Next, handlerVars, Login, Rotate, Present, Consume, IssueSuccessor,
         RevokeFamily, ScanFamily, SweepGet, SweepMissing, SweepPut, SweepEnd,
         Crash, Time, ExpireToken, DropSession, DropIndex, Goto, Leave, TypeOK
  <2>2. QED
    BY <2>0, <2>1 DEF SweptIsDead, SweepEnd
<1>2. QED
  BY <1>1, Invariance, PTL DEF Spec, SweepKillsScanned

-------------------------------------------------------------------------------
(***************************************************************************)
(* One request at a time.  Copies are never stale then, so a family has    *)
(* the one live token that is being exchanged, and no other.               *)
(***************************************************************************)
Alone == \A g, h \in Handler : g = h
HeldFamily(h) == held[h].copy.family
Sweeps(h) == pc[h] \in {"sweep", "sweepPut"}

\* Sessions, family keys, copies and passes name the family a token was issued in.
FamiliesKept ==
    /\ \A t \in 1 .. issued : familyOf[t] \in 1 .. issued
    /\ \A t \in 1 .. issued : session[t] # NoSession => session[t].family = familyOf[t]
    /\ \A h \in Handler : pc[h] # "idle" => HeldFamily(h) = familyOf[held[h].token]
    /\ \A f \in Token : \A t \in index[f] : familyOf[t] = f
    /\ \A h \in Handler : Sweeps(h) => \A t \in todo[h] : familyOf[t] = HeldFamily(h)
    /\ reused \subseteq 1 .. issued

\* Beside the token that is exchanged no other of its family is live.
LastOfFamily ==
    \A h \in Handler : pc[h] \in {"consume", "issue"} =>
        \A u \in 1 .. issued : familyOf[u] = HeldFamily(h) =>
            Dead(u) \/ (u = held[h].token /\ pc[h] = "consume")

\* No token of a compromised family is exchanged.
Exchanged ==
    crashes = 0 => \A h \in Handler :
        pc[h] \in {"consume", "issue"} => HeldFamily(h) \notin reused

\* A live token is in its family key, which lives as long, or on the list of the pass.
Reachable ==
    crashes = 0 => \A t \in 1 .. issued : ~Dead(t) =>
        \/ t \in index[familyOf[t]] /\ t <= indexTtl[familyOf[t]]
        \/ \E h \in Handler : Sweeps(h) /\ HeldFamily(h) = familyOf[t]

Swept ==
    crashes = 0 => \A h \in Handler : Sweeps(h) =>
        \A t \in 1 .. issued : familyOf[t] = HeldFamily(h) => Dead(t) \/ t \in todo[h]

AloneInv ==
    /\ FamiliesKept /\ LastOfFamily /\ OneLivePerFamily
    /\ Exchanged /\ Reachable /\ Swept /\ ReusedFamilyIsDead

LEMMA AloneStarts == Init => AloneInv
  BY DEF Init, AloneInv, FamiliesKept, LastOfFamily, OneLivePerFamily, Exchanged, Reachable, Swept,
         ReusedFamilyIsDead, Sweeps

\* The counters of the store are numbers, and an issued token is a token.
LEMMA Counters ==
    ASSUME TypeOK
    PROVE  issued \in Nat /\ expired \in Nat /\ crashes \in Nat /\ 1 .. issued \subseteq Token
BY BoundsAssumption DEF TypeOK, Token

\* What the invariants say of the values a step works on.
LEMMA HandlerFacts ==
    ASSUME IInv, AloneInv, Alone, NEW h \in Handler
    PROVE  /\ \A g \in Handler : g = h
           /\ pc[h] # "idle" => /\ held[h].token \in 1 .. issued /\ held[h].token \in Token
                                /\ held[h].copy \in Session
                                /\ HeldFamily(h) \in 1 .. issued /\ HeldFamily(h) \in Token
                                /\ HeldFamily(h) = familyOf[held[h].token]
           /\ issued \in Nat /\ expired \in Nat /\ 1 .. issued \subseteq Token
<1>1. TypeOK /\ 1 .. issued \subseteq Token /\ issued \in Nat /\ expired \in Nat
  BY Counters DEF IInv, TypeOK
<1>2. ASSUME pc[h] # "idle" PROVE held[h].token \in 1 .. issued
  BY <1>2 DEF IInv, OnlyIssued
<1>3. ASSUME pc[h] # "idle" PROVE HeldFamily(h) = familyOf[held[h].token]
  BY <1>3 DEF AloneInv, FamiliesKept
<1>4. ASSUME pc[h] # "idle" PROVE HeldFamily(h) \in 1 .. issued
  BY <1>2, <1>3, <1>4 DEF AloneInv, FamiliesKept
<1>5. held[h].copy \in Session
  BY <1>1, TypedHandler
<1> QED BY <1>1, <1>2, <1>3, <1>4, <1>5 DEF Alone

(***************************************************************************)
(* Steps that only make tokens die: time.                                  *)
(***************************************************************************)
LEMMA TimeAlone ==
    ASSUME IInv, AloneInv, Time, \A u \in 1 .. issued : Dead(u) => Dead(u)'
    PROVE  AloneInv'
<1>1. /\ TypeOK /\ issued \in Nat /\ expired \in Nat /\ 1 .. issued \subseteq Token
      /\ \A f \in Token : index[f] \subseteq 1 .. issued
  BY Counters DEF IInv, OnlyIssued
<1>2. UNCHANGED <<issued, indexTtl, handlerVars, historyVars, crashes>>
  BY DEF Time, ExpireToken, DropSession, DropIndex, storeVars, handlerVars
<1>3. /\ \A t \in Token : session'[t] = session[t] \/ session'[t] = NoSession
      /\ \A f \in Token : /\ index'[f] \subseteq index[f]
                          /\ index'[f] # index[f] => indexTtl[f] <= expired
  BY <1>1 DEF Time, ExpireToken, DropSession, DropIndex, storeVars, handlerVars, TypeOK
<1>4. FamiliesKept'
  BY <1>1, <1>2, <1>3 DEF AloneInv, FamiliesKept, HeldFamily, Sweeps, handlerVars, historyVars
<1>5. LastOfFamily' /\ OneLivePerFamily'
  BY <1>2 DEF AloneInv, LastOfFamily, OneLivePerFamily, Live, HeldFamily, handlerVars, historyVars
<1>6. Exchanged' /\ Swept' /\ ReusedFamilyIsDead'
  BY <1>2 DEF AloneInv, Exchanged, Swept, ReusedFamilyIsDead, Revoking, HeldFamily, Sweeps,
              handlerVars, historyVars
<1>7. Reachable'
  <2> SUFFICES ASSUME crashes = 0, NEW t \in 1 .. issued, ~Dead(t)'
               PROVE  \/ t \in index'[familyOf[t]] /\ t <= indexTtl[familyOf[t]]
                      \/ \E h \in Handler : Sweeps(h) /\ HeldFamily(h) = familyOf[t]
    BY <1>2 DEF Reachable, HeldFamily, Sweeps, handlerVars, historyVars
  <2>1. ~Dead(t)
    OBVIOUS
  <2>2. familyOf[t] \in Token /\ familyOf[t] \in 1 .. issued
    BY <1>1 DEF AloneInv, FamiliesKept
  <2>3. \/ t \in index[familyOf[t]] /\ t <= indexTtl[familyOf[t]]
        \/ \E h \in Handler : Sweeps(h) /\ HeldFamily(h) = familyOf[t]
    BY <2>1 DEF AloneInv, Reachable
  <2>4. ASSUME t <= indexTtl[familyOf[t]], indexTtl[familyOf[t]] <= expired PROVE FALSE
    <3>1. indexTtl[familyOf[t]] \in Nat
      BY <1>1, <2>2 DEF TypeOK
    <3>2. t <= expired
      BY <1>1, <2>4, <3>1
    <3> QED BY <2>1, <3>2 DEF Dead
  <2> QED BY <1>3, <2>2, <2>3, <2>4
<1> QED BY <1>4, <1>5, <1>6, <1>7 DEF AloneInv

(***************************************************************************)
(* A login starts a family of its own.                                     *)
(***************************************************************************)
LEMMA LoginAlone ==
    ASSUME IInv, AloneInv, Login, \A u \in 1 .. issued : Dead(u) => Dead(u)'
    PROVE  AloneInv'
<1> PICK n : n = issued + 1
  OBVIOUS
<1>1. /\ TypeOK /\ issued \in Nat /\ n \in Token /\ 1 .. issued \subseteq Token
      /\ n \in Nat /\ n \notin 1 .. issued /\ 1 .. n = (1 .. issued) \cup {n}
      /\ \A f \in Token : index[f] \subseteq 1 .. issued
      /\ \A h \in Handler : pc[h] # "idle" => held[h].token \in 1 .. issued
      /\ \A h \in Handler : todo[h] \subseteq 1 .. issued
  <2>1. TypeOK /\ issued \in Nat /\ 1 .. issued \subseteq Token
    BY Counters DEF IInv
  <2>2. n \in Token /\ n \in Nat /\ n \notin 1 .. issued /\ 1 .. n = (1 .. issued) \cup {n}
    BY <2>1, BoundsAssumption DEF Login, Token
  <2> QED BY <2>1, <2>2 DEF IInv, OnlyIssued
<1>2. /\ issued' = n /\ UNCHANGED <<expired, handlerVars, rotated, reused, crashes>>
      /\ session' = [session EXCEPT ![n] = Fresh(n)]
      /\ index' = [index EXCEPT ![n] = index[n] \cup {n}]
      /\ indexTtl' = [indexTtl EXCEPT ![n] = n]
      /\ familyOf' = [familyOf EXCEPT ![n] = n]
  BY DEF Login, Put, Fresh
<1>3. /\ session'[n].family = n /\ familyOf'[n] = n /\ index'[n] = index[n] \cup {n} /\ indexTtl'[n] = n
      /\ \A t \in Token : t # n => /\ session'[t] = session[t] /\ familyOf'[t] = familyOf[t]
                                   /\ index'[t] = index[t] /\ indexTtl'[t] = indexTtl[t]
  BY <1>1, <1>2 DEF TypeOK, Fresh
<1>4. \A t \in 1 .. issued : familyOf[t] \in 1 .. issued /\ familyOf'[t] = familyOf[t] /\ t \in Token /\ t # n
  BY <1>1, <1>3 DEF AloneInv, FamiliesKept
<1>5. UNCHANGED <<pc, held, todo, reused, crashes>>
  BY <1>2 DEF handlerVars
<1>6. \A h \in Handler : pc[h] # "idle" => HeldFamily(h) \in 1 .. issued
  BY <1>1, <1>4 DEF AloneInv, FamiliesKept
<1>7. FamiliesKept'
  BY <1>1, <1>2, <1>3, <1>4, <1>5 DEF AloneInv, FamiliesKept, HeldFamily, Sweeps
<1>8. LastOfFamily'
  BY <1>1, <1>2, <1>3, <1>4, <1>5, <1>6 DEF AloneInv, LastOfFamily, HeldFamily
<1>9. OneLivePerFamily'
  <2> SUFFICES ASSUME NEW t \in 1 .. n, NEW u \in 1 .. n, ~Dead(t)', ~Dead(u)', familyOf'[t] = familyOf'[u]
               PROVE  t = u
    BY <1>2 DEF OneLivePerFamily, Live
  <2>1. CASE t = n \/ u = n
    BY <1>1, <1>3, <1>4, <2>1
  <2>2. CASE t # n /\ u # n
    <3>1. t \in 1 .. issued /\ u \in 1 .. issued
      BY <1>1, <2>2
    <3>2. ~Dead(t) /\ ~Dead(u) /\ familyOf[t] = familyOf[u] /\ t <= issued /\ u <= issued
      BY <1>4, <3>1
    <3> QED BY <3>1, <3>2 DEF AloneInv, OneLivePerFamily, Live
  <2> QED BY <2>1, <2>2
<1>10. Exchanged' /\ Swept' /\ ReusedFamilyIsDead'
  <2>1. Exchanged'
    BY <1>5 DEF AloneInv, Exchanged, HeldFamily
  <2>2. Swept'
    BY <1>1, <1>2, <1>3, <1>4, <1>5, <1>6 DEF AloneInv, Swept, HeldFamily, Sweeps
  <2>3. reused \subseteq 1 .. issued
    BY DEF AloneInv, FamiliesKept
  <2>4. ReusedFamilyIsDead'
    <3> SUFFICES ASSUME crashes = 0, NEW f \in reused, ~Revoking(f), NEW t \in 1 .. n, familyOf'[t] = f
                 PROVE  Dead(t)'
      BY <1>2, <1>5 DEF ReusedFamilyIsDead, Revoking
    <3>1. t # n
      BY <1>1, <1>3, <2>3
    <3>2. t \in 1 .. issued /\ familyOf[t] = f
      BY <1>1, <1>4, <3>1
    <3> QED BY <3>2 DEF AloneInv, ReusedFamilyIsDead
  <2> QED BY <2>1, <2>2, <2>4
<1>11. Reachable'
  <2> SUFFICES ASSUME crashes = 0, NEW t \in 1 .. n, ~Dead(t)'
               PROVE  \/ t \in index'[familyOf'[t]] /\ t <= indexTtl'[familyOf'[t]]
                      \/ \E h \in Handler : Sweeps(h) /\ HeldFamily(h) = familyOf'[t]
    BY <1>2, <1>5 DEF Reachable, HeldFamily, Sweeps
  <2>1. CASE t = n
    BY <1>1, <1>3, <2>1
  <2>2. CASE t # n
    <3>1. t \in 1 .. issued /\ ~Dead(t)
      BY <1>1, <2>2
    <3>2. familyOf[t] \in Token /\ familyOf[t] # n /\ familyOf'[t] = familyOf[t]
      BY <1>1, <1>4, <3>1
    <3>3. \/ t \in index[familyOf[t]] /\ t <= indexTtl[familyOf[t]]
          \/ \E h \in Handler : Sweeps(h) /\ HeldFamily(h) = familyOf[t]
      BY <3>1 DEF AloneInv, Reachable
    <3> QED BY <1>3, <3>2, <3>3
  <2> QED BY <2>1, <2>2
<1> QED BY <1>7, <1>8, <1>9, <1>10, <1>11 DEF AloneInv

(***************************************************************************)
(* rotate reads the presented token.                                       *)
(***************************************************************************)
LEMMA PresentAlone ==
    ASSUME IInv, AloneInv, Alone, NEW h \in Handler, NEW t \in Token, Present(h, t)
    PROVE  AloneInv'
<1>1. /\ \A g \in Handler : g = h
      /\ issued \in Nat /\ expired \in Nat /\ TypeOK
  BY HandlerFacts DEF IInv
<1>2. /\ pc[h] = "idle" /\ t \in 1 .. issued /\ t > expired
      /\ session[t] # NoSession /\ ~session[t].revoked
      /\ UNCHANGED <<issued, expired, session, index, indexTtl, todo, familyOf, crashes>>
  BY DEF Present, storeVars
<1>3. session[t].family = familyOf[t] /\ familyOf[t] \in 1 .. issued
  BY <1>2 DEF AloneInv, FamiliesKept
<1>4. /\ held'[h].token = t /\ held'[h].copy = session[t] /\ HeldFamily(h)' = familyOf[t]
      /\ pc'[h] = IF session[t].used THEN "scan" ELSE "consume"
      /\ session[t].used => reused' = reused \cup {familyOf[t]}
      /\ ~session[t].used => reused' = reused
  BY <1>1, <1>3 DEF Present, Goto, TypeOK, HeldFamily
<1>5. \A u : Dead(u)' <=> Dead(u)
  BY <1>2 DEF Dead
<1>6. ~session[t].used => ~Dead(t)
  BY <1>1, <1>2 DEF Dead
<1>7. FamiliesKept'
  BY <1>1, <1>2, <1>3, <1>4 DEF AloneInv, FamiliesKept, Sweeps
<1>8. OneLivePerFamily'
  BY <1>2, <1>5 DEF AloneInv, OneLivePerFamily, Live
<1>9. LastOfFamily'
  <2> SUFFICES ASSUME pc'[h] \in {"consume", "issue"}, NEW u \in 1 .. issued, familyOf[u] = familyOf[t]
               PROVE  Dead(u) \/ (u = held'[h].token /\ pc'[h] = "consume")
    BY <1>1, <1>2, <1>4, <1>5 DEF LastOfFamily
  <2>1. ~session[t].used /\ pc'[h] = "consume" /\ held'[h].token = t
    BY <1>4
  <2>2. Live(t) /\ (Dead(u) \/ Live(u))
    BY <1>1, <1>2, <1>6, <2>1 DEF Live
  <2> QED BY <1>2, <2>1, <2>2 DEF AloneInv, OneLivePerFamily
<1>10. Exchanged'
  <2> SUFFICES ASSUME crashes = 0, pc'[h] \in {"consume", "issue"} PROVE familyOf[t] \notin reused'
    BY <1>1, <1>2, <1>4 DEF Exchanged
  <2>1. ~session[t].used /\ reused' = reused
    BY <1>4
  <2>2. ~Revoking(familyOf[t])
    BY <1>1, <1>2 DEF Revoking
  <2> QED BY <1>2, <1>6, <2>1, <2>2 DEF AloneInv, ReusedFamilyIsDead
<1>11. Reachable'
  BY <1>1, <1>2, <1>4, <1>5 DEF AloneInv, Reachable, Sweeps
<1>12. Swept'
  BY <1>1, <1>4 DEF Swept, Sweeps
<1>13. ReusedFamilyIsDead'
  <2> SUFFICES ASSUME crashes = 0, NEW f \in reused', ~Revoking(f)', NEW u \in 1 .. issued, familyOf[u] = f
               PROVE  Dead(u)
    BY <1>2, <1>5 DEF ReusedFamilyIsDead
  <2>1. f \in reused
    BY <1>4 DEF Revoking, HeldFamily
  <2>2. ~Revoking(f)
    BY <1>1, <1>2 DEF Revoking
  <2> QED BY <2>1, <2>2 DEF AloneInv, ReusedFamilyIsDead
<1> QED BY <1>7, <1>8, <1>9, <1>10, <1>11, <1>12, <1>13 DEF AloneInv

(***************************************************************************)
(* Steps of the handler that write one session of the family it works on.  *)
(***************************************************************************)

\* Putting back the copy of the held token, spent, touches its family alone.
LEMMA HeldPut ==
    ASSUME IInv, AloneInv, Alone, NEW h \in Handler, pc[h] # "idle",
           NEW s \in Session, s.family = HeldFamily(h), s.used \/ s.revoked,
           Put(held[h].token, s), UNCHANGED <<issued, expired, familyOf, reused, held>>
    PROVE  /\ session'[held[h].token].family = HeldFamily(h) /\ Dead(held[h].token)'
           /\ \A t \in Token : t # held[h].token =>
                  session'[t] = session[t] /\ (Dead(t)' <=> Dead(t))
           /\ index'[HeldFamily(h)] = index[HeldFamily(h)] \cup {held[h].token}
           /\ \A f \in Token : f # HeldFamily(h) =>
                  index'[f] = index[f] /\ indexTtl'[f] = indexTtl[f]
<1> DEFINE u == held[h].token
           f == HeldFamily(h)
<1>1. u \in Token /\ f \in Token
  BY HandlerFacts
<1>2. /\ session' = [session EXCEPT ![u] = s]
      /\ index' = [index EXCEPT ![f] = index[f] \cup {u}]
      /\ indexTtl' = [indexTtl EXCEPT ![f] = u]
  BY DEF Put
<1>3. /\ session'[u] = s /\ index'[f] = index[f] \cup {u}
      /\ \A t \in Token : t # u => session'[t] = session[t]
      /\ \A g \in Token : g # f => index'[g] = index[g] /\ indexTtl'[g] = indexTtl[g]
  BY <1>1, <1>2 DEF IInv, TypeOK
<1> QED BY <1>3 DEF Dead

\* So it keeps what is said of families, if the stage reached says no more of the pass.
LEMMA HeldPutKept ==
    ASSUME IInv, AloneInv, Alone, NEW h \in Handler, pc[h] # "idle",
           NEW s \in Session, s.family = HeldFamily(h), s.used \/ s.revoked,
           Put(held[h].token, s), UNCHANGED <<issued, expired, familyOf, reused, held>>,
           \A u \in 1 .. issued : Dead(u) => Dead(u)',
           Sweeps(h)' => Sweeps(h), todo'[h] \subseteq todo[h]
    PROVE  FamiliesKept' /\ OneLivePerFamily'
<1>1. /\ \A g \in Handler : g = h
      /\ held[h].token \in 1 .. issued /\ held[h].token \in Token
      /\ HeldFamily(h) \in Token /\ HeldFamily(h) = familyOf[held[h].token]
      /\ 1 .. issued \subseteq Token
  BY HandlerFacts
<1>2. /\ session'[held[h].token].family = HeldFamily(h)
      /\ \A t \in Token : t # held[h].token => session'[t] = session[t]
      /\ index'[HeldFamily(h)] = index[HeldFamily(h)] \cup {held[h].token}
      /\ \A f \in Token : f # HeldFamily(h) => index'[f] = index[f]
  BY HeldPut
<1>3. FamiliesKept'
  <2>1. \A t \in 1 .. issued : session'[t] # NoSession => session'[t].family = familyOf[t]
    BY <1>1, <1>2 DEF AloneInv, FamiliesKept
  <2>2. \A f \in Token : \A t \in index'[f] : familyOf[t] = f
    BY <1>1, <1>2 DEF AloneInv, FamiliesKept
  <2>3. \A g \in Handler : pc'[g] # "idle" => HeldFamily(g)' = familyOf[held'[g].token]
    BY <1>1 DEF HeldFamily
  <2>4. Sweeps(h)' => \A t \in todo'[h] : familyOf[t] = HeldFamily(h)'
    BY <1>1 DEF AloneInv, FamiliesKept, HeldFamily
  <2> QED BY <1>1, <2>1, <2>2, <2>3, <2>4 DEF AloneInv, FamiliesKept
<1>4. OneLivePerFamily'
  BY DEF AloneInv, OneLivePerFamily, Live
<1> QED BY <1>3, <1>4

\* put(used) kills the last live token of its family.
LEMMA ConsumeAlone ==
    ASSUME IInv, AloneInv, Alone, NEW h \in Handler, Consume(h),
           \A u \in 1 .. issued : Dead(u) => Dead(u)'
    PROVE  AloneInv'
<1>1. /\ \A g \in Handler : g = h
      /\ pc[h] = "consume" /\ pc'[h] = "issue"
      /\ UNCHANGED <<issued, expired, held, todo, familyOf, reused, crashes>>
      /\ Put(held[h].token, MarkUsed(held[h].copy))
      /\ held[h].token \in 1 .. issued /\ HeldFamily(h) \in Token
      /\ HeldFamily(h) = familyOf[held[h].token] /\ 1 .. issued \subseteq Token
  BY HandlerFacts DEF Consume, Goto, IInv, TypeOK, historyVars
<1>2. /\ MarkUsed(held[h].copy) \in Session /\ MarkUsed(held[h].copy).used
      /\ MarkUsed(held[h].copy).family = HeldFamily(h)
  BY <1>1, HandlerFacts, SessionFacts DEF HeldFamily
<1>3. /\ Dead(held[h].token)'
      /\ \A f \in Token : f # HeldFamily(h) =>
             index'[f] = index[f] /\ indexTtl'[f] = indexTtl[f]
  BY <1>1, <1>2, HeldPut
<1>4. FamiliesKept' /\ OneLivePerFamily'
  BY <1>1, <1>2, HeldPutKept DEF Sweeps
<1>5. \A t \in 1 .. issued : familyOf[t] = HeldFamily(h) => Dead(t)'
  BY <1>1, <1>3 DEF AloneInv, LastOfFamily
<1>6. HeldFamily(h)' = HeldFamily(h)
  BY <1>1 DEF HeldFamily
<1>7. LastOfFamily' /\ Exchanged' /\ Swept'
  BY <1>1, <1>5, <1>6 DEF AloneInv, LastOfFamily, Exchanged, Swept, Sweeps
<1>8. Reachable'
  <2> SUFFICES ASSUME crashes = 0, NEW t \in 1 .. issued, ~Dead(t)'
               PROVE  t \in index'[familyOf[t]] /\ t <= indexTtl'[familyOf[t]]
    BY <1>1 DEF Reachable
  <2>1. familyOf[t] # HeldFamily(h) /\ ~Dead(t)
    BY <1>5
  <2>2. familyOf[t] \in Token
    BY <1>1 DEF AloneInv, FamiliesKept
  <2>3. t \in index[familyOf[t]] /\ t <= indexTtl[familyOf[t]]
    BY <1>1, <2>1 DEF AloneInv, Reachable, Sweeps
  <2> QED BY <1>3, <2>1, <2>2, <2>3
<1>9. ReusedFamilyIsDead'
  BY <1>1 DEF AloneInv, ReusedFamilyIsDead, Revoking
<1> QED BY <1>4, <1>7, <1>8, <1>9 DEF AloneInv

\* put(revoked) takes a member off the list of the pass, dead.
LEMMA SweepPutAlone ==
    ASSUME IInv, AloneInv, Alone, NEW h \in Handler, SweepPut(h),
           \A u \in 1 .. issued : Dead(u) => Dead(u)'
    PROVE  AloneInv'
<1>1. /\ \A g \in Handler : g = h
      /\ pc[h] = "sweepPut" /\ pc'[h] = "sweep"
      /\ UNCHANGED <<issued, expired, held, familyOf, reused, crashes>>
      /\ todo'[h] = todo[h] \ {held[h].token}
      /\ Put(held[h].token, MarkRevoked(held[h].copy))
      /\ held[h].token \in 1 .. issued /\ HeldFamily(h) \in Token
      /\ HeldFamily(h) = familyOf[held[h].token] /\ 1 .. issued \subseteq Token
  BY HandlerFacts DEF SweepPut, Goto, IInv, TypeOK, historyVars
<1>2. /\ MarkRevoked(held[h].copy) \in Session /\ MarkRevoked(held[h].copy).revoked
      /\ MarkRevoked(held[h].copy).family = HeldFamily(h)
  BY <1>1, HandlerFacts, SessionFacts DEF HeldFamily
<1>3. /\ Dead(held[h].token)'
      /\ \A f \in Token : f # HeldFamily(h) =>
             index'[f] = index[f] /\ indexTtl'[f] = indexTtl[f]
  BY <1>1, <1>2, HeldPut
<1>4. FamiliesKept' /\ OneLivePerFamily'
  BY <1>1, <1>2, HeldPutKept DEF Sweeps
<1>5. HeldFamily(h)' = HeldFamily(h) /\ Sweeps(h) /\ Sweeps(h)'
  BY <1>1 DEF HeldFamily, Sweeps
<1>6. LastOfFamily' /\ Exchanged'
  BY <1>1 DEF LastOfFamily, Exchanged
<1>7. Swept'
  <2> SUFFICES ASSUME crashes = 0, NEW t \in 1 .. issued, familyOf[t] = HeldFamily(h)
               PROVE  Dead(t)' \/ t \in todo'[h]
    BY <1>1, <1>5 DEF Swept
  <2>1. Dead(t) \/ t \in todo[h]
    BY <1>5 DEF AloneInv, Swept
  <2> QED BY <1>1, <1>3, <2>1
<1>8. Reachable'
  <2> SUFFICES ASSUME crashes = 0, NEW t \in 1 .. issued, ~Dead(t)', familyOf[t] # HeldFamily(h)
               PROVE  t \in index'[familyOf[t]] /\ t <= indexTtl'[familyOf[t]]
    BY <1>1, <1>5 DEF Reachable
  <2>1. ~Dead(t) /\ familyOf[t] \in Token
    BY <1>1 DEF AloneInv, FamiliesKept
  <2>2. t \in index[familyOf[t]] /\ t <= indexTtl[familyOf[t]]
    BY <1>1, <2>1 DEF AloneInv, Reachable
  <2> QED BY <1>3, <2>1, <2>2
<1>9. ReusedFamilyIsDead'
  BY <1>1 DEF AloneInv, ReusedFamilyIsDead, Revoking
<1> QED BY <1>4, <1>6, <1>7, <1>8, <1>9 DEF AloneInv

(***************************************************************************)
(* The successor is all of its family that is live.                        *)
(***************************************************************************)
LEMMA IssueAlone ==
    ASSUME IInv, AloneInv, Alone, NEW h \in Handler, IssueSuccessor(h),
           \A u \in 1 .. issued : Dead(u) => Dead(u)'
    PROVE  AloneInv'
<1> PICK n : n = issued + 1
  OBVIOUS
<1> PICK f : f = HeldFamily(h)
  OBVIOUS
<1>1. /\ TypeOK /\ issued \in Nat /\ expired \in Nat /\ 1 .. issued \subseteq Token
      /\ f \in Token /\ f \in 1 .. issued
      /\ \A g \in Handler : g = h
      /\ \A g \in Token : index[g] \subseteq 1 .. issued
  BY HandlerFacts DEF IssueSuccessor, IInv, OnlyIssued
<1>2. n \in Token /\ n \in Nat /\ n \notin 1 .. issued /\ 1 .. n = (1 .. issued) \cup {n}
  BY <1>1, BoundsAssumption DEF IssueSuccessor, Token
<1>3. /\ issued' = n /\ UNCHANGED <<expired, reused, crashes>>
      /\ session' = [session EXCEPT ![n] = Fresh(f)]
      /\ index' = [index EXCEPT ![f] = index[f] \cup {n}]
      /\ indexTtl' = [indexTtl EXCEPT ![f] = n]
      /\ familyOf' = [familyOf EXCEPT ![n] = f]
      /\ pc[h] = "issue" /\ pc'[h] = "idle"
  BY <1>1 DEF IssueSuccessor, Put, Fresh, HeldFamily, Leave, Goto, TypeOK
<1>4. /\ session'[n].family = f /\ familyOf'[n] = f
      /\ index'[f] = index[f] \cup {n} /\ indexTtl'[f] = n
      /\ \A t \in Token : t # n => session'[t] = session[t] /\ familyOf'[t] = familyOf[t]
      /\ \A g \in Token : g # f => index'[g] = index[g] /\ indexTtl'[g] = indexTtl[g]
  BY <1>1, <1>2, <1>3 DEF TypeOK, Fresh
<1>5. \A t \in 1 .. issued : /\ familyOf[t] \in 1 .. issued /\ familyOf'[t] = familyOf[t]
                             /\ t \in Token /\ t # n
  BY <1>1, <1>2, <1>4 DEF AloneInv, FamiliesKept
<1>6. \A t \in 1 .. issued : familyOf[t] = f => Dead(t)
  BY <1>3 DEF AloneInv, LastOfFamily
<1>7. FamiliesKept'
  <2>1. \A t \in 1 .. n : familyOf'[t] \in 1 .. n
    BY <1>1, <1>2, <1>4, <1>5
  <2>2. \A t \in 1 .. n : session'[t] # NoSession => session'[t].family = familyOf'[t]
    BY <1>2, <1>4, <1>5 DEF AloneInv, FamiliesKept
  <2>3. \A g \in Token : \A t \in index'[g] : familyOf'[t] = g
    BY <1>1, <1>2, <1>4, <1>5 DEF AloneInv, FamiliesKept
  <2>4. reused' \subseteq 1 .. n
    BY <1>2, <1>3 DEF AloneInv, FamiliesKept
  <2> QED BY <1>1, <1>3, <2>1, <2>2, <2>3, <2>4 DEF FamiliesKept, Sweeps
<1>8. LastOfFamily' /\ Exchanged' /\ Swept'
  BY <1>1, <1>3 DEF LastOfFamily, Exchanged, Swept, Sweeps
<1>9. \A t \in 1 .. n : ~Dead(t)' => \/ t = n
                                     \/ t \in 1 .. issued /\ ~Dead(t) /\ familyOf[t] # f
  BY <1>2, <1>6
<1>10. OneLivePerFamily'
  <2> SUFFICES ASSUME NEW t \in 1 .. n, NEW u \in 1 .. n, ~Dead(t)', ~Dead(u)', familyOf'[t] = familyOf'[u]
               PROVE  t = u
    BY <1>3 DEF OneLivePerFamily, Live
  <2>1. CASE t = n \/ u = n
    BY <1>4, <1>5, <1>9, <2>1
  <2>2. CASE t # n /\ u # n
    <3>1. t \in 1 .. issued /\ u \in 1 .. issued /\ ~Dead(t) /\ ~Dead(u) /\ familyOf[t] = familyOf[u]
      BY <1>5, <1>9, <2>2
    <3>2. t <= issued /\ u <= issued
      BY <3>1
    <3> QED BY <3>1, <3>2 DEF AloneInv, OneLivePerFamily, Live
  <2> QED BY <2>1, <2>2
<1>11. Reachable'
  <2> SUFFICES ASSUME crashes = 0, NEW t \in 1 .. n, ~Dead(t)'
               PROVE  t \in index'[familyOf'[t]] /\ t <= indexTtl'[familyOf'[t]]
    BY <1>3 DEF Reachable
  <2>1. CASE t = n
    BY <1>2, <1>4, <2>1
  <2>2. CASE t # n
    <3>1. t \in 1 .. issued /\ ~Dead(t) /\ familyOf[t] # f
      BY <1>9, <2>2
    <3>2. t \in index[familyOf[t]] /\ t <= indexTtl[familyOf[t]]
      BY <1>1, <1>3, <3>1 DEF AloneInv, Reachable, Sweeps
    <3> QED BY <1>1, <1>4, <1>5, <3>1, <3>2
  <2> QED BY <2>1, <2>2
<1>12. ReusedFamilyIsDead'
  <2> SUFFICES ASSUME crashes = 0, NEW g \in reused, NEW t \in 1 .. n, familyOf'[t] = g
               PROVE  Dead(t)'
    BY <1>3 DEF ReusedFamilyIsDead
  <2>1. f \notin reused
    BY <1>3 DEF AloneInv, Exchanged
  <2>2. t # n /\ t \in 1 .. issued /\ familyOf[t] = g
    BY <1>2, <1>4, <1>5, <2>1
  <2>3. ~Revoking(g)
    BY <1>1, <1>3 DEF Revoking
  <2> QED BY <2>2, <2>3 DEF AloneInv, ReusedFamilyIsDead
<1> QED BY <1>7, <1>8, <1>10, <1>11, <1>12 DEF AloneInv

(***************************************************************************)
(* A revocation pass reads, visits and ends; a handler dies.               *)
(***************************************************************************)
\* A pass lists its family: every live member is in the family key.
LEMMA ScanAlone ==
    ASSUME IInv, AloneInv, Alone, NEW h \in Handler, ScanFamily(h)
    PROVE  AloneInv'
<1>1. /\ \A g \in Handler : g = h
      /\ pc[h] = "scan" /\ pc'[h] = "sweep" /\ todo'[h] = index[HeldFamily(h)]
      /\ UNCHANGED <<issued, expired, session, index, indexTtl, held, familyOf, reused, crashes>>
      /\ HeldFamily(h) \in Token
  BY HandlerFacts DEF ScanFamily, Goto, IInv, TypeOK, storeVars, historyVars, HeldFamily
<1>2. HeldFamily(h)' = HeldFamily(h) /\ \A t : Dead(t)' <=> Dead(t)
  BY <1>1 DEF HeldFamily, Dead
<1>3. FamiliesKept'
  BY <1>1, <1>2 DEF AloneInv, FamiliesKept, Sweeps
<1>4. LastOfFamily' /\ Exchanged'
  BY <1>1 DEF LastOfFamily, Exchanged
<1>5. OneLivePerFamily'
  BY <1>1, <1>2 DEF AloneInv, OneLivePerFamily, Live
<1>6. crashes = 0 => \A t \in 1 .. issued : ~Dead(t) =>
          t \in index[familyOf[t]] /\ t <= indexTtl[familyOf[t]]
  BY <1>1 DEF AloneInv, Reachable, Sweeps
<1>7. Reachable' /\ Swept'
  BY <1>1, <1>2, <1>6 DEF Reachable, Swept
<1>8. ReusedFamilyIsDead'
  BY <1>1, <1>2 DEF AloneInv, ReusedFamilyIsDead, Revoking
<1> QED BY <1>3, <1>4, <1>5, <1>7, <1>8 DEF AloneInv

\* The pass reads the next member it visits.
LEMMA SweepGetAlone ==
    ASSUME IInv, AloneInv, Alone, NEW h \in Handler, NEW t \in Token, SweepGet(h, t)
    PROVE  AloneInv'
<1>1. /\ \A g \in Handler : g = h
      /\ pc[h] = "sweep" /\ pc'[h] = "sweepPut" /\ t \in todo[h] /\ session[t] # NoSession
      /\ held'[h].token = t /\ held'[h].copy = session[t]
      /\ UNCHANGED <<issued, expired, session, index, indexTtl, todo, familyOf, reused, crashes>>
      /\ t \in 1 .. issued
  BY HandlerFacts DEF SweepGet, Goto, IInv, TypeOK, OnlyIssued, storeVars, historyVars
<1>2. /\ familyOf[t] = HeldFamily(h) /\ HeldFamily(h)' = HeldFamily(h)
      /\ Sweeps(h) /\ Sweeps(h)' /\ \A u : Dead(u)' <=> Dead(u)
  BY <1>1 DEF AloneInv, FamiliesKept, HeldFamily, Sweeps, Dead
<1>3. FamiliesKept'
  BY <1>1, <1>2 DEF AloneInv, FamiliesKept
<1>4. LastOfFamily' /\ Exchanged'
  BY <1>1 DEF LastOfFamily, Exchanged
<1>5. OneLivePerFamily'
  BY <1>1, <1>2 DEF AloneInv, OneLivePerFamily, Live
<1>6. Reachable' /\ Swept'
  BY <1>1, <1>2 DEF AloneInv, Reachable, Swept
<1>7. \A f : Revoking(f)' <=> Revoking(f)
  BY <1>1, <1>2 DEF Revoking, HeldFamily
<1>8. ReusedFamilyIsDead'
  BY <1>1, <1>2, <1>7 DEF AloneInv, ReusedFamilyIsDead
<1> QED BY <1>3, <1>4, <1>5, <1>6, <1>8 DEF AloneInv

\* A member Redis no longer has has expired.
LEMMA SweepMissingAlone ==
    ASSUME IInv, AloneInv, Alone, NEW h \in Handler, NEW t \in Token, SweepMissing(h, t)
    PROVE  AloneInv'
<1>1. /\ \A g \in Handler : g = h
      /\ pc[h] = "sweep" /\ t \in todo[h] /\ session[t] = NoSession
      /\ todo'[h] = todo[h] \ {t}
      /\ UNCHANGED <<issued, expired, session, index, indexTtl, pc, held, familyOf, reused, crashes>>
      /\ t \in 1 .. issued
  BY HandlerFacts DEF SweepMissing, IInv, TypeOK, OnlyIssued, storeVars, historyVars
<1>2. Dead(t)
  BY <1>1 DEF IInv, Stored, Dead
<1>3. /\ \A g \in Handler : HeldFamily(g)' = HeldFamily(g) /\ (Sweeps(g)' <=> Sweeps(g))
      /\ \A u : Dead(u)' <=> Dead(u)
  BY <1>1 DEF HeldFamily, Sweeps, Dead
<1>4. FamiliesKept'
  BY <1>1, <1>3 DEF AloneInv, FamiliesKept
<1>5. LastOfFamily' /\ Exchanged'
  BY <1>1 DEF LastOfFamily, Exchanged
<1>6. OneLivePerFamily'
  BY <1>1, <1>3 DEF AloneInv, OneLivePerFamily, Live
<1>7. Reachable' /\ Swept'
  BY <1>1, <1>2, <1>3 DEF AloneInv, Reachable, Swept
<1>8. ReusedFamilyIsDead'
  BY <1>1, <1>3 DEF AloneInv, ReusedFamilyIsDead, Revoking
<1> QED BY <1>4, <1>5, <1>6, <1>7, <1>8 DEF AloneInv

\* A pass that ends has nothing left to visit, so its family is dead.
LEMMA SweepEndAlone ==
    ASSUME IInv, AloneInv, Alone, NEW h \in Handler, SweepEnd(h)
    PROVE  AloneInv'
<1>1. /\ \A g \in Handler : g = h
      /\ pc[h] = "sweep" /\ pc'[h] = "idle" /\ todo[h] = {}
      /\ UNCHANGED <<issued, expired, session, index, indexTtl, familyOf, reused, crashes>>
  BY HandlerFacts DEF SweepEnd, Leave, Goto, IInv, TypeOK, storeVars, historyVars
<1>2. \A t : Dead(t)' <=> Dead(t)
  BY <1>1 DEF Dead
<1>3. crashes = 0 => \A t \in 1 .. issued : familyOf[t] = HeldFamily(h) => Dead(t)
  BY <1>1 DEF AloneInv, Swept, Sweeps
<1>4. FamiliesKept'
  BY <1>1 DEF AloneInv, FamiliesKept, Sweeps
<1>5. LastOfFamily' /\ Exchanged' /\ Swept'
  BY <1>1 DEF LastOfFamily, Exchanged, Swept, Sweeps
<1>6. OneLivePerFamily'
  BY <1>1, <1>2 DEF AloneInv, OneLivePerFamily, Live
<1>7. Reachable'
  BY <1>1, <1>2, <1>3 DEF AloneInv, Reachable, Sweeps
<1>8. ReusedFamilyIsDead'
  <2> SUFFICES ASSUME crashes = 0, NEW f \in reused, NEW t \in 1 .. issued, familyOf[t] = f
               PROVE  Dead(t)
    BY <1>1, <1>2 DEF ReusedFamilyIsDead
  <2>1. CASE f = HeldFamily(h)
    BY <1>3, <2>1
  <2>2. CASE f # HeldFamily(h)
    <3>1. ~Revoking(f)
      BY <1>1, <2>2 DEF Revoking, HeldFamily
    <3> QED BY <3>1 DEF AloneInv, ReusedFamilyIsDead
  <2> QED BY <2>1, <2>2
<1> QED BY <1>4, <1>5, <1>6, <1>7, <1>8 DEF AloneInv

\* A handler that dies leaves a family that nothing is promised of.
LEMMA CrashAlone ==
    ASSUME IInv, AloneInv, Alone, NEW h \in Handler, Crash(h)
    PROVE  AloneInv'
<1>1. /\ \A g \in Handler : g = h
      /\ pc'[h] = "idle" /\ crashes' # 0
      /\ UNCHANGED <<issued, expired, session, index, familyOf, reused>>
  BY HandlerFacts, Counters DEF Crash, Leave, Goto, IInv, TypeOK, storeVars, historyVars
<1>2. \A t : Dead(t)' <=> Dead(t)
  BY <1>1 DEF Dead
<1>3. FamiliesKept'
  BY <1>1 DEF AloneInv, FamiliesKept, Sweeps
<1>4. LastOfFamily' /\ Exchanged' /\ Swept' /\ Reachable' /\ ReusedFamilyIsDead'
  BY <1>1 DEF LastOfFamily, Exchanged, Swept, Reachable, ReusedFamilyIsDead
<1>5. OneLivePerFamily'
  BY <1>1, <1>2 DEF AloneInv, OneLivePerFamily, Live
<1> QED BY <1>3, <1>4, <1>5 DEF AloneInv

\* Every step of the one handler, of a login or of time keeps the invariant.
LEMMA AloneStep == IInv /\ AloneInv /\ Alone /\ [Next]_vars => AloneInv'
<1> SUFFICES ASSUME IInv, AloneInv, Alone, [Next]_vars PROVE AloneInv'
  OBVIOUS
<1>d. \A u \in 1 .. issued : Dead(u) => Dead(u)'
  BY DeadPersists
<1>1. CASE Login
  BY <1>1, <1>d, LoginAlone
<1>2. ASSUME NEW h \in Handler, Rotate(h) PROVE AloneInv'
  BY <1>2, <1>d, PresentAlone, ConsumeAlone, IssueAlone DEF Rotate
<1>3. ASSUME NEW h \in Handler, RevokeFamily(h) PROVE AloneInv'
  BY <1>3, <1>d, ScanAlone, SweepGetAlone, SweepMissingAlone, SweepPutAlone, SweepEndAlone
  DEF RevokeFamily
<1>4. ASSUME NEW h \in Handler, Crash(h) PROVE AloneInv'
  BY <1>4, CrashAlone
<1>5. CASE Time
  BY <1>5, <1>d, TimeAlone
<1>6. CASE UNCHANGED vars
  BY <1>6 DEF vars, AloneInv, FamiliesKept, LastOfFamily, OneLivePerFamily, Exchanged, Reachable,
              Swept, ReusedFamilyIsDead, Sweeps, HeldFamily, Revoking, Live, Dead
<1> QED BY <1>1, <1>2, <1>3, <1>4, <1>5, <1>6 DEF Next

(***************************************************************************)
(* Served one request at a time, a family has one live token at most, and  *)
(* none once a reuse of it has been answered (unless a handler died).      *)
(***************************************************************************)
THEOREM FamiliesAreSound == Alone => (Spec => []FamilyIsSound)
<1>1. Alone /\ Init => IInv /\ AloneInv /\ Alone
  BY InitIInv, AloneStarts
<1>2. (IInv /\ AloneInv /\ Alone) /\ [Next]_vars => (IInv /\ AloneInv /\ Alone)'
  BY StepIInv, AloneStep DEF Alone
<1>3. IInv /\ AloneInv /\ Alone => FamilyIsSound
  BY DEF AloneInv, FamilyIsSound
<1> QED BY <1>1, <1>2, <1>3, PTL DEF Spec

-------------------------------------------------------------------------------
(***************************************************************************)
(* Served one request at a time the store implements RefreshFamilies.      *)
(***************************************************************************)
Exchangeable == {t \in 1 .. issued : ~Dead(t)} \ Owed
Compromised == IF crashes = 0 THEN reused ELSE {}

\* The one handler owes a successor to the token it exchanges, if it exchanges one.
LEMMA OwedByOne ==
    ASSUME Alone, NEW h \in Handler
    PROVE  /\ Owed = IF pc[h] \in {"consume", "issue"} THEN {held[h].token} ELSE {}
           /\ Owed' = IF pc'[h] \in {"consume", "issue"} THEN {held'[h].token} ELSE {}
<1>1. \A g \in Handler : g = h
  BY DEF Alone
<1>2. Consuming = IF pc[h] \in {"consume", "issue"} THEN {h} ELSE {}
  BY <1>1 DEF Consuming
<1>3. Consuming' = IF pc'[h] \in {"consume", "issue"} THEN {h} ELSE {}
  BY <1>1 DEF Consuming
<1> QED BY <1>2, <1>3 DEF Owed

\* A step that changes none of what the promise speaks of.
FamiliesStutter ==
    UNCHANGED <<issued, Exchangeable, Owed, familyOf, Compromised>>

\* Such a step is allowed between the steps of the promise.
LEMMA StutterIsAllowed == FamiliesStutter => [Families!Next]_(Families!vars)
BY DEF FamiliesStutter, Families!vars, Exchangeable, Compromised

\* Issuing token n adds it to those that can be exchanged.
LEMMA IssuedIsLive ==
    ASSUME TypeOK, NEW f \in Token, issued < MaxTokens, issued' = issued + 1,
           Put(issued + 1, Fresh(f)), UNCHANGED expired
    PROVE  {t \in 1 .. issued : ~Dead(t)}' = {t \in 1 .. issued : ~Dead(t)} \cup {issued + 1}
<1> PICK n : n = issued + 1
  OBVIOUS
<1>1. /\ n \in Token /\ n \in Nat /\ n \notin 1 .. issued /\ 1 .. n = (1 .. issued) \cup {n}
      /\ ~(n <= expired) /\ 1 .. issued \subseteq Token
  <2>1. issued \in Nat /\ expired \in Nat /\ expired <= issued /\ 1 .. issued \subseteq Token
    BY Counters DEF TypeOK
  <2>2. n \in Token /\ n \in Nat /\ n \notin 1 .. issued /\ 1 .. n = (1 .. issued) \cup {n}
    BY <2>1, BoundsAssumption DEF Token
  <2> QED BY <2>1, <2>2
<1>2. session' = [session EXCEPT ![n] = Fresh(f)]
  BY DEF Put
<1>3. ~session'[n].used /\ ~session'[n].revoked /\ \A t \in Token : t # n => session'[t] = session[t]
  BY <1>1, <1>2 DEF TypeOK, Fresh
<1>4. ~Dead(n)' /\ \A t \in 1 .. issued : Dead(t)' <=> Dead(t)
  BY <1>1, <1>3 DEF Dead
<1> QED BY <1>1, <1>4

\* A login starts a family.
LEMMA LoginStarts ==
    ASSUME IInv, AloneInv, Alone, Login
    PROVE  Families!StartFamily
<1>1. /\ TypeOK /\ issued < MaxTokens /\ issued' = issued + 1 /\ Put(issued + 1, Fresh(issued + 1))
      /\ familyOf' = [familyOf EXCEPT ![issued + 1] = issued + 1]
      /\ UNCHANGED <<expired, pc, held, reused, crashes>>
  BY DEF Login, handlerVars, IInv
<1>2. issued + 1 \in Token /\ issued + 1 \notin 1 .. issued
  BY <1>1, Counters, BoundsAssumption DEF Token
<1>3. Owed' = Owed /\ Owed \subseteq 1 .. issued
  BY <1>1 DEF Owed, Consuming, IInv, OnlyIssued
<1>4. {t \in 1 .. issued : ~Dead(t)}' = {t \in 1 .. issued : ~Dead(t)} \cup {issued + 1}
  BY <1>1, <1>2, IssuedIsLive
<1>5. Exchangeable' = Exchangeable \cup {issued + 1}
  BY <1>2, <1>3, <1>4 DEF Exchangeable
<1> QED BY <1>1, <1>3, <1>5 DEF Families!StartFamily, Families!Issue, Exchangeable

\* A token is given up, or found spent; after a crash nobody is told.
LEMMA PresentMaps ==
    ASSUME IInv, AloneInv, Alone, NEW h \in Handler, NEW t \in Token, Present(h, t)
    PROVE  Families!GiveUp(t) \/ Families!PresentSpent(t) \/ FamiliesStutter
<1>1. /\ pc[h] = "idle" /\ t \in 1 .. issued /\ t > expired /\ issued \in Nat /\ expired \in Nat
      /\ session[t] # NoSession /\ ~session[t].revoked /\ session[t].family = familyOf[t]
      /\ UNCHANGED <<issued, expired, session, familyOf, crashes>>
      /\ held'[h].token = t
      /\ pc'[h] = IF session[t].used THEN "scan" ELSE "consume"
      /\ reused' = reused \cup (IF session[t].used THEN {familyOf[t]} ELSE {})
      /\ \A g \in Handler : g = h
  BY HandlerFacts DEF Present, Goto, IInv, TypeOK, storeVars, AloneInv, FamiliesKept
<1>2. /\ {u \in 1 .. issued : ~Dead(u)}' = {u \in 1 .. issued : ~Dead(u)}
      /\ Dead(t) <=> session[t].used
  BY <1>1 DEF Dead
<1>3. Owed = {} /\ Owed' = IF session[t].used THEN {} ELSE {t}
  BY <1>1, OwedByOne
<1>4. CASE session[t].used /\ crashes = 0
  <2>1. Exchangeable' = Exchangeable /\ Owed' = Owed /\ t \notin Exchangeable \cup Owed
    BY <1>2, <1>3, <1>4 DEF Exchangeable
  <2>2. Compromised' = Compromised \cup {familyOf[t]}
    BY <1>1, <1>4 DEF Compromised
  <2> QED BY <1>1, <2>1, <2>2 DEF Families!PresentSpent, Exchangeable, Compromised
<1>5. CASE session[t].used /\ crashes # 0
  <2>1. Exchangeable' = Exchangeable /\ Owed' = Owed /\ Compromised' = Compromised
    BY <1>1, <1>2, <1>3, <1>5 DEF Exchangeable, Compromised
  <2> QED BY <1>1, <2>1 DEF FamiliesStutter
<1>6. CASE ~session[t].used
  <2>1. t \in Exchangeable /\ Exchangeable' = Exchangeable \ {t} /\ Owed' = Owed \cup {t}
    BY <1>1, <1>2, <1>3, <1>6 DEF Exchangeable
  <2>2. familyOf[t] \notin Compromised
    <3>1. ~Revoking(familyOf[t])
      BY <1>1 DEF Revoking
    <3> QED BY <1>1, <1>2, <1>6, <3>1 DEF Compromised, AloneInv, ReusedFamilyIsDead
  <2>3. Compromised' = Compromised
    BY <1>1, <1>6 DEF Compromised
  <2> QED BY <1>1, <2>1, <2>2, <2>3 DEF Families!GiveUp, Exchangeable, Compromised
<1> QED BY <1>4, <1>5, <1>6

\* A put of the held token, spent, takes it alone from those that can be exchanged.
LEMMA HeldPutSpends ==
    ASSUME IInv, AloneInv, Alone, NEW h \in Handler, pc[h] # "idle",
           NEW s \in Session, s.family = HeldFamily(h), s.used \/ s.revoked,
           Put(held[h].token, s), UNCHANGED <<issued, expired, familyOf, reused, held>>
    PROVE  {t \in 1 .. issued : ~Dead(t)}' = {t \in 1 .. issued : ~Dead(t)} \ {held[h].token}
<1>1. Dead(held[h].token)' /\ \A t \in Token : t # held[h].token => (Dead(t)' <=> Dead(t))
  BY HeldPut
<1>2. 1 .. issued \subseteq Token
  BY HandlerFacts
<1> QED BY <1>1, <1>2

\* The token was given up when rotate read it.
LEMMA ConsumeStutters ==
    ASSUME IInv, AloneInv, Alone, NEW h \in Handler, Consume(h)
    PROVE  FamiliesStutter
<1>1. /\ pc[h] = "consume" /\ pc'[h] = "issue"
      /\ UNCHANGED <<issued, expired, held, familyOf, reused, crashes>>
      /\ Put(held[h].token, MarkUsed(held[h].copy))
  BY DEF Consume, Goto, IInv, TypeOK, historyVars
<1>2. /\ MarkUsed(held[h].copy) \in Session /\ MarkUsed(held[h].copy).used
      /\ MarkUsed(held[h].copy).family = HeldFamily(h)
  BY <1>1, HandlerFacts, SessionFacts DEF HeldFamily
<1>3. {t \in 1 .. issued : ~Dead(t)}' = {t \in 1 .. issued : ~Dead(t)} \ {held[h].token}
  BY <1>1, <1>2, HeldPutSpends
<1>4. Owed = {held[h].token} /\ Owed' = Owed
  BY <1>1, OwedByOne
<1>5. Exchangeable' = Exchangeable /\ Compromised' = Compromised
  BY <1>1, <1>3, <1>4 DEF Exchangeable, Compromised
<1> QED BY <1>1, <1>4, <1>5 DEF FamiliesStutter

\* The owed successor is issued, in the family of the token.
LEMMA IssueSucceeds ==
    ASSUME IInv, AloneInv, Alone, NEW h \in Handler, IssueSuccessor(h)
    PROVE  Families!Succeed(held[h].token)
<1>1. /\ TypeOK /\ issued < MaxTokens /\ issued' = issued + 1
      /\ Put(issued + 1, Fresh(HeldFamily(h)))
      /\ familyOf' = [familyOf EXCEPT ![issued + 1] = HeldFamily(h)]
      /\ UNCHANGED <<expired, reused, crashes>>
      /\ pc[h] = "issue" /\ pc'[h] = "idle"
      /\ HeldFamily(h) = familyOf[held[h].token] /\ HeldFamily(h) \in Token
  BY HandlerFacts DEF IssueSuccessor, Leave, Goto, HeldFamily, IInv, TypeOK
<1>2. issued + 1 \notin 1 .. issued
  BY <1>1, Counters
<1>3. Owed = {held[h].token} /\ Owed' = {}
  BY <1>1, OwedByOne
<1>4. {t \in 1 .. issued : ~Dead(t)}' = {t \in 1 .. issued : ~Dead(t)} \cup {issued + 1}
  BY <1>1, IssuedIsLive
<1>5. Dead(held[h].token)
  BY <1>1 DEF IInv, SpentIsDead
<1>6. Exchangeable' = Exchangeable \cup {issued + 1}
  BY <1>3, <1>4, <1>5 DEF Exchangeable
<1>7. Compromised' = Compromised /\ HeldFamily(h) \notin Compromised
  BY <1>1 DEF Compromised, AloneInv, Exchanged
<1> QED BY <1>1, <1>3, <1>6, <1>7 DEF Families!Succeed, Families!Issue, Exchangeable, Compromised

\* A revocation takes a live token of the compromised family.
LEMMA SweepPutMaps ==
    ASSUME IInv, AloneInv, Alone, NEW h \in Handler, SweepPut(h)
    PROVE  Families!Lose(held[h].token) \/ FamiliesStutter
<1>1. /\ pc[h] = "sweepPut" /\ pc'[h] = "sweep"
      /\ UNCHANGED <<issued, expired, held, familyOf, reused, crashes>>
      /\ Put(held[h].token, MarkRevoked(held[h].copy))
  BY DEF SweepPut, Goto, IInv, TypeOK, historyVars
<1>2. /\ MarkRevoked(held[h].copy) \in Session /\ MarkRevoked(held[h].copy).revoked
      /\ MarkRevoked(held[h].copy).family = HeldFamily(h)
  BY <1>1, HandlerFacts, SessionFacts DEF HeldFamily
<1>3. {t \in 1 .. issued : ~Dead(t)}' = {t \in 1 .. issued : ~Dead(t)} \ {held[h].token}
  BY <1>1, <1>2, HeldPutSpends
<1>4. Owed = {} /\ Owed' = {}
  BY <1>1, OwedByOne
<1>5. Exchangeable' = Exchangeable \ {held[h].token} /\ Compromised' = Compromised
  BY <1>1, <1>3, <1>4 DEF Exchangeable, Compromised
<1>6. CASE held[h].token \in Exchangeable
  BY <1>1, <1>4, <1>5, <1>6 DEF Families!Lose, Exchangeable, Compromised
<1>7. CASE held[h].token \notin Exchangeable
  <2>1. Exchangeable' = Exchangeable
    BY <1>5, <1>7
  <2> QED BY <1>1, <1>4, <1>5, <2>1 DEF FamiliesStutter
<1> QED BY <1>6, <1>7

\* The rest of a pass reads, and changes no session.
LEMMA PassStutters ==
    ASSUME IInv, Alone, NEW h \in Handler,
           \/ ScanFamily(h) \/ SweepEnd(h)
           \/ \E t \in Token : SweepGet(h, t) \/ SweepMissing(h, t)
    PROVE  FamiliesStutter
<1>1. /\ pc[h] \notin {"consume", "issue"} /\ pc'[h] \notin {"consume", "issue"}
      /\ UNCHANGED <<issued, expired, session, familyOf, reused, crashes>>
  BY DEF ScanFamily, SweepEnd, SweepGet, SweepMissing, Leave, Goto, storeVars, historyVars, IInv, TypeOK
<1>2. Owed = {} /\ Owed' = {}
  BY <1>1, OwedByOne
<1>3. Exchangeable' = Exchangeable /\ Compromised' = Compromised
  BY <1>1, <1>2 DEF Exchangeable, Compromised, Dead
<1> QED BY <1>1, <1>2, <1>3 DEF FamiliesStutter

\* A crash leaves the token it exchanged spent or not.
LEMMA CrashFails ==
    ASSUME IInv, AloneInv, Alone, NEW h \in Handler, Crash(h)
    PROVE  Families!Fail
<1>1. /\ pc'[h] = "idle" /\ crashes' # 0
      /\ UNCHANGED <<issued, expired, session, familyOf>>
  BY Counters DEF Crash, Leave, Goto, IInv, TypeOK, storeVars, historyVars
<1>2. /\ Owed' = {} /\ Compromised' = {}
      /\ {t \in 1 .. issued : ~Dead(t)}' = {t \in 1 .. issued : ~Dead(t)}
  BY <1>1, OwedByOne DEF Compromised, Dead
<1>3. Owed = {} \/ Owed = {held[h].token}
  BY OwedByOne
<1>4. Owed \subseteq 1 .. issued
  BY DEF Owed, Consuming, IInv, OnlyIssued
<1>5. Exchangeable' = Exchangeable \/ Exchangeable' = Exchangeable \cup Owed
  BY <1>2, <1>3, <1>4 DEF Exchangeable
<1>6. Exchangeable' \in {Exchangeable, Exchangeable \cup (Owed \ Owed')}
  BY <1>2, <1>5
<1> QED BY <1>1, <1>2, <1>6 DEF Families!Fail, Exchangeable, Compromised

\* A live token expires; keys that Redis drops are of dead ones.
LEMMA TimeMaps ==
    ASSUME IInv, Time
    PROVE  Families!Lose(expired + 1) \/ FamiliesStutter
<1>1. /\ issued \in Nat /\ expired \in Nat
      /\ UNCHANGED <<issued, familyOf, reused, crashes, pc, held>>
  BY Counters DEF IInv, Time, ExpireToken, DropSession, DropIndex, storeVars, handlerVars, historyVars
<1>2. Owed' = Owed /\ Compromised' = Compromised
  BY <1>1 DEF Owed, Consuming, Compromised
<1>3. CASE ExpireToken
  <2>1. expired' = expired + 1 /\ session' = session
    BY <1>3 DEF ExpireToken, storeVars
  <2>2. \A t \in 1 .. issued : Dead(t)' <=> (Dead(t) \/ t = expired + 1)
    BY <1>1, <2>1 DEF Dead
  <2>3. Exchangeable' = Exchangeable \ {expired + 1}
    BY <1>1, <1>2, <2>2 DEF Exchangeable
  <2>4. CASE expired + 1 \in Exchangeable
    BY <1>1, <1>2, <2>3, <2>4 DEF Families!Lose, Exchangeable, Compromised
  <2>5. CASE expired + 1 \notin Exchangeable
    <3>1. Exchangeable' = Exchangeable
      BY <2>3, <2>5
    <3> QED BY <1>1, <1>2, <3>1 DEF FamiliesStutter
  <2> QED BY <2>4, <2>5
<1>4. CASE ~ExpireToken
  <2>1. /\ expired' = expired
        /\ \A t \in Token : session'[t] = session[t] \/ t <= expired
    BY <1>4 DEF Time, DropSession, DropIndex, IInv, TypeOK
  <2>2. 1 .. issued \subseteq Token
    BY Counters DEF IInv
  <2>3. \A t \in 1 .. issued : Dead(t)' <=> Dead(t)
    BY <2>1, <2>2 DEF Dead
  <2>4. Exchangeable' = Exchangeable
    BY <1>1, <1>2, <2>3 DEF Exchangeable
  <2> QED BY <1>1, <1>2, <2>4 DEF FamiliesStutter
<1> QED BY <1>3, <1>4

\* Every step of the store is a step of the promise or a stutter.
LEMMA StepMaps ==
    IInv /\ AloneInv /\ Alone /\ [Next]_vars => [Families!Next]_(Families!vars)
<1> SUFFICES ASSUME IInv, AloneInv, Alone, [Next]_vars
             PROVE  Families!Next \/ FamiliesStutter
  BY StutterIsAllowed
<1>1. CASE Login
  BY <1>1, LoginStarts DEF Families!Next
<1>2. ASSUME NEW h \in Handler, NEW t \in Token, Present(h, t) PROVE Families!Next \/ FamiliesStutter
  BY <1>2, PresentMaps DEF Families!Next, Families!Token, Token
<1>3. ASSUME NEW h \in Handler, pc[h] # "idle" PROVE held[h].token \in Token
  BY <1>3, HandlerFacts
<1>4. ASSUME NEW h \in Handler, Consume(h) PROVE FamiliesStutter
  BY <1>4, ConsumeStutters
<1>5. ASSUME NEW h \in Handler, IssueSuccessor(h) PROVE Families!Next
  <2>1. pc[h] # "idle"
    BY <1>5 DEF IssueSuccessor
  <2> QED BY <1>3, <1>5, <2>1, IssueSucceeds DEF Families!Next, Families!Token, Token
<1>6. ASSUME NEW h \in Handler, RevokeFamily(h) PROVE Families!Next \/ FamiliesStutter
  <2>1. CASE SweepPut(h)
    <3>1. pc[h] # "idle"
      BY <2>1 DEF SweepPut
    <3> QED BY <1>3, <2>1, <3>1, SweepPutMaps DEF Families!Next, Families!Token, Token
  <2>2. CASE ~SweepPut(h)
    BY <1>6, <2>2, PassStutters DEF RevokeFamily
  <2> QED BY <2>1, <2>2
<1>7. ASSUME NEW h \in Handler, Crash(h) PROVE Families!Next
  BY <1>7, CrashFails DEF Families!Next
<1>8. CASE Time
  <2>1. CASE Families!Lose(expired + 1)
    <3>1. expired + 1 \in 1 .. issued
      BY <2>1 DEF Families!Lose
    <3>2. expired + 1 \in Token
      BY <3>1, Counters DEF IInv
    <3> QED BY <2>1, <3>2 DEF Families!Next, Families!Token, Token
  <2> QED BY <1>8, <2>1, TimeMaps
<1>9. CASE UNCHANGED vars
  BY <1>9 DEF vars, FamiliesStutter, Exchangeable, Compromised, Owed, Consuming, Dead
<1> QED BY <1>1, <1>2, <1>4, <1>5, <1>6, <1>7, <1>8, <1>9 DEF Next, Rotate

\* The empty store has promised nothing.
LEMMA StartMaps == Init => Families!Init
BY DEF Init, Families!Init, Families!Token, Token, Owed, Consuming

(***************************************************************************)
(* Served one request at a time, the Redis store keeps the promises of     *)
(* RefreshFamilies: a token is exchanged once, its successor stays in the  *)
(* family, and a family with a reuse issues nothing more.                  *)
(***************************************************************************)
THEOREM StoreImplementsFamilies == Alone => (Spec => ImplementsFamilies)
<1>1. Alone /\ Init => IInv /\ AloneInv /\ Alone
  BY InitIInv, AloneStarts
<1>2. (IInv /\ AloneInv /\ Alone) /\ [Next]_vars => (IInv /\ AloneInv /\ Alone)'
  BY StepIInv, AloneStep DEF Alone
<1> QED BY <1>1, <1>2, StepMaps, StartMaps, PTL DEF Spec, ImplementsFamilies, Families!Spec
===============================================================================
