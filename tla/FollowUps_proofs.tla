---------------------------- MODULE FollowUps_proofs ----------------------------
(***************************************************************************)
(* Proofs about outreach campaigns: types, statuses that are backed by     *)
(* mails and never go back, at most two follow-ups and the days between    *)
(* them, for any number of campaigns and overlapping passes, any waiting   *)
(* times and any number of failed calls.                                   *)
(***************************************************************************)
EXTENDS FollowUps, FiniteSetTheorems, TLAPS

\* A pass that visits has a campaign, and who sends the second follow-up
\* found the first one sent.
Visiting ==
    \A p \in Pass :
        /\ pc[p] \in {"checking", "follow_up_1", "follow_up_2"} => current[p] \in Campaign
        /\ pc[p] = "follow_up_2" => mails[current[p]] >= 1

IInv == TypeOK /\ Visiting /\ StatusIsBacked

(***************************************************************************)
(* update_status moves one campaign, along a transition it accepts, or     *)
(* none.                                                                   *)
(***************************************************************************)
LEMMA UpdateMoves ==
    ASSUME TypeOK, NEW c \in Campaign, NEW new \in Status, UpdateStatus(c, new)
    PROVE  /\ status' \in [Campaign -> Status]
           /\ \A x \in Campaign :
                 \/ status'[x] = status[x]
                 \/ x = c /\ status'[x] = new /\ new \in Valid(status[x])
  BY DEF UpdateStatus, Accepts, TypeOK

(***************************************************************************)
(* The mail that is sent next is a follow-up, and the second one only to a *)
(* campaign in its first.                                                  *)
(***************************************************************************)
LEMMA NextMailIs ==
    ASSUME NEW c \in Campaign, NextMail(c) # "none"
    PROVE  /\ NextMail(c) \in Mail
           /\ NextMail(c) = "follow_up_2" => status[c] = "follow_up_1"
  BY DEF NextMail, Mail

(***************************************************************************)
(* Every valid transition leads to a later status.                         *)
(***************************************************************************)
LEMMA ValidAdvances ==
    ASSUME NEW s \in Status, NEW new \in Valid(s)
    PROVE  new \in Status /\ Rank(s) <= Rank(new)
<1>1. CASE s = "prospecting" BY <1>1 DEF Valid, Rank, Status
<1>2. CASE s = "outreach_sent" BY <1>2 DEF Valid, Rank, Status
<1>3. CASE s = "follow_up_1" BY <1>3 DEF Valid, Rank, Status
<1>4. CASE s = "follow_up_2" BY <1>4 DEF Valid, Rank, Status
<1>5. CASE s = "negotiating" BY <1>5 DEF Valid, Rank, Status
<1>6. CASE s = "acquired" BY <1>6 DEF Valid, Rank, Status
<1>7. CASE s = "dead" BY <1>7 DEF Valid, Rank, Status
<1> QED BY <1>1, <1>2, <1>3, <1>4, <1>5, <1>6, <1>7 DEF Status

(***************************************************************************)
(* Initially no campaign is in a follow-up.                                *)
(***************************************************************************)
LEMMA InitIInv == Init => IInv
  BY FollowUpsAssumption DEF Init, IInv, TypeOK, Visiting, StatusIsBacked, Status, Cap

(***************************************************************************)
(* A change of status that starts no follow-up keeps the invariant, if the *)
(* passes and the mails stay as they are.                                  *)
(***************************************************************************)
LEMMA DecisionStep ==
    ASSUME IInv, NEW c \in Campaign,
           NEW new \in {"outreach_sent", "negotiating", "acquired", "dead"},
           UpdateStatus(c, new) \/ UNCHANGED status,
           UNCHANGED <<passVars, mails>>,
           UNCHANGED <<stored, overlaps, faults>>,
           age' \in [Campaign -> 0 .. Cap], dueIn' \in [Campaign -> 0 .. Cap],
           failed' \in [Campaign -> 0 .. 3], replied' \in [Campaign -> BOOLEAN]
    PROVE  IInv'
<1> USE DEF passVars
<1>1. new \in Status
  BY DEF Status
<1>2. /\ status' \in [Campaign -> Status]
      /\ \A x \in Campaign : status'[x] = status[x] \/ status'[x] = new
  BY <1>1, UpdateMoves DEF IInv, TypeOK
<1>3. TypeOK'
  BY <1>2 DEF IInv, TypeOK
<1>4. Visiting'
  BY DEF IInv, Visiting
<1>5. StatusIsBacked'
  BY <1>2 DEF IInv, StatusIsBacked
<1> QED BY <1>3, <1>4, <1>5 DEF IInv

(***************************************************************************)
(* Steps of the world outside the engine.                                  *)
(***************************************************************************)
LEMMA OthersStep ==
    ASSUME IInv, NEW c \in Campaign, Others(c) PROVE IInv'
<1> USE FollowUpsAssumption DEF campaignVars, historyVars, Cap
<1>1. CASE SendOutreach(c)
  BY <1>1, DecisionStep DEF SendOutreach, IInv, TypeOK
<1>2. ASSUME NEW new \in Status, Decide(c, new) PROVE IInv'
  BY <1>2, DecisionStep DEF Decide, IInv, TypeOK
<1>3. CASE Delete(c)
  <2>1. TypeOK' BY <1>3 DEF Delete, IInv, TypeOK, passVars
  <2>2. Visiting' BY <1>3 DEF Delete, IInv, Visiting, passVars
  <2>3. StatusIsBacked' BY <1>3 DEF Delete, IInv, StatusIsBacked
  <2> QED BY <2>1, <2>2, <2>3 DEF IInv
<1>4. CASE VerifyLive(c)
  BY <1>4, DecisionStep DEF VerifyLive, IInv, TypeOK
<1>5. CASE VerifyFails(c)
  <2>1. failed' \in [Campaign -> 0 .. 3]
    BY <1>5 DEF VerifyFails, IInv, TypeOK
  <2> QED BY <1>5, <2>1, DecisionStep DEF VerifyFails, IInv, TypeOK
<1>6. CASE Reply(c)
  BY <1>6, DecisionStep DEF Reply, IInv, TypeOK
<1> QED BY <1>1, <1>2, <1>3, <1>4, <1>5, <1>6 DEF Others

(***************************************************************************)
(* A pass that ends, or takes up its next campaign.                        *)
(***************************************************************************)
LEMMA TravelStep ==
    ASSUME IInv, NEW p \in Pass,
           \/ StartPass(p)
           \/ EndPass(p)
           \/ \E c \in Campaign : Visit(p, c)
    PROVE  IInv'
<1> USE DEF StartPass, EndPass, Visit, campaignVars, historyVars
<1>1. TypeOK'
  BY DEF IInv, TypeOK
<1>2. Visiting'
  BY DEF IInv, TypeOK, Visiting
<1>3. StatusIsBacked'
  BY DEF IInv, StatusIsBacked
<1> QED BY <1>1, <1>2, <1>3 DEF IInv

(***************************************************************************)
(* A pass that is done with its campaign keeps the invariant, if it counts *)
(* the mail it sent before it calls the campaign followed up.              *)
(***************************************************************************)
LEMMA NextCampaignStep ==
    ASSUME IInv, NEW p \in Pass, NextCampaign(p),
           mails' \in [Campaign -> Nat],
           \A x \in Campaign : mails'[x] >= mails[x],
           StatusIsBacked',
           status' \in [Campaign -> Status],
           age' \in [Campaign -> 0 .. Cap], dueIn' \in [Campaign -> 0 .. Cap],
           replied' \in [Campaign -> BOOLEAN], faults' \in 0 .. MaxFaults,
           UNCHANGED <<stored, failed, overlaps>>
    PROVE  IInv'
<1>1. TypeOK'
  BY DEF IInv, TypeOK, NextCampaign
<1>2. Visiting'
  <2> SUFFICES ASSUME NEW q \in Pass
               PROVE  /\ pc'[q] \in {"checking", "follow_up_1", "follow_up_2"}
                            => current'[q] \in Campaign
                      /\ pc'[q] = "follow_up_2" => mails'[current'[q]] >= 1
    BY DEF Visiting
  <2>1. CASE q = p
    BY <2>1 DEF IInv, TypeOK, NextCampaign
  <2>2. CASE q # p
    <3>1. pc'[q] = pc[q] /\ current'[q] = current[q]
      BY <2>2 DEF IInv, TypeOK, NextCampaign
    <3>2. current[q] \in Campaign
            => mails'[current[q]] >= mails[current[q]] /\ mails[current[q]] \in Nat
                 /\ mails'[current[q]] \in Nat
      BY DEF IInv, TypeOK
    <3> QED BY <3>1, <3>2 DEF IInv, Visiting
  <2> QED BY <2>1, <2>2
<1> QED BY <1>1, <1>2 DEF IInv

(***************************************************************************)
(* The steps in which a pass acts on its campaign.                         *)
(***************************************************************************)
LEMMA ActStep ==
    ASSUME IInv, NEW p \in Pass, SeeReply(p) \/ GoOn(p) \/ Sent(p) \/ SendRaises(p)
    PROVE  IInv'
<1> USE FollowUpsAssumption
<1> DEFINE c == current[p]
<1>0. c \in Campaign /\ (pc[p] = "follow_up_2" => mails[c] >= 1) /\ mails[c] \in Nat
  BY DEF SeeReply, GoOn, Sent, SendRaises, IInv, Visiting, TypeOK, Mail
<1>1. CASE SeeReply(p)
  <2>1. UpdateStatus(c, "negotiating") /\ NextCampaign(p)
        /\ UNCHANGED <<stored, age, dueIn, failed, replied, mails, overlaps, faults>>
    BY <1>1 DEF SeeReply, historyVars
  <2>2. /\ status' \in [Campaign -> Status]
        /\ \A x \in Campaign : status'[x] = status[x] \/ status'[x] = "negotiating"
    BY <1>0, <2>1, UpdateMoves DEF IInv, Status
  <2>3. StatusIsBacked'
    BY <2>1, <2>2 DEF IInv, StatusIsBacked
  <2> QED BY <2>1, <2>2, <2>3, NextCampaignStep DEF IInv, TypeOK
<1>2. CASE GoOn(p)
  <2>1. /\ faults' \in 0 .. MaxFaults
        /\ UNCHANGED <<stored, age, dueIn, failed, replied, mails>>
    BY <1>2 DEF GoOn, IInv, TypeOK
  <2>2. CASE /\ NextMail(c) # "none"
             /\ overlaps' = [overlaps EXCEPT ![c] = IF Sending(c) THEN @ + 1 ELSE @]
             /\ pc' = [pc EXCEPT ![p] = NextMail(c)]
             /\ UNCHANGED <<status, queue, current>>
    <3>1. NextMail(c) \in Mail /\ (NextMail(c) = "follow_up_2" => status[c] = "follow_up_1")
      BY <1>0, <2>2, NextMailIs
    <3>2. pc' \in [Pass -> {"idle", "next", "checking", "follow_up_1", "follow_up_2"}]
      BY <2>2, <3>1 DEF IInv, TypeOK, Mail
    <3>3. overlaps' \in [Campaign -> Nat]
      BY <1>0, <2>2 DEF IInv, TypeOK
    <3>4. TypeOK'
      BY <2>1, <2>2, <3>2, <3>3 DEF IInv, TypeOK
    <3>5. Visiting'
      BY <1>0, <2>1, <2>2, <3>1 DEF IInv, Visiting, StatusIsBacked, TypeOK
    <3>6. StatusIsBacked'
      BY <2>1, <2>2 DEF IInv, StatusIsBacked
    <3> QED BY <3>4, <3>5, <3>6 DEF IInv
  <2>3. CASE /\ IF GivenUp(c) THEN UpdateStatus(c, "dead") ELSE UNCHANGED status
             /\ NextCampaign(p)
             /\ UNCHANGED overlaps
    <3>1. /\ status' \in [Campaign -> Status]
          /\ \A x \in Campaign : status'[x] = status[x] \/ status'[x] = "dead"
      <4>1. CASE GivenUp(c)
        BY <1>0, <2>3, <4>1, UpdateMoves DEF IInv, Status
      <4>2. CASE ~GivenUp(c)
        BY <2>3, <4>2 DEF IInv, TypeOK
      <4> QED BY <4>1, <4>2
    <3>2. StatusIsBacked'
      BY <2>1, <3>1 DEF IInv, StatusIsBacked
    <3> QED BY <2>1, <2>3, <3>1, <3>2, NextCampaignStep DEF IInv, TypeOK
  <2> QED BY <1>2, <2>2, <2>3 DEF GoOn
<1>3. CASE Sent(p)
  <2>1. /\ pc[p] \in Mail
        /\ mails' = [mails EXCEPT ![c] = @ + 1]
        /\ UpdateStatus(c, pc[p])
        /\ NextCampaign(p)
        /\ UNCHANGED <<stored, failed, overlaps, faults>>
    BY <1>3 DEF Sent
  <2>2. /\ age' \in [Campaign -> 0 .. Cap]
        /\ dueIn' \in [Campaign -> 0 .. Cap]
        /\ replied' \in [Campaign -> BOOLEAN]
    <3>1. DaysFinal \in 0 .. Cap /\ Days2 \in 0 .. Cap /\ 0 \in 0 .. Cap
      BY DEF Cap
    <3>2. CASE Accepts(c, pc[p])
      <4>1. PICK d \in 0 .. Cap :
               /\ age' = [age EXCEPT ![c] = 0]
               /\ dueIn' = [dueIn EXCEPT ![c] = d]
               /\ replied' = [replied EXCEPT ![c] = FALSE]
        BY <1>3, <3>1, <3>2 DEF Sent
      <4> QED BY <3>1, <4>1 DEF IInv, TypeOK
    <3>3. CASE ~Accepts(c, pc[p])
      BY <1>3, <3>3 DEF Sent, IInv, TypeOK
    <3> QED BY <3>2, <3>3
  <2>3. /\ mails' \in [Campaign -> Nat]
        /\ mails'[c] = mails[c] + 1
        /\ \A x \in Campaign : mails'[x] >= mails[x]
    BY <1>0, <2>1 DEF IInv, TypeOK
  <2>4. /\ status' \in [Campaign -> Status]
        /\ \A x \in Campaign : status'[x] = status[x] \/ (x = c /\ status'[x] = pc[p])
    BY <1>0, <2>1, UpdateMoves DEF IInv, Status, Mail
  <2>5. StatusIsBacked'
    <3> SUFFICES ASSUME NEW x \in Campaign
                 PROVE  /\ status'[x] = "follow_up_1" => mails'[x] >= 1
                        /\ status'[x] = "follow_up_2" => mails'[x] >= 2
      BY DEF StatusIsBacked
    <3>1. CASE status'[x] = status[x]
      <4>1. mails'[x] >= mails[x] /\ mails[x] \in Nat /\ mails'[x] \in Nat
        BY <2>3 DEF IInv, TypeOK
      <4> QED BY <3>1, <4>1 DEF IInv, StatusIsBacked
    <3>2. CASE x = c /\ status'[x] = pc[p]
      BY <1>0, <2>3, <3>2
    <3> QED BY <2>4, <3>1, <3>2
  <2> QED BY <2>1, <2>2, <2>3, <2>4, <2>5, NextCampaignStep DEF IInv, TypeOK
<1>4. CASE SendRaises(p)
  <2>1. /\ faults' \in 0 .. MaxFaults
        /\ mails' \in {mails, [mails EXCEPT ![c] = @ + 1]}
        /\ NextCampaign(p)
        /\ UNCHANGED <<stored, status, age, dueIn, failed, replied, overlaps>>
    BY <1>4 DEF SendRaises, campaignVars, IInv, TypeOK
  <2>2. /\ mails' \in [Campaign -> Nat]
        /\ \A x \in Campaign : mails'[x] >= mails[x]
    BY <1>0, <2>1 DEF IInv, TypeOK
  <2>3. StatusIsBacked'
    BY <2>1, <2>2 DEF IInv, StatusIsBacked, TypeOK
  <2> QED BY <2>1, <2>2, <2>3, NextCampaignStep DEF IInv, TypeOK
<1> QED BY <1>1, <1>2, <1>3, <1>4

(***************************************************************************)
(* Every step keeps the inductive invariant.                               *)
(***************************************************************************)
LEMMA StepIInv == IInv /\ [Next]_vars => IInv'
<1> SUFFICES ASSUME IInv, [Next]_vars PROVE IInv'
  OBVIOUS
<1>1. ASSUME NEW p \in Pass, RunPass(p) \/ SendRaises(p) PROVE IInv'
  BY <1>1, TravelStep, ActStep DEF RunPass
<1>2. ASSUME NEW c \in Campaign, Others(c) PROVE IInv'
  BY <1>2, OthersStep
<1>3. CASE DayPasses
  <2>1. age' \in [Campaign -> 0 .. Cap] /\ dueIn' \in [Campaign -> 0 .. Cap]
    BY <1>3, FollowUpsAssumption DEF DayPasses, IInv, TypeOK, Cap
  <2>2. TypeOK'
    BY <1>3, <2>1 DEF DayPasses, IInv, TypeOK, passVars, historyVars
  <2>3. Visiting' /\ StatusIsBacked'
    BY <1>3 DEF DayPasses, IInv, Visiting, StatusIsBacked, passVars, historyVars
  <2> QED BY <2>2, <2>3 DEF IInv
<1>4. CASE UNCHANGED vars
  BY <1>4 DEF vars, IInv, TypeOK, Visiting, StatusIsBacked
<1> QED BY <1>1, <1>2, <1>3, <1>4 DEF Next

(***************************************************************************)
(* The inductive invariant holds in every reachable state.                 *)
(***************************************************************************)
THEOREM Invariance == Spec => []IInv
  BY InitIInv, StepIInv, PTL DEF Spec

(***************************************************************************)
(* Campaigns, passes and history keep their types.                         *)
(***************************************************************************)
THEOREM TypeCorrect == Spec => []TypeOK
<1>1. IInv => TypeOK BY DEF IInv
<1> QED BY <1>1, Invariance, PTL

(***************************************************************************)
(* A campaign in its nth follow-up has been sent n follow-ups.             *)
(***************************************************************************)
THEOREM StatusBacked == Spec => []StatusIsBacked
<1>1. IInv => StatusIsBacked BY DEF IInv
<1> QED BY <1>1, Invariance, PTL

(***************************************************************************)
(* A status changes only by update_status.                                 *)
(***************************************************************************)
LEMMA StatusSteps ==
    ASSUME IInv, [Next]_vars
    PROVE  \/ UNCHANGED status
           \/ \E c \in Campaign, new \in Status : UpdateStatus(c, new)
<1>1. ASSUME NEW p \in Pass, RunPass(p) \/ SendRaises(p)
      PROVE  \/ UNCHANGED status
             \/ \E c \in Campaign, new \in Status : UpdateStatus(c, new)
  <2>1. pc[p] \in {"checking", "follow_up_1", "follow_up_2"} => current[p] \in Campaign
    BY DEF IInv, Visiting
  <2> QED BY <1>1, <2>1
          DEF RunPass, StartPass, EndPass, Visit, SeeReply, GoOn, Sent, SendRaises,
              campaignVars, Mail, Status
<1>2. ASSUME NEW c \in Campaign, Others(c)
      PROVE  UNCHANGED status \/ \E new \in Status : UpdateStatus(c, new)
  BY <1>2 DEF Others, SendOutreach, Decide, Delete, VerifyLive, VerifyFails, Reply,
              campaignVars, Status
<1> QED BY <1>1, <1>2 DEF Next, DayPasses, vars

(***************************************************************************)
(* No step of a pass, a user or a verification takes a campaign back.      *)
(***************************************************************************)
THEOREM NeverGoesBack == Spec => NeverBack
<1>1. ASSUME IInv, [Next]_vars
      PROVE  [\A c \in Campaign : Rank(status[c]) <= Rank(status'[c])]_vars
  <2>1. \A s \in Status : Rank(s) <= Rank(s)
    BY DEF Rank, Status
  <2>2. ASSUME NEW c \in Campaign, NEW new \in Status, UpdateStatus(c, new)
        PROVE  \A x \in Campaign : Rank(status[x]) <= Rank(status'[x])
    BY <1>1, <2>1, <2>2, UpdateMoves, ValidAdvances DEF IInv, TypeOK
  <2>3. ASSUME UNCHANGED status
        PROVE  \A x \in Campaign : Rank(status[x]) <= Rank(status'[x])
    BY <1>1, <2>1, <2>3 DEF IInv, TypeOK
  <2>4. \/ UNCHANGED status
        \/ \E c \in Campaign, new \in Status : UpdateStatus(c, new)
    BY <1>1, StatusSteps
  <2> QED BY <1>1, <2>2, <2>3, <2>4
<1> QED BY <1>1, Invariance, PTL DEF Spec, NeverBack

(***************************************************************************)
(* How many mails a campaign has coming to it.  Stage counts the           *)
(* follow-ups its status accounts for; a sender is fresh if its mail is    *)
(* the one the status still waits for.  A send that is neither fresh nor   *)
(* faulty overlapped another.                                              *)
(***************************************************************************)
Senders(c) == {p \in Pass : pc[p] \in Mail /\ current[p] = c}
Stage(s) == IF s \in {"prospecting", "outreach_sent"} THEN 0
            ELSE IF s = "follow_up_1" THEN 1 ELSE 2
Fresh(c, p) ==
    \/ status[c] = "outreach_sent" /\ pc[p] = "follow_up_1"
    \/ status[c] = "follow_up_1" /\ pc[p] = "follow_up_2"
Due(c) == Stage(status[c]) + (IF \E p \in Senders(c) : Fresh(c, p) THEN 1 ELSE 0)
Budget(c) == Due(c) + faults + overlaps[c]

MailsBudgeted ==
    \A c \in stored : mails[c] + Cardinality(Senders(c)) <= Budget(c)

(***************************************************************************)
(* The senders of a campaign are finitely many.                            *)
(***************************************************************************)
LEMMA SendersFinite ==
    ASSUME NEW c
    PROVE  /\ IsFiniteSet(Senders(c)) /\ Cardinality(Senders(c)) \in Nat
           /\ Senders(c) = {} => Cardinality(Senders(c)) = 0
  BY FollowUpsAssumption, FS_Subset, FS_CardinalityType, FS_EmptySet DEF Senders

LEMMA SendersFiniteNext ==
    ASSUME NEW c
    PROVE  IsFiniteSet(Senders(c)') /\ Cardinality(Senders(c)') \in Nat
  BY FollowUpsAssumption, FS_Subset, FS_CardinalityType DEF Senders

(***************************************************************************)
(* Never more than two follow-ups are due.                                 *)
(***************************************************************************)
LEMMA DueIs ==
    ASSUME TypeOK, NEW c \in Campaign
    PROVE  /\ Stage(status[c]) \in 0 .. 2
           /\ Due(c) \in 0 .. 2
           /\ Stage(status[c]) <= Due(c) /\ Due(c) <= Stage(status[c]) + 1
           /\ Stage(status[c]) = 2 => Due(c) = 2
  BY DEF Due, Fresh, Stage, TypeOK, Status

LEMMA DueIsNext ==
    ASSUME TypeOK', NEW c \in Campaign
    PROVE  /\ Due(c)' \in 0 .. 2
           /\ Stage(status'[c]) <= Due(c)'
           /\ Stage(status'[c]) = 2 => Due(c)' = 2
  BY DEF Due, Fresh, Stage, TypeOK, Status

(***************************************************************************)
(* For a campaign whose mails and senders stay as they are, whatever moves *)
(* its status leaves at least as much due.                                 *)
(***************************************************************************)
Quiet(c) ==
    /\ Senders(c)' = Senders(c)
    /\ \A p \in Senders(c) : pc'[p] = pc[p]
    /\ mails'[c] = mails[c]
    /\ overlaps'[c] = overlaps[c] /\ faults' >= faults
    /\ \/ status'[c] = status[c]
       \/ status[c] = "prospecting" /\ status'[c] = "outreach_sent"
       \/ status'[c] \in {"negotiating", "acquired", "dead"}
    /\ age'[c] >= age[c] \/ status[c] = "prospecting"

BudgetNumbers(c) ==
    /\ mails[c] \in Nat /\ overlaps[c] \in Nat /\ faults \in Nat
    /\ Due(c) \in Nat /\ Cardinality(Senders(c)) \in Nat

LEMMA Numbers == ASSUME TypeOK, NEW c \in Campaign PROVE BudgetNumbers(c)
<1>1. mails[c] \in Nat /\ overlaps[c] \in Nat /\ faults \in Nat
  BY FollowUpsAssumption DEF TypeOK
<1>2. Due(c) \in Nat
  BY DueIs
<1>3. Cardinality(Senders(c)) \in Nat
  BY SendersFinite
<1> QED BY <1>1, <1>2, <1>3 DEF BudgetNumbers

LEMMA NumbersNext == ASSUME TypeOK', NEW c \in Campaign PROVE BudgetNumbers(c)'
<1>1. mails'[c] \in Nat /\ overlaps'[c] \in Nat /\ faults' \in Nat
  BY FollowUpsAssumption DEF TypeOK
<1>2. Due(c)' \in Nat
  BY DueIsNext
<1>3. Cardinality(Senders(c)') \in Nat
  BY SendersFiniteNext
<1> QED BY <1>1, <1>2, <1>3 DEF BudgetNumbers

LEMMA QuietBudget ==
    ASSUME TypeOK, TypeOK', NEW c \in Campaign, Quiet(c),
           mails[c] + Cardinality(Senders(c)) <= Budget(c)
    PROVE  mails'[c] + Cardinality(Senders(c)') <= Budget(c)'
<1>1. Due(c) <= Due(c)'
  <2>1. CASE status'[c] = status[c]
    <3>1. (\E p \in Senders(c) : Fresh(c, p)) <=> (\E p \in Senders(c) : Fresh(c, p))'
      BY <2>1 DEF Quiet, Fresh
    <3>2. Due(c) = Due(c)'
      BY <2>1, <3>1 DEF Due
    <3> QED BY <3>2, DueIs
  <2>2. CASE status[c] = "prospecting"
    <3>1. Due(c) = 0
      BY <2>2 DEF Due, Fresh, Stage
    <3> QED BY <3>1, DueIsNext
  <2>3. CASE status'[c] \in {"negotiating", "acquired", "dead"}
    <3>1. Stage(status'[c]) = 2
      BY <2>3 DEF Stage
    <3> QED BY <3>1, DueIs, DueIsNext
  <2> QED BY <2>1, <2>2, <2>3 DEF Quiet
<1>2. BudgetNumbers(c) /\ BudgetNumbers(c)'
  BY Numbers, NumbersNext
<1>3. Cardinality(Senders(c)') = Cardinality(Senders(c))
  BY DEF Quiet
<1>4. mails'[c] = mails[c] /\ overlaps'[c] = overlaps[c] /\ faults' >= faults
  BY DEF Quiet
<1>5. Budget(c)' = Due(c)' + faults' + overlaps'[c]
  BY DEF Budget
<1>6. Budget(c) = Due(c) + faults + overlaps[c]
  BY DEF Budget
<1> QED BY <1>1, <1>2, <1>3, <1>4, <1>5, <1>6 DEF BudgetNumbers

(***************************************************************************)
(* What a step can be for a campaign: a pass begins to send to it, its     *)
(* mail goes out or the send fails, or it is left in quiet.                *)
(***************************************************************************)
Begins(p) ==
    LET c == current[p] IN
    /\ pc[p] = "checking"
    /\ NextMail(c) # "none"
    /\ overlaps' = [overlaps EXCEPT ![c] = IF Sending(c) THEN @ + 1 ELSE @]
    /\ pc' = [pc EXCEPT ![p] = NextMail(c)]
    /\ faults' >= faults
    /\ UNCHANGED <<status, current, mails, age, stored>>

LEMMA AcceptedMoves ==
    ASSUME TypeOK, NEW c \in Campaign, NEW new \in {"negotiating", "acquired", "dead"},
           UpdateStatus(c, new)
    PROVE  \A x \in Campaign : status'[x] = status[x] \/ status'[x] = new
  BY UpdateMoves DEF Status

LEMMA StepIs ==
    ASSUME IInv, IInv', [Next]_vars, NEW x \in stored'
    PROVE  /\ x \in stored
           /\ \/ Quiet(x)
              \/ \E p \in Pass : x = current[p] /\ (Begins(p) \/ Sent(p) \/ SendRaises(p))
<1> USE DEF passVars, historyVars, campaignVars
<1>0. x \in Campaign /\ faults \in Nat /\ age[x] \in 0 .. Cap /\ Cap \in Nat
  BY FollowUpsAssumption DEF IInv, TypeOK, Cap
<1>1. ASSUME NEW c \in Campaign, Others(c) PROVE x \in stored /\ Quiet(x)
  <2>1. x \in stored /\ UNCHANGED <<pc, current, mails, overlaps, faults>>
    BY <1>1 DEF Others, SendOutreach, Decide, Delete, VerifyLive, VerifyFails, Reply
  <2>2. \/ status'[x] = status[x]
        \/ status[x] = "prospecting" /\ status'[x] = "outreach_sent"
        \/ status'[x] \in {"negotiating", "acquired", "dead"}
    <3>1. CASE SendOutreach(c)
      BY <1>0, <3>1 DEF SendOutreach, UpdateStatus, IInv, TypeOK
    <3>2. ASSUME NEW new \in Status, Decide(c, new) PROVE status'[x] = status[x] \/ status'[x] = new
      BY <1>0, <3>2, UpdateMoves DEF Decide, IInv
    <3>3. CASE VerifyLive(c)
      BY <1>0, <3>3, AcceptedMoves DEF VerifyLive, IInv
    <3>4. CASE VerifyFails(c)
      BY <1>0, <3>4, AcceptedMoves DEF VerifyFails, IInv
    <3>5. CASE Delete(c) \/ Reply(c)
      BY <3>5 DEF Delete, Reply
    <3> QED BY <1>1, <3>1, <3>2, <3>3, <3>4, <3>5 DEF Others, Decide
  <2>3. age'[x] >= age[x] \/ status[x] = "prospecting"
    BY <1>0, <1>1
       DEF Others, SendOutreach, Decide, Delete, VerifyLive, VerifyFails, Reply, IInv, TypeOK
  <2> QED BY <1>0, <2>1, <2>2, <2>3 DEF Quiet, Senders
<1>2. ASSUME NEW p \in Pass, RunPass(p) \/ SendRaises(p)
      PROVE  /\ x \in stored
             /\ Quiet(x) \/ (x = current[p] /\ (Begins(p) \/ Sent(p) \/ SendRaises(p)))
  <2>0. x \in stored
    BY <1>2 DEF RunPass, SendRaises, StartPass, EndPass, Visit, SeeReply, GoOn, Sent
  <2>1. CASE StartPass(p) \/ EndPass(p) \/ \E c \in Campaign : Visit(p, c)
    <3>1. /\ pc[p] \notin Mail /\ pc'[p] \notin Mail
          /\ \A q \in Pass \ {p} : pc'[q] = pc[q] /\ current'[q] = current[q]
      BY <2>1 DEF StartPass, EndPass, Visit, Mail, IInv, TypeOK
    <3>2. UNCHANGED <<status, age, mails, overlaps, faults>>
      BY <2>1 DEF StartPass, EndPass, Visit
    <3> QED BY <1>0, <2>0, <3>1, <3>2 DEF Quiet, Senders
  <2>2. CASE SeeReply(p)
    <3>1. /\ pc[p] \notin Mail /\ pc'[p] \notin Mail
          /\ \A q \in Pass \ {p} : pc'[q] = pc[q] /\ current'[q] = current[q]
      BY <2>2 DEF SeeReply, NextCampaign, Mail, IInv, TypeOK
    <3>2. UNCHANGED <<age, mails, overlaps, faults>> /\ UpdateStatus(current[p], "negotiating")
      BY <2>2 DEF SeeReply
    <3>3. current[p] \in Campaign
      BY <2>2 DEF SeeReply, IInv, Visiting
    <3>4. status'[x] = status[x] \/ status'[x] = "negotiating"
      BY <1>0, <3>2, <3>3, AcceptedMoves DEF IInv
    <3> QED BY <1>0, <2>0, <3>1, <3>2, <3>4 DEF Quiet, Senders
  <2>3. CASE GoOn(p)
    <3> DEFINE c == current[p]
    <3>0. c \in Campaign /\ pc[p] = "checking" /\ pc[p] \notin Mail
      BY <2>3 DEF GoOn, IInv, Visiting, Mail
    <3>1. UNCHANGED <<mails, age, stored>> /\ faults' >= faults
      BY <1>0, <2>3 DEF GoOn
    <3>2. CASE /\ NextMail(c) # "none"
               /\ overlaps' = [overlaps EXCEPT ![c] = IF Sending(c) THEN @ + 1 ELSE @]
               /\ pc' = [pc EXCEPT ![p] = NextMail(c)]
               /\ UNCHANGED <<status, queue, current>>
      <4>1. Begins(p)
        BY <3>0, <3>1, <3>2 DEF Begins
      <4>2. x # c => Quiet(x)
        BY <1>0, <3>0, <3>1, <3>2 DEF Quiet, Senders, IInv, TypeOK
      <4> QED BY <2>0, <4>1, <4>2
    <3>3. CASE /\ IF GivenUp(c) THEN UpdateStatus(c, "dead") ELSE UNCHANGED status
               /\ NextCampaign(p)
               /\ UNCHANGED overlaps
      <4>1. /\ pc'[p] \notin Mail
            /\ \A q \in Pass \ {p} : pc'[q] = pc[q] /\ current'[q] = current[q]
        BY <3>3 DEF NextCampaign, Mail, IInv, TypeOK
      <4>2. status'[x] = status[x] \/ status'[x] = "dead"
        BY <1>0, <3>0, <3>3, AcceptedMoves DEF IInv
      <4> QED BY <1>0, <2>0, <3>0, <3>1, <3>3, <4>1, <4>2 DEF Quiet, Senders
    <3> QED BY <2>3, <3>2, <3>3 DEF GoOn
  <2>4. CASE Sent(p) \/ SendRaises(p)
    <3> SUFFICES ASSUME x # current[p] PROVE Quiet(x)
      BY <2>0, <2>4
    <3>0. current[p] \in Campaign
      BY <2>4 DEF Sent, SendRaises, IInv, Visiting, Mail
    <3>1. /\ pc'[p] \notin Mail
          /\ \A q \in Pass \ {p} : pc'[q] = pc[q] /\ current'[q] = current[q]
      BY <2>4 DEF Sent, SendRaises, NextCampaign, Mail, IInv, TypeOK
    <3>2. /\ mails'[x] = mails[x] /\ overlaps'[x] = overlaps[x] /\ faults' >= faults
          /\ age'[x] = age[x]
      BY <1>0, <2>4, <3>0 DEF Sent, SendRaises, IInv, TypeOK
    <3>3. status'[x] = status[x]
      BY <1>0, <2>4, <3>0 DEF Sent, SendRaises, UpdateStatus, IInv, TypeOK
    <3> QED BY <1>0, <3>1, <3>2, <3>3 DEF Quiet, Senders
  <2> QED BY <1>2, <2>1, <2>2, <2>3, <2>4 DEF RunPass
<1>3. CASE DayPasses
  BY <1>0, <1>3 DEF DayPasses, Quiet, Senders
<1>4. CASE UNCHANGED vars
  BY <1>0, <1>4 DEF vars, Quiet, Senders
<1> QED BY <1>1, <1>2, <1>3, <1>4 DEF Next

(***************************************************************************)
(* A pass that begins to send is a sender more; the one that ends is one   *)
(* less.                                                                   *)
(***************************************************************************)
LEMMA OneSenderMore ==
    ASSUME IInv, NEW p \in Pass, NEW c, c = current[p], Begins(p)
    PROVE  /\ c \in Campaign
           /\ p \notin Senders(c) /\ Senders(c)' = Senders(c) \cup {p}
           /\ Sending(c) <=> Senders(c) # {}
           /\ Cardinality(Senders(c)') = Cardinality(Senders(c)) + 1
           /\ Fresh(c, p)'
<1>1. c \in Campaign /\ p \notin Senders(c)
  BY DEF Begins, IInv, Visiting, Senders, Mail
<1>2. NextMail(c) \in Mail /\ pc' = [pc EXCEPT ![p] = NextMail(c)] /\ UNCHANGED <<status, current>>
  BY <1>1, NextMailIs DEF Begins
<1>3. Senders(c)' = Senders(c) \cup {p}
  BY <1>1, <1>2 DEF Senders, IInv, TypeOK
<1>4. Cardinality(Senders(c) \cup {p}) = Cardinality(Senders(c)) + 1
  BY <1>1, SendersFinite, FS_AddElement
<1>5. Fresh(c, p)'
  <2>1. pc'[p] = NextMail(c) /\ status'[c] = status[c]
    BY <1>2 DEF IInv, TypeOK
  <2> QED BY <1>2, <2>1 DEF Fresh, NextMail, Mail
<1>6. Sending(c) <=> Senders(c) # {}
  BY DEF Sending, Senders
<1> QED BY <1>1, <1>3, <1>4, <1>5, <1>6

LEMMA OneSenderLess ==
    ASSUME IInv, NEW p \in Pass, NEW c, c = current[p], Sent(p) \/ SendRaises(p)
    PROVE  /\ c \in Campaign
           /\ p \in Senders(c) /\ Senders(c)' = Senders(c) \ {p}
           /\ Cardinality(Senders(c)') = Cardinality(Senders(c)) - 1
           /\ \A q \in Senders(c)' : pc'[q] = pc[q]
<1>1. c \in Campaign /\ p \in Senders(c)
  BY DEF Sent, SendRaises, IInv, Visiting, Senders, Mail
<1>2. /\ pc'[p] \notin Mail
      /\ \A q \in Pass \ {p} : pc'[q] = pc[q] /\ current'[q] = current[q]
  BY DEF Sent, SendRaises, NextCampaign, Mail, IInv, TypeOK
<1>3. Senders(c)' = Senders(c) \ {p}
  BY <1>1, <1>2 DEF Senders
<1>4. Cardinality(Senders(c) \ {p}) = Cardinality(Senders(c)) - 1
  BY <1>1, SendersFinite, FS_RemoveElement
<1>5. \A q \in Senders(c)' : pc'[q] = pc[q]
  BY <1>2, <1>3 DEF Senders
<1> QED BY <1>1, <1>3, <1>4, <1>5

(***************************************************************************)
(* Beginning the only send makes a mail due; beginning one of several is   *)
(* an overlap.                                                             *)
(***************************************************************************)
LEMMA BeginBudget ==
    ASSUME IInv, IInv', NEW p \in Pass, NEW c, c = current[p], Begins(p),
           mails[c] + Cardinality(Senders(c)) <= Budget(c)
    PROVE  mails'[c] + Cardinality(Senders(c)') <= Budget(c)'
<1>1. /\ c \in Campaign
      /\ Senders(c)' = Senders(c) \cup {p}
      /\ Sending(c) <=> Senders(c) # {}
      /\ Cardinality(Senders(c)') = Cardinality(Senders(c)) + 1
      /\ Fresh(c, p)'
  BY OneSenderMore
<1>2. BudgetNumbers(c) /\ BudgetNumbers(c)'
  BY <1>1, Numbers, NumbersNext DEF IInv
<1>3. mails'[c] = mails[c] /\ faults' >= faults /\ status'[c] = status[c]
  BY DEF Begins
<1>4. Due(c)' = Stage(status[c]) + 1 /\ Stage(status[c]) \in Nat
  BY <1>1, <1>3, DueIs DEF Due, IInv
<1>5. CASE Senders(c) = {}
  <2>1. Due(c) = Stage(status[c])
    BY <1>4, <1>5 DEF Due
  <2>2. overlaps'[c] = overlaps[c]
    BY <1>1, <1>5 DEF Begins, IInv, TypeOK
  <2> QED BY <1>1, <1>2, <1>3, <1>4, <2>1, <2>2 DEF Budget, BudgetNumbers
<1>6. CASE Senders(c) # {}
  <2>1. Due(c) <= Due(c)'
    BY <1>1, <1>4, DueIs DEF IInv
  <2>2. overlaps'[c] = overlaps[c] + 1
    BY <1>1, <1>6 DEF Begins, IInv, TypeOK
  <2> QED BY <1>1, <1>2, <1>3, <2>1, <2>2 DEF Budget, BudgetNumbers
<1> QED BY <1>5, <1>6

(***************************************************************************)
(* A mail that goes out was among those sent for; the status moves on for  *)
(* it exactly if it was fresh.  A send that raises costs a fault.          *)
(***************************************************************************)
LEMMA SentBudget ==
    ASSUME IInv, IInv', NEW p \in Pass, NEW c \in stored, c = current[p], Sent(p),
           mails[c] + Cardinality(Senders(c)) <= Budget(c)
    PROVE  mails'[c] + Cardinality(Senders(c)') <= Budget(c)'
<1>1. /\ c \in Campaign
      /\ p \in Senders(c) /\ Senders(c)' = Senders(c) \ {p}
      /\ Cardinality(Senders(c)') = Cardinality(Senders(c)) - 1
      /\ \A q \in Senders(c)' : pc'[q] = pc[q]
  BY OneSenderLess
<1>2. BudgetNumbers(c) /\ BudgetNumbers(c)'
  BY <1>1, Numbers, NumbersNext DEF IInv
<1>3. mails'[c] = mails[c] + 1 /\ faults' = faults /\ overlaps' = overlaps
  BY <1>1 DEF Sent, IInv, TypeOK
<1>4. Due(c) <= Due(c)'
  <2>1. CASE Accepts(c, pc[p])
    <3>1. status'[c] = pc[p]
      BY <1>1, <2>1 DEF Sent, UpdateStatus, IInv, TypeOK
    <3>2. \/ pc[p] = "follow_up_1" /\ status[c] = "outreach_sent"
          \/ pc[p] = "follow_up_2" /\ status[c] = "follow_up_1"
      <4>1. pc[p] \in Mail /\ status[c] \in Status /\ pc[p] \in Valid(status[c])
        BY <1>1, <2>1 DEF Accepts, Senders, IInv, TypeOK
      <4> QED BY <4>1 DEF Mail, Status, Valid
    <3>3. Stage(status'[c]) = Stage(status[c]) + 1
      BY <3>1, <3>2 DEF Stage
    <3> QED BY <1>1, <3>3, DueIs, DueIsNext DEF IInv
  <2>2. CASE ~Accepts(c, pc[p])
    <3>1. status'[c] = status[c]
      BY <1>1, <2>2 DEF Sent, UpdateStatus
    <3>2. ~Fresh(c, p)
      BY <2>2 DEF Fresh, Accepts, Valid
    <3>3. (\E q \in Senders(c) : Fresh(c, q)) <=> (\E q \in Senders(c) : Fresh(c, q))'
      BY <1>1, <3>1, <3>2 DEF Fresh
    <3>4. Due(c)' = Due(c)
      BY <3>1, <3>3 DEF Due
    <3> QED BY <1>1, <3>4, DueIs DEF IInv
  <2> QED BY <2>1, <2>2
<1> QED BY <1>1, <1>2, <1>3, <1>4 DEF Budget, BudgetNumbers

LEMMA RaiseBudget ==
    ASSUME IInv, IInv', NEW p \in Pass, NEW c, c = current[p], SendRaises(p),
           mails[c] + Cardinality(Senders(c)) <= Budget(c)
    PROVE  mails'[c] + Cardinality(Senders(c)') <= Budget(c)'
<1>1. /\ c \in Campaign
      /\ Cardinality(Senders(c)') = Cardinality(Senders(c)) - 1
  BY OneSenderLess
<1>2. BudgetNumbers(c) /\ BudgetNumbers(c)'
  BY <1>1, Numbers, NumbersNext DEF IInv
<1>3. mails'[c] <= mails[c] + 1 /\ faults' = faults + 1 /\ overlaps' = overlaps
  BY <1>1 DEF SendRaises, IInv, TypeOK
<1>4. status'[c] = status[c]
  BY DEF SendRaises, campaignVars
<1>5. Due(c) <= Due(c)' + 1
  BY <1>1, <1>4, DueIs, DueIsNext DEF IInv
<1> QED BY <1>1, <1>2, <1>3, <1>5 DEF Budget, BudgetNumbers

(***************************************************************************)
(* The budget holds in every reachable state.                              *)
(***************************************************************************)
LEMMA Budgeted == Spec => []MailsBudgeted
<1>1. Init => MailsBudgeted
  <2> SUFFICES ASSUME Init, NEW c \in stored
               PROVE  mails[c] + Cardinality(Senders(c)) <= Budget(c)
    BY DEF MailsBudgeted
  <2>1. Senders(c) = {} /\ c \in Campaign
    BY DEF Init, Senders, Mail
  <2>2. mails[c] = 0 /\ faults = 0 /\ overlaps[c] = 0 /\ Cardinality(Senders(c)) = 0
    BY <2>1, SendersFinite DEF Init
  <2>3. Due(c) \in Nat
    BY <2>1, InitIInv, DueIs DEF IInv
  <2> QED BY <2>2, <2>3 DEF Budget
<1>2. IInv /\ IInv' /\ MailsBudgeted /\ [Next]_vars => MailsBudgeted'
  <2> SUFFICES ASSUME IInv, IInv', MailsBudgeted, [Next]_vars, NEW c \in stored'
               PROVE  mails'[c] + Cardinality(Senders(c)') <= Budget(c)'
    BY DEF MailsBudgeted
  <2>1. c \in stored /\ c \in Campaign /\ mails[c] + Cardinality(Senders(c)) <= Budget(c)
    BY StepIs DEF MailsBudgeted, IInv, TypeOK
  <2>2. CASE Quiet(c)
    BY <2>1, <2>2, QuietBudget DEF IInv
  <2>3. ASSUME NEW p \in Pass, c = current[p], Begins(p) \/ Sent(p) \/ SendRaises(p)
        PROVE  mails'[c] + Cardinality(Senders(c)') <= Budget(c)'
    <3>1. CASE Begins(p)
      BY <2>1, <2>3, <3>1, BeginBudget
    <3>2. CASE Sent(p)
      BY <2>1, <2>3, <3>2, SentBudget
    <3>3. CASE SendRaises(p)
      BY <2>1, <2>3, <3>3, RaiseBudget
    <3> QED BY <2>3, <3>1, <3>2, <3>3
  <2> QED BY <2>2, <2>3, StepIs
<1> QED BY <1>1, <1>2, Invariance, PTL DEF Spec

(***************************************************************************)
(* No prospect gets a third follow-up, except for failed calls and sends   *)
(* that overlapped.                                                        *)
(***************************************************************************)
THEOREM AtMostTwo == Spec => []TwoFollowUps
<1>1. IInv /\ MailsBudgeted => TwoFollowUps
  <2> SUFFICES ASSUME IInv, MailsBudgeted, NEW c \in stored
               PROVE  mails[c] <= 2 + faults + overlaps[c]
    BY DEF TwoFollowUps
  <2>1. c \in Campaign /\ BudgetNumbers(c) /\ Due(c) <= 2
    BY Numbers, DueIs DEF IInv, TypeOK
  <2>2. mails[c] + Cardinality(Senders(c)) <= Due(c) + faults + overlaps[c]
    BY DEF MailsBudgeted, Budget
  <2> QED BY <2>1, <2>2 DEF BudgetNumbers
<1> QED BY <1>1, Invariance, Budgeted, PTL

(***************************************************************************)
(* What a campaign looks like whose calls never failed and whose sends     *)
(* never overlapped: one sender at most, with the mail its status and its  *)
(* days call for.  Nobody sends to a campaign whose first mail is not out. *)
(***************************************************************************)
Calm(c) == faults = 0 /\ overlaps[c] = 0
InTurn(c, p) ==
    \/ pc[p] = "follow_up_1" /\ mails[c] = 0 /\ age[c] >= Days1
    \/ pc[p] = "follow_up_2" /\ mails[c] = 1 /\ age[c] >= Days2
CalmlySpaced(c) ==
    /\ \A p, q \in Senders(c) : p = q
    /\ \A p \in Senders(c) : InTurn(c, p)
    /\ status[c] \in {"prospecting", "outreach_sent"} => mails[c] = 0
    /\ status[c] = "follow_up_1" => mails[c] = 1

Spaced == \A c \in stored : Calm(c) => CalmlySpaced(c)
Begun == \A p \in Pass : pc[p] \in Mail => status[current[p]] # "prospecting"

(***************************************************************************)
(* No change of status is back to prospecting.                             *)
(***************************************************************************)
LEMMA NeverProspecting ==
    ASSUME IInv, NEW c \in Campaign, NEW new \in Status, UpdateStatus(c, new)
    PROVE  \A x \in Campaign : status'[x] = status[x] \/ status'[x] # "prospecting"
<1>1. \A s \in Status : "prospecting" \notin Valid(s)
  BY DEF Status, Valid
<1> QED BY <1>1, UpdateMoves DEF IInv, TypeOK

(***************************************************************************)
(* A campaign that is prospecting is not sent follow-ups to.               *)
(***************************************************************************)
LEMMA BegunStep == IInv /\ IInv' /\ Begun /\ [Next]_vars => Begun'
<1> SUFFICES ASSUME IInv, IInv', Begun, [Next]_vars, NEW q \in Pass, pc'[q] \in Mail
             PROVE  status'[current'[q]] # "prospecting"
  BY DEF Begun
<1>1. /\ current'[q] = current[q] /\ current[q] \in Campaign
      /\ status[current[q]] # "prospecting"
  <2>1. ASSUME NEW p \in Pass, RunPass(p) \/ SendRaises(p)
        PROVE  /\ current'[q] = current[q]
               /\ \/ pc[q] \in Mail
                  \/ pc[q] = "checking" /\ NextMail(current[q]) # "none"
    <3>1. CASE q = p
      BY <2>1, <3>1
         DEF RunPass, StartPass, EndPass, Visit, SeeReply, GoOn, Sent, SendRaises,
             NextCampaign, Mail, IInv, TypeOK
    <3>2. CASE q # p
      BY <2>1, <3>2
         DEF RunPass, StartPass, EndPass, Visit, SeeReply, GoOn, Sent, SendRaises,
             NextCampaign, Mail, IInv, TypeOK
    <3> QED BY <3>1, <3>2
  <2>2. (~\E p \in Pass : RunPass(p) \/ SendRaises(p)) => UNCHANGED <<pc, current>>
    BY DEF Next, Others, SendOutreach, Decide, Delete, VerifyLive, VerifyFails, Reply,
           DayPasses, passVars, vars
  <2>3. current[q] \in Campaign
    BY <2>1, <2>2 DEF IInv, Visiting, Mail
  <2>4. NextMail(current[q]) # "none" => status[current[q]] # "prospecting"
    BY DEF NextMail
  <2> QED BY <2>1, <2>2, <2>3, <2>4 DEF Begun
<1>2. \/ UNCHANGED status
      \/ \E c \in Campaign, new \in Status : UpdateStatus(c, new)
  BY StatusSteps DEF IInv
<1> QED BY <1>1, <1>2, NeverProspecting

(***************************************************************************)
(* Quiet steps, beginning to send and sending keep the order of a calm     *)
(* campaign; a send that raises ends the calm.                             *)
(***************************************************************************)
LEMMA QuietSpaced ==
    ASSUME IInv, IInv', Begun, NEW c \in stored, Quiet(c), Calm(c) => CalmlySpaced(c), Calm(c)'
    PROVE  CalmlySpaced(c)'
<1>1. c \in Campaign /\ faults \in Nat /\ faults' = 0 /\ age[c] \in Nat /\ age'[c] \in Nat
  BY FollowUpsAssumption DEF IInv, TypeOK, Calm, Cap
<1>2. Calm(c)
  BY <1>1 DEF Calm, Quiet
<1>3. \A p \in Senders(c) : InTurn(c, p)'
  <2> SUFFICES ASSUME NEW p \in Senders(c) PROVE InTurn(c, p)'
    OBVIOUS
  <2>1. InTurn(c, p) /\ status[c] # "prospecting"
    BY <1>2 DEF CalmlySpaced, Begun, Senders
  <2>2. age'[c] >= age[c] /\ mails'[c] = mails[c] /\ pc'[p] = pc[p]
    BY <2>1 DEF Quiet
  <2> QED BY FollowUpsAssumption, <1>1, <2>1, <2>2 DEF InTurn
<1>4. /\ Senders(c)' = Senders(c)
      /\ mails'[c] = mails[c]
      /\ \/ status'[c] = status[c]
         \/ status[c] = "prospecting" /\ status'[c] = "outreach_sent"
         \/ status'[c] \in {"negotiating", "acquired", "dead"}
  BY DEF Quiet
<1> QED BY <1>2, <1>3, <1>4 DEF CalmlySpaced

LEMMA BeginSpaced ==
    ASSUME IInv, IInv', NEW c \in stored, NEW p \in Pass, c = current[p], Begins(p),
           Calm(c) => CalmlySpaced(c), Calm(c)'
    PROVE  CalmlySpaced(c)'
<1>1. c \in Campaign /\ Senders(c)' = Senders(c) \cup {p} /\ (Sending(c) <=> Senders(c) # {})
  BY OneSenderMore
<1>2. faults \in Nat /\ faults' = 0 /\ overlaps[c] \in Nat /\ overlaps'[c] = 0
  BY <1>1, FollowUpsAssumption DEF IInv, TypeOK, Calm
<1>3. Senders(c) = {} /\ Calm(c)
  <2>1. ~Sending(c) /\ overlaps[c] = 0
    BY <1>1, <1>2 DEF Begins, IInv, TypeOK
  <2> QED BY <1>1, <1>2, <2>1 DEF Begins, Calm
<1>4. pc'[p] = NextMail(c) /\ NextMail(c) # "none" /\ UNCHANGED <<mails, age, status>>
  BY DEF Begins, IInv, TypeOK
<1>5. InTurn(c, p)'
  <2>1. InTurn(c, p)' <=> \/ pc'[p] = "follow_up_1" /\ mails[c] = 0 /\ age[c] >= Days1
                          \/ pc'[p] = "follow_up_2" /\ mails[c] = 1 /\ age[c] >= Days2
    BY <1>4 DEF InTurn
  <2> QED BY <1>3, <1>4, <2>1 DEF CalmlySpaced, NextMail
<1>6. Senders(c)' = {p}
  BY <1>1, <1>3
<1> QED BY <1>3, <1>4, <1>5, <1>6 DEF CalmlySpaced

LEMMA SentSpaced ==
    ASSUME IInv, IInv', Begun, NEW c \in stored, NEW p \in Pass, c = current[p], Sent(p),
           Calm(c) => CalmlySpaced(c), Calm(c)'
    PROVE  CalmlySpaced(c)'
<1>1. c \in Campaign /\ p \in Senders(c) /\ Senders(c)' = Senders(c) \ {p}
  BY OneSenderLess
<1>2. CalmlySpaced(c)
  BY DEF Sent, Calm
<1>3. Senders(c)' = {}
  BY <1>1, <1>2 DEF CalmlySpaced
<1>4. mails'[c] = mails[c] + 1 /\ mails[c] \in Nat
  BY <1>1 DEF Sent, IInv, TypeOK
<1>5. status[c] \notin {"prospecting"}
  BY <1>1 DEF Begun, Senders
<1>6. \/ pc[p] = "follow_up_1" /\ mails[c] = 0
      \/ pc[p] = "follow_up_2" /\ mails[c] = 1
  BY <1>1, <1>2 DEF CalmlySpaced, InTurn
<1>7. /\ pc[p] \in Valid(status[c]) => status'[c] = pc[p]
      /\ pc[p] \notin Valid(status[c]) => status'[c] = status[c]
  BY <1>1 DEF Sent, UpdateStatus, Accepts, IInv, TypeOK
<1>8. /\ status[c] = "outreach_sent" => "follow_up_1" \in Valid(status[c])
      /\ status[c] = "follow_up_1" => "follow_up_2" \in Valid(status[c])
  BY DEF Valid
<1>9. /\ status'[c] \notin {"prospecting", "outreach_sent"}
      /\ status'[c] = "follow_up_1" => mails'[c] = 1
  BY <1>2, <1>4, <1>5, <1>6, <1>7, <1>8 DEF CalmlySpaced
<1> QED BY <1>3, <1>9 DEF CalmlySpaced

LEMMA SpacedStep == IInv /\ IInv' /\ Begun /\ Spaced /\ [Next]_vars => Spaced'
<1> SUFFICES ASSUME IInv, IInv', Begun, Spaced, [Next]_vars, NEW c \in stored', Calm(c)'
             PROVE  CalmlySpaced(c)'
  BY DEF Spaced
<1>1. c \in stored /\ (Calm(c) => CalmlySpaced(c))
  BY StepIs DEF Spaced
<1>2. CASE Quiet(c)
  BY <1>1, <1>2, QuietSpaced
<1>3. ASSUME NEW p \in Pass, c = current[p], Begins(p) \/ Sent(p) \/ SendRaises(p)
      PROVE  CalmlySpaced(c)'
  <2>1. ~SendRaises(p)
    BY FollowUpsAssumption DEF SendRaises, Calm, IInv, TypeOK
  <2> QED BY <1>1, <1>3, <2>1, BeginSpaced, SentSpaced
<1> QED BY <1>2, <1>3, StepIs

(***************************************************************************)
(* Without failures and overlaps, a first follow-up goes out Days1 or more *)
(* after the first mail, and the second Days2 after the first.             *)
(***************************************************************************)
THEOREM FollowUpsAreSpaced == Spec => MailsAreSpaced
<1>1. Init => Begun /\ Spaced
  BY DEF Init, Begun, Spaced, Calm, CalmlySpaced, Senders, Mail
<1>2. IInv /\ IInv' /\ Spaced /\ [Next]_vars =>
        [\A c \in stored :
            (mails'[c] > mails[c] /\ faults = 0 /\ overlaps[c] = 0)
               => age[c] >= (IF mails[c] = 0 THEN Days1 ELSE Days2)]_vars
  <2> SUFFICES ASSUME IInv, IInv', Spaced, [Next]_vars, NEW c \in stored,
                      mails'[c] > mails[c], Calm(c)
               PROVE  age[c] >= (IF mails[c] = 0 THEN Days1 ELSE Days2)
    BY DEF Calm
  <2>0. c \in Campaign /\ mails[c] \in Nat
    BY DEF IInv, TypeOK
  <2>1. PICK p \in Pass : Sent(p) \/ SendRaises(p)
    <3>1. mails' # mails
      BY <2>0
    <3> QED BY <3>1 DEF Next, Others, SendOutreach, Decide, Delete, VerifyLive, VerifyFails,
                        Reply, DayPasses, historyVars, vars, RunPass, StartPass, EndPass,
                        Visit, SeeReply, GoOn
  <2>2. p \in Senders(c)
    <3>1. current[p] = c
      BY <2>0, <2>1 DEF Sent, SendRaises, IInv, TypeOK
    <3> QED BY <2>1, <3>1 DEF Sent, SendRaises, Senders
  <2>3. InTurn(c, p)
    BY <2>2 DEF Spaced, CalmlySpaced
  <2> QED BY <2>3 DEF InTurn
<1> QED BY <1>1, <1>2, BegunStep, SpacedStep, Invariance, PTL DEF Spec, MailsAreSpaced
==============================================================================
