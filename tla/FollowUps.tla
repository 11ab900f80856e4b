------------------------------- MODULE FollowUps -------------------------------
(***************************************************************************)
(* Outreach campaigns and their follow-up e-mails: CampaignTracker and     *)
(* FollowUpEngine (agents/source_agents/backlink.py), with the Gmail       *)
(* client as it is used there.                                             *)
(*                                                                         *)
(* A pass of process_followups lists the campaigns that are due and visits *)
(* them one by one.  It awaits Gmail twice for each, for replies and for   *)
(* the send; meanwhile users, link verification and other passes change    *)
(* the same Campaign objects.                                              *)
(***************************************************************************)
EXTENDS Naturals, FiniteSets

CONSTANTS
    Campaign,
    Pass,         \* runs of process_followups that may overlap
    None,         \* no campaign
    Days1,        \* followup_1_days
    Days2,        \* followup_2_days
    DaysFinal,    \* final_days
    MaxFaults     \* bound on failed Gmail calls

ASSUME FollowUpsAssumption ==
    /\ Days1 \in Nat \ {0} /\ Days2 \in Nat \ {0} /\ DaysFinal \in Nat \ {0}
    /\ MaxFaults \in Nat
    /\ None \notin Campaign
    /\ IsFiniteSet(Pass)

VARIABLES
    status,      \* Campaign.status
    stored,      \* the campaigns CampaignTracker still has
    age,         \* days since the last e-mail (sent_at, last_email_sent_at)
    dueIn,       \* days until next_followup_at
    failed,      \* Campaign.verification_failures
    replied,     \* Gmail: the thread has a reply newer than the last e-mail
    pc,          \* where each pass is; the name of the mail while it is sent
    queue,       \* the campaigns it has still to visit
    current,     \* the campaign it visits
    mails,       \* history: follow-ups that reached each prospect
    overlaps,    \* history: sends begun while another pass was sending
    faults       \* how many Gmail calls have failed

vars == <<status, stored, age, dueIn, failed, replied, pc, queue, current, mails,
          overlaps, faults>>
campaignVars == <<status, age, dueIn>>
passVars == <<pc, queue, current>>
historyVars == <<mails, overlaps>>

Cap == Days1 + Days2 + DaysFinal   \* more days make no difference
Status == {"prospecting", "outreach_sent", "follow_up_1", "follow_up_2",
           "negotiating", "acquired", "dead"}

TypeOK ==
    /\ status \in [Campaign -> Status]
    /\ stored \subseteq Campaign
    /\ age \in [Campaign -> 0 .. Cap]
    /\ dueIn \in [Campaign -> 0 .. Cap]
    /\ failed \in [Campaign -> 0 .. 3]
    /\ replied \in [Campaign -> BOOLEAN]
    /\ pc \in [Pass -> {"idle", "next", "checking", "follow_up_1", "follow_up_2"}]
    /\ queue \in [Pass -> SUBSET Campaign]
    /\ current \in [Pass -> Campaign \cup {None}]
    /\ mails \in [Campaign -> Nat]
    /\ overlaps \in [Campaign -> Nat]
    /\ faults \in 0 .. MaxFaults

Init ==
    /\ status = [c \in Campaign |-> "prospecting"]
    /\ stored = Campaign
    /\ age = [c \in Campaign |-> 0]
    /\ dueIn = [c \in Campaign |-> 0]
    /\ failed = [c \in Campaign |-> 0]
    /\ replied = [c \in Campaign |-> FALSE]
    /\ pc = [p \in Pass |-> "idle"]
    /\ queue = [p \in Pass |-> {}]
    /\ current = [p \in Pass |-> None]
    /\ mails = [c \in Campaign |-> 0]
    /\ overlaps = [c \in Campaign |-> 0]
    /\ faults = 0

(***************************************************************************)
(* update_status: the transitions the tracker accepts of a stored campaign *)
(***************************************************************************)
Valid(from) ==
    CASE from = "prospecting"   -> {"outreach_sent", "dead"}
      [] from = "outreach_sent" -> {"follow_up_1", "negotiating", "dead"}
      [] from = "follow_up_1"   -> {"follow_up_2", "negotiating", "dead"}
      [] from = "follow_up_2"   -> {"negotiating", "dead"}
      [] from = "negotiating"   -> {"acquired", "dead"}
      [] from \in {"acquired", "dead"} -> {"dead"}

\* Mutant of Accepts: the new status is not validated.
AcceptsAny(c, new) == c \in stored

Accepts(c, new) == c \in stored /\ new \in Valid(status[c])

UpdateStatus(c, new) ==
    status' = IF Accepts(c, new) THEN [status EXCEPT ![c] = new] ELSE status

(***************************************************************************)
(* Callers outside the engine: the first e-mail, a user's decision, a      *)
(* deletion.                                                               *)
(***************************************************************************)
SendOutreach(c) ==
    /\ status[c] = "prospecting"
    /\ Accepts(c, "outreach_sent")
    /\ UpdateStatus(c, "outreach_sent")
    /\ age' = [age EXCEPT ![c] = 0]
    /\ dueIn' = [dueIn EXCEPT ![c] = Days1]
    /\ UNCHANGED <<stored, failed, replied, passVars, historyVars, faults>>

Decide(c, new) ==
    /\ new \in {"negotiating", "acquired", "dead"}
    /\ UpdateStatus(c, new)
    /\ UNCHANGED <<stored, age, dueIn, failed, replied, passVars, historyVars, faults>>

Delete(c) ==
    /\ c \in stored
    /\ stored' = stored \ {c}
    /\ UNCHANGED <<campaignVars, failed, replied, passVars, historyVars, faults>>

(***************************************************************************)
(* verify_link: a live link is acquired if the tracker accepts it; the     *)
(* third failed verification is the end of the campaign.                   *)
(***************************************************************************)
VerifyLive(c) ==
    /\ c \in stored
    /\ UpdateStatus(c, "acquired")
    /\ UNCHANGED <<stored, age, dueIn, failed, replied, passVars, historyVars, faults>>

VerifyFails(c) ==
    /\ c \in stored
    /\ failed' = [failed EXCEPT ![c] = IF @ < 3 THEN @ + 1 ELSE 3]   \* 3 and more
    /\ IF failed[c] >= 2 THEN UpdateStatus(c, "dead") ELSE UNCHANGED status
    /\ UNCHANGED <<stored, age, dueIn, replied, passVars, historyVars, faults>>

Reply(c) ==
    /\ status[c] # "prospecting"
    /\ ~replied[c]
    /\ replied' = [replied EXCEPT ![c] = TRUE]
    /\ UNCHANGED <<stored, campaignVars, failed, passVars, historyVars, faults>>

DayPasses ==
    /\ age' = [c \in Campaign |-> IF age[c] < Cap THEN age[c] + 1 ELSE Cap]
    /\ dueIn' = [c \in Campaign |-> IF dueIn[c] > 0 THEN dueIn[c] - 1 ELSE 0]
    /\ UNCHANGED <<status, stored, failed, replied, passVars, historyVars, faults>>

(***************************************************************************)
(* process_followups: the list is made once, when the pass starts.         *)
(***************************************************************************)
NeedsFollowUp(c) ==
    /\ c \in stored
    /\ status[c] \in {"outreach_sent", "follow_up_1", "follow_up_2"}
    /\ dueIn[c] = 0

StartPass(p) ==
    /\ pc[p] = "idle"
    /\ \E c \in Campaign : NeedsFollowUp(c)
    /\ queue' = [queue EXCEPT ![p] = {c \in Campaign : NeedsFollowUp(c)}]
    /\ pc' = [pc EXCEPT ![p] = "next"]
    /\ UNCHANGED <<stored, campaignVars, failed, replied, current, historyVars, faults>>

EndPass(p) ==
    /\ pc[p] = "next"
    /\ queue[p] = {}
    /\ pc' = [pc EXCEPT ![p] = "idle"]
    /\ UNCHANGED <<stored, campaignVars, failed, replied, queue, current, historyVars, faults>>

Visit(p, c) ==
    /\ pc[p] = "next"
    /\ c \in queue[p]
    /\ queue' = [queue EXCEPT ![p] = @ \ {c}]
    /\ current' = [current EXCEPT ![p] = c]
    /\ pc' = [pc EXCEPT ![p] = "checking"]
    /\ UNCHANGED <<stored, campaignVars, failed, replied, historyVars, faults>>

NextCampaign(p) ==
    /\ pc' = [pc EXCEPT ![p] = "next"]
    /\ current' = [current EXCEPT ![p] = None]
    /\ UNCHANGED queue

SeeReply(p) ==
    /\ pc[p] = "checking"
    /\ replied[current[p]]
    /\ UpdateStatus(current[p], "negotiating")
    /\ NextCampaign(p)
    /\ UNCHANGED <<stored, age, dueIn, failed, replied, historyVars, faults>>

(***************************************************************************)
(* No reply was seen, or the check failed: what is to do next depends on   *)
(* the status and the dates as they are now.                               *)
(***************************************************************************)
\* Mutants of NextMail: the days since the last e-mail are not looked at; a campaign
\* in its second follow-up gets another one.

NextMailAnyDay(c) ==
    IF status[c] = "outreach_sent" THEN "follow_up_1"
    ELSE IF status[c] = "follow_up_1" THEN "follow_up_2"
    ELSE "none"

NextMailRepeated(c) ==
    IF status[c] = "outreach_sent" /\ age[c] >= Days1 THEN "follow_up_1"
    ELSE IF status[c] \in {"follow_up_1", "follow_up_2"} /\ age[c] >= Days2 THEN "follow_up_2"
    ELSE "none"

NextMail(c) ==
    IF status[c] = "outreach_sent" /\ age[c] >= Days1 THEN "follow_up_1"
    ELSE IF status[c] = "follow_up_1" /\ age[c] >= Days2 THEN "follow_up_2"
    ELSE "none"

\* Mutant of GivenUp: the campaign is never closed.
GivenUpNever(c) == FALSE

GivenUp(c) == status[c] = "follow_up_2" /\ age[c] >= DaysFinal

Mail == {"follow_up_1", "follow_up_2"}
Sending(c) == \E p \in Pass : pc[p] \in Mail /\ current[p] = c

GoOn(p) ==
    LET c == current[p] IN
    /\ pc[p] = "checking"
    /\ \/ ~replied[c] /\ UNCHANGED faults
       \/ faults < MaxFaults /\ faults' = faults + 1
    /\ \/ /\ NextMail(c) # "none"
          /\ overlaps' = [overlaps EXCEPT ![c] = IF Sending(c) THEN @ + 1 ELSE @]
          /\ pc' = [pc EXCEPT ![p] = NextMail(c)]
          /\ UNCHANGED <<status, queue, current>>
       \/ /\ NextMail(c) = "none"
          /\ IF GivenUp(c) THEN UpdateStatus(c, "dead") ELSE UNCHANGED status
          /\ NextCampaign(p)
          /\ UNCHANGED overlaps
    /\ UNCHANGED <<stored, age, dueIn, failed, replied, mails>>

(***************************************************************************)
(* _send_followup: the mail is out; the new status and dates are set if    *)
(* the tracker still accepts them; the next check asks for replies since   *)
(* then.  A send that raises changes nothing, whether or not the mail went *)
(* out.                                                                    *)
(***************************************************************************)
Sent(p) ==
    LET c == current[p] IN
    /\ pc[p] \in Mail
    /\ mails' = [mails EXCEPT ![c] = @ + 1]
    /\ UpdateStatus(c, pc[p])
    /\ IF Accepts(c, pc[p])
         THEN /\ age' = [age EXCEPT ![c] = 0]
              /\ dueIn' = [dueIn EXCEPT ![c] =
                             IF pc[p] = "follow_up_2" THEN DaysFinal ELSE Days2]
              /\ replied' = [replied EXCEPT ![c] = FALSE]
         ELSE UNCHANGED <<age, dueIn, replied>>
    /\ NextCampaign(p)
    /\ UNCHANGED <<stored, failed, overlaps, faults>>


SendRaises(p) ==
    /\ pc[p] \in Mail
    /\ faults < MaxFaults
    /\ faults' = faults + 1
    /\ mails' \in {mails, [mails EXCEPT ![current[p]] = @ + 1]}
    /\ NextCampaign(p)
    /\ UNCHANGED <<stored, campaignVars, failed, replied, overlaps>>

RunPass(p) ==
    \/ StartPass(p)
    \/ EndPass(p)
    \/ \E c \in Campaign : Visit(p, c)
    \/ SeeReply(p)
    \/ GoOn(p)
    \/ Sent(p)

Others(c) ==
    \/ SendOutreach(c)
    \/ \E new \in Status : Decide(c, new)
    \/ Delete(c)
    \/ VerifyLive(c) \/ VerifyFails(c)
    \/ Reply(c)

Next ==
    \/ \E p \in Pass : RunPass(p) \/ SendRaises(p)
    \/ \E c \in Campaign : Others(c)
    \/ DayPasses

(***************************************************************************)
(* Days pass, Gmail answers, and whoever schedules process_followups does  *)
(* so again and again.                                                     *)
(***************************************************************************)
Fairness ==
    /\ WF_vars(DayPasses)
    /\ \A p \in Pass : WF_vars(RunPass(p))

Spec == Init /\ [][Next]_vars /\ Fairness

(***************************************************************************)
(* Properties                                                              *)
(***************************************************************************)

(***************************************************************************)
(* A prospect gets two follow-ups; one more only for a Gmail call that     *)
(* failed, or a send that overlapped another to the same prospect          *)
(* (FollowUpEngine).  Campaigns deleted during a pass are excepted.        *)
(***************************************************************************)
TwoFollowUps ==
    \A c \in stored : mails[c] <= 2 + faults + overlaps[c]

(***************************************************************************)
(* The status of a campaign is backed by mails: follow_up_n means that n   *)
(* follow-ups have gone out.                                               *)
(***************************************************************************)
StatusIsBacked ==
    \A c \in Campaign :
        /\ status[c] = "follow_up_1" => mails[c] >= 1
        /\ status[c] = "follow_up_2" => mails[c] >= 2

(***************************************************************************)
(* However passes, users and verifications interleave, a campaign never    *)
(* goes back to an earlier status (CampaignTracker).                       *)
(***************************************************************************)
Rank(s) ==
    CASE s = "prospecting" -> 0 [] s = "outreach_sent" -> 1 [] s = "follow_up_1" -> 2
      [] s = "follow_up_2" -> 3 [] s = "negotiating" -> 4 [] s = "acquired" -> 5
      [] s = "dead" -> 6
NeverBack == [][\A c \in Campaign : Rank(status[c]) <= Rank(status'[c])]_vars

(***************************************************************************)
(* Follow-ups keep their distance: the first comes Days1 after the first   *)
(* mail, the second Days2 after the first, unless a call failed or sends   *)
(* overlapped.                                                             *)
(***************************************************************************)
MailsAreSpaced ==
    [][\A c \in stored :
          (mails'[c] > mails[c] /\ faults = 0 /\ overlaps[c] = 0)
             => age[c] >= (IF mails[c] = 0 THEN Days1 ELSE Days2)]_vars

(***************************************************************************)
(* A campaign whose first mail is out comes to an end.                     *)
(***************************************************************************)
CampaignEnds ==
    \A c \in Campaign :
        (status[c] = "outreach_sent")
            ~> (status[c] \in {"negotiating", "acquired", "dead"} \/ c \notin stored)
==============================================================================
