--------------------------- MODULE RefreshSessions ---------------------------
(***************************************************************************)
(* Rotating refresh tokens kept in Redis: TokenManager.issue and rotate    *)
(* over RedisSessionStore (auth.py).                                       *)
(*                                                                         *)
(* Every `await` on Redis ends a step, because any other request of the    *)
(* API may run there: rotate is read / put(used) / put(successor), and     *)
(* revoke_family is smembers followed by one get and one put per member.   *)
(* A handler works on the COPY of the session its get returned, and a put  *)
(* writes that whole copy back.                                            *)
(*                                                                         *)
(* Tokens are numbered in the order they are issued.  All tokens have the  *)
(* same lifetime, so they also expire in that order: `expired` = n says    *)
(* that tokens 1 .. n are past their expires_at.  The id of a family is    *)
(* the number of the token its login issued.                               *)
(***************************************************************************)
EXTENDS Naturals, FiniteSets

CONSTANTS
    Handler,     \* requests to POST /auth/refresh that may be in progress at once
    MaxTokens,   \* bound on the tokens ever issued
    MaxCrashes   \* bound on the handlers that die inside a request

ASSUME BoundsAssumption == MaxTokens \in Nat /\ MaxCrashes \in Nat
ASSUME HandlerAssumption == IsFiniteSet(Handler)

VARIABLES
    issued,    \* how many tokens have been issued
    expired,   \* how many of them have expired
    session,   \* Redis: token key -> RefreshSession, or NoSession
    index,     \* Redis: family key -> the set of its known tokens
    indexTtl,  \* the token whose put last set the TTL of the family key
    pc,        \* where each handler is
    held,      \* the token and the session copy each handler works on
    todo,      \* members a revocation pass has still to visit
    scanned,   \* history: what that pass read from the family key
    rotated,   \* history: every rotation, [by, from, to]
    familyOf,  \* history: the family each token was issued in
    reused,    \* history: the families a reuse was detected in
    crashes    \* how many handlers have died

storeVars == <<session, index, indexTtl>>
handlerVars == <<pc, held, todo, scanned>>
historyVars == <<rotated, familyOf, reused>>
vars == <<issued, expired, session, index, indexTtl, pc, held, todo, scanned,
          rotated, familyOf, reused, crashes>>

Token == 1 .. MaxTokens
Session == [family : 0 .. MaxTokens, used : BOOLEAN, revoked : BOOLEAN]
NoSession == [family |-> 0, used |-> FALSE, revoked |-> FALSE]
Fresh(f) == [family |-> f, used |-> FALSE, revoked |-> FALSE]
MarkUsed(s) == [family |-> s.family, used |-> TRUE, revoked |-> s.revoked]
MarkRevoked(s) == [family |-> s.family, used |-> s.used, revoked |-> TRUE]
NoToken == [token |-> 0, copy |-> NoSession]
Rotation == [by : Handler, from : Token, to : Token]
Stage == {"idle", "consume", "issue", "scan", "sweep", "sweepPut"}

TypeOK ==
    /\ issued \in 0 .. MaxTokens
    /\ expired \in 0 .. MaxTokens
    /\ expired <= issued
    /\ session \in [Token -> Session]
    /\ index \in [Token -> SUBSET Token]
    /\ indexTtl \in [Token -> 0 .. MaxTokens]
    /\ pc \in [Handler -> Stage]
    /\ held \in [Handler -> [token : 0 .. MaxTokens, copy : Session]]
    /\ todo \in [Handler -> SUBSET Token]
    /\ scanned \in [Handler -> SUBSET Token]
    /\ rotated \subseteq Rotation
    /\ familyOf \in [Token -> 0 .. MaxTokens]
    /\ reused \subseteq Token
    /\ crashes \in 0 .. MaxCrashes

(***************************************************************************)
(* A token is dead once rotate would refuse it whatever happens next.      *)
(***************************************************************************)
Dead(t) == t <= expired \/ session[t].used \/ session[t].revoked
Live(t) == t <= issued /\ ~Dead(t)

Init ==
    /\ issued = 0
    /\ expired = 0
    /\ session = [t \in Token |-> NoSession]
    /\ index = [f \in Token |-> {}]
    /\ indexTtl = [f \in Token |-> 0]
    /\ pc = [h \in Handler |-> "idle"]
    /\ held = [h \in Handler |-> NoToken]
    /\ todo = [h \in Handler |-> {}]
    /\ scanned = [h \in Handler |-> {}]
    /\ rotated = {}
    /\ familyOf = [t \in Token |-> 0]
    /\ reused = {}
    /\ crashes = 0

Goto(h, stage) == pc' = [pc EXCEPT ![h] = stage]

\* The request is over; what it held in local variables is gone.
Leave(h) ==
    /\ Goto(h, "idle")
    /\ held' = [held EXCEPT ![h] = NoToken]
    /\ todo' = [todo EXCEPT ![h] = {}]
    /\ scanned' = [scanned EXCEPT ![h] = {}]

(***************************************************************************)
(* Mutant of Put: the SADD of the family key is forgotten.                 *)
(***************************************************************************)
PutUnindexed(t, s) ==
    /\ session' = [session EXCEPT ![t] = s]
    /\ indexTtl' = [indexTtl EXCEPT ![s.family] = t]
    /\ UNCHANGED index

(***************************************************************************)
(* RedisSessionStore.put: one MULTI that writes the session, adds the      *)
(* token to its family key and gives that key the TTL of THIS token.       *)
(***************************************************************************)
Put(t, s) ==
    /\ session' = [session EXCEPT ![t] = s]
    /\ index' = [index EXCEPT ![s.family] = @ \cup {t}]
    /\ indexTtl' = [indexTtl EXCEPT ![s.family] = t]

(***************************************************************************)
(* register and login: issue() with no family_id starts a family.          *)
(***************************************************************************)
Login ==
    /\ issued < MaxTokens
    /\ issued' = issued + 1
    /\ Put(issued + 1, Fresh(issued + 1))
    /\ familyOf' = [familyOf EXCEPT ![issued + 1] = issued + 1]
    /\ UNCHANGED <<expired, handlerVars, rotated, reused, crashes>>

(***************************************************************************)
(* rotate reads the presented session.  One that is missing, revoked or    *)
(* expired is refused and changes nothing; one already used starts the     *)
(* revocation of its family; any other will be consumed.                   *)
(***************************************************************************)
Present(h, t) ==
    /\ pc[h] = "idle"
    /\ t \in 1 .. issued
    /\ t > expired
    /\ session[t] # NoSession
    /\ ~session[t].revoked
    /\ held' = [held EXCEPT ![h] = [token |-> t, copy |-> session[t]]]
    /\ Goto(h, IF session[t].used THEN "scan" ELSE "consume")
    /\ reused' = reused \cup (IF session[t].used THEN {session[t].family} ELSE {})
    /\ UNCHANGED <<issued, expired, storeVars, todo, scanned, rotated, familyOf, crashes>>

\* Mutant of Consume: the copy is put back without `used` set.
ConsumeUnmarked(h) ==
    /\ pc[h] = "consume"
    /\ Put(held[h].token, held[h].copy)
    /\ Goto(h, "issue")
    /\ UNCHANGED <<issued, expired, held, todo, scanned, historyVars, crashes>>

Consume(h) ==
    /\ pc[h] = "consume"
    /\ Put(held[h].token, MarkUsed(held[h].copy))
    /\ Goto(h, "issue")
    /\ UNCHANGED <<issued, expired, held, todo, scanned, historyVars, crashes>>

\* Mutant of IssueSuccessor: issue() is called without the family_id.
IssueStranger(h) ==
    /\ pc[h] = "issue"
    /\ issued < MaxTokens
    /\ issued' = issued + 1
    /\ Put(issued + 1, Fresh(issued + 1))
    /\ rotated' = rotated \cup {[by |-> h, from |-> held[h].token, to |-> issued + 1]}
    /\ familyOf' = [familyOf EXCEPT ![issued + 1] = issued + 1]
    /\ Leave(h)
    /\ UNCHANGED <<expired, reused, crashes>>

IssueSuccessor(h) ==
    /\ pc[h] = "issue"
    /\ issued < MaxTokens
    /\ issued' = issued + 1
    /\ Put(issued + 1, Fresh(held[h].copy.family))
    /\ rotated' = rotated \cup {[by |-> h, from |-> held[h].token, to |-> issued + 1]}
    /\ familyOf' = [familyOf EXCEPT ![issued + 1] = held[h].copy.family]
    /\ Leave(h)
    /\ UNCHANGED <<expired, reused, crashes>>

(***************************************************************************)
(* revoke_family: smembers, then get and put of each member.  The pass     *)
(* ends with rotate raising "token family revoked".                        *)
(***************************************************************************)
ScanFamily(h) ==
    /\ pc[h] = "scan"
    /\ todo' = [todo EXCEPT ![h] = index[held[h].copy.family]]
    /\ scanned' = [scanned EXCEPT ![h] = index[held[h].copy.family]]
    /\ Goto(h, "sweep")
    /\ UNCHANGED <<issued, expired, storeVars, held, historyVars, crashes>>

SweepGet(h, t) ==
    /\ pc[h] = "sweep"
    /\ t \in todo[h]
    /\ session[t] # NoSession
    /\ held' = [held EXCEPT ![h] = [token |-> t, copy |-> session[t]]]
    /\ Goto(h, "sweepPut")
    /\ UNCHANGED <<issued, expired, storeVars, todo, scanned, historyVars, crashes>>

SweepMissing(h, t) ==
    /\ pc[h] = "sweep"
    /\ t \in todo[h]
    /\ session[t] = NoSession
    /\ todo' = [todo EXCEPT ![h] = @ \ {t}]
    /\ UNCHANGED <<issued, expired, storeVars, pc, held, scanned, historyVars, crashes>>

\* Mutant of SweepPut: the copy is put back without `revoked` set.
SweepPutUnmarked(h) ==
    /\ pc[h] = "sweepPut"
    /\ Put(held[h].token, held[h].copy)
    /\ todo' = [todo EXCEPT ![h] = @ \ {held[h].token}]
    /\ Goto(h, "sweep")
    /\ UNCHANGED <<issued, expired, held, scanned, historyVars, crashes>>

SweepPut(h) ==
    /\ pc[h] = "sweepPut"
    /\ Put(held[h].token, MarkRevoked(held[h].copy))
    /\ todo' = [todo EXCEPT ![h] = @ \ {held[h].token}]
    /\ Goto(h, "sweep")
    /\ UNCHANGED <<issued, expired, held, scanned, historyVars, crashes>>

SweepEnd(h) ==
    /\ pc[h] = "sweep"
    /\ todo[h] = {}
    /\ Leave(h)
    /\ UNCHANGED <<issued, expired, storeVars, historyVars, crashes>>

(***************************************************************************)
(* The handler stops between two steps: its process dies, its connection   *)
(* to Redis fails, or the request is cancelled.                            *)
(***************************************************************************)
Crash(h) ==
    /\ pc[h] # "idle"
    /\ crashes < MaxCrashes
    /\ crashes' = crashes + 1
    /\ Leave(h)
    /\ UNCHANGED <<issued, expired, storeVars, historyVars>>

(***************************************************************************)
(* Time: the next token passes its expires_at, and Redis drops the keys    *)
(* whose TTL has run out.                                                  *)
(***************************************************************************)

ExpireToken ==
    /\ expired < issued
    /\ expired' = expired + 1
    /\ UNCHANGED <<issued, storeVars, handlerVars, historyVars, crashes>>

DropSession(t) ==
    /\ t <= expired
    /\ session[t] # NoSession
    /\ session' = [session EXCEPT ![t] = NoSession]
    /\ UNCHANGED <<issued, expired, index, indexTtl, handlerVars, historyVars, crashes>>

DropIndex(f) ==
    /\ index[f] # {}
    /\ indexTtl[f] <= expired
    /\ index' = [index EXCEPT ![f] = {}]
    /\ UNCHANGED <<issued, expired, session, indexTtl, handlerVars, historyVars, crashes>>

Rotate(h) ==
    \/ \E t \in Token : Present(h, t)
    \/ Consume(h)
    \/ IssueSuccessor(h)

RevokeFamily(h) ==
    \/ ScanFamily(h)
    \/ \E t \in Token : SweepGet(h, t) \/ SweepMissing(h, t)
    \/ SweepPut(h)
    \/ SweepEnd(h)

Time ==
    \/ ExpireToken
    \/ \E t \in Token : DropSession(t) \/ DropIndex(t)

Next ==
    \/ Login
    \/ \E h \in Handler : Rotate(h) \/ RevokeFamily(h) \/ Crash(h)
    \/ Time

Spec == Init /\ [][Next]_vars
(***************************************************************************)
(* Properties                                                              *)
(***************************************************************************)

(***************************************************************************)
(* No token has more successors than there are requests in progress at     *)
(* once: a put(used) that a concurrent revocation overwrites never lets    *)
(* the same request slot rotate a token twice.  With one handler this is   *)
(* "consume a refresh token once" (auth.py, rotate).                       *)
(***************************************************************************)
Successors(t) == {x \in rotated : x.from = t}
SuccessorBound == \A t \in Token : Cardinality(Successors(t)) <= Cardinality(Handler)

(***************************************************************************)
(* rotate issues one successor of a token, whatever runs beside it         *)
(* (auth.py:275).                                                          *)
(***************************************************************************)
ConsumedOnce == \A t \in Token : Cardinality(Successors(t)) <= 1

(***************************************************************************)
(* A token that was used, revoked or expired is never accepted again, even *)
(* though puts of stale copies clear its `used` and its `revoked` flag.    *)
(***************************************************************************)
DeadStaysDead ==
    [][\A t \in Token : (t <= issued /\ Dead(t)) => Dead(t)']_vars

(***************************************************************************)
(* When a revocation pass runs to its end, every member it read from the   *)
(* family key is dead, in spite of the rotations that ran beside it.       *)
(***************************************************************************)
SweepKillsScanned ==
    [][\A h \in Handler :
          (pc[h] = "sweep" /\ pc'[h] = "idle" /\ crashes' = crashes)
             => \A t \in scanned[h] : Dead(t)]_vars

(***************************************************************************)
(* A family has at most one token that rotate would accept.  (Requests are *)
(* served one at a time.)                                                  *)
(***************************************************************************)
OneLivePerFamily ==
    \A t, u \in 1 .. issued :
        (Live(t) /\ Live(u) /\ familyOf[t] = familyOf[u]) => t = u

(***************************************************************************)
(* Once a reuse has been answered, no member of the family is accepted     *)
(* (auth.py:77, and tests/unit/test_auth.py:22).  Not after a crash: a     *)
(* pass that died in the middle has set the TTL of the family key to that  *)
(* of an older member, and the next pass may find no family to visit.      *)
(***************************************************************************)
Revoking(f) ==
    \E h \in Handler : /\ pc[h] \in {"scan", "sweep", "sweepPut"}
                       /\ held[h].copy.family = f
ReusedFamilyIsDead ==
    crashes = 0 => \A f \in reused : ~Revoking(f) =>
        \A t \in 1 .. issued : familyOf[t] = f => Dead(t)

(***************************************************************************)
(* A family is sound: a thief and its victim never hold a live token each. *)
(***************************************************************************)
FamilyIsSound == OneLivePerFamily /\ ReusedFamilyIsDead

(***************************************************************************)
(* Served one request at a time, the Redis store keeps the promises of     *)
(* RefreshFamilies, of compromised families until a handler dies.  A       *)
(* rotation takes effect where it reads the token, which is then owed a    *)
(* successor.                                                              *)
(***************************************************************************)
Consuming == {h \in Handler : pc[h] \in {"consume", "issue"}}
Owed == {held[h].token : h \in Consuming}

Families == INSTANCE RefreshFamilies WITH
    live <- {t \in 1 .. issued : ~Dead(t)} \ Owed,
    owed <- Owed,
    compromised <- IF crashes = 0 THEN reused ELSE {}

ImplementsFamilies == Families!Spec
==============================================================================
