--------------------------- MODULE RefreshFamilies ---------------------------
(***************************************************************************)
(* What the token service promises about refresh tokens (auth.py: rotate   *)
(* and SessionStore): a token is exchanged for one successor at most, the  *)
(* successor stays in its family, and a family in which a spent token was  *)
(* presented again issues nothing more and loses its live tokens.          *)
(***************************************************************************)
EXTENDS Naturals

CONSTANT MaxTokens   \* bound on the tokens ever issued

VARIABLES
    issued,       \* how many tokens have been issued
    live,         \* tokens that can still be exchanged
    owed,         \* tokens given up for a successor that is not issued yet
    familyOf,     \* the family of every issued token
    compromised   \* families in which a spent token was presented

vars == <<issued, live, owed, familyOf, compromised>>
Token == 1 .. MaxTokens

Init ==
    /\ issued = 0
    /\ live = {}
    /\ owed = {}
    /\ familyOf = [t \in Token |-> 0]
    /\ compromised = {}

Issue(f) ==
    /\ issued < MaxTokens
    /\ issued' = issued + 1
    /\ live' = live \cup {issued + 1}
    /\ familyOf' = [familyOf EXCEPT ![issued + 1] = f]

StartFamily ==
    /\ Issue(issued + 1)
    /\ UNCHANGED <<owed, compromised>>

GiveUp(t) ==
    /\ t \in live
    /\ familyOf[t] \notin compromised
    /\ live' = live \ {t}
    /\ owed' = owed \cup {t}
    /\ UNCHANGED <<issued, familyOf, compromised>>

Succeed(t) ==
    /\ t \in owed
    /\ familyOf[t] \notin compromised
    /\ owed' = owed \ {t}
    /\ Issue(familyOf[t])
    /\ UNCHANGED compromised

PresentSpent(t) ==
    /\ t \in (1 .. issued) \ (live \cup owed)
    /\ compromised' = compromised \cup {familyOf[t]}
    /\ UNCHANGED <<issued, live, owed, familyOf>>

(***************************************************************************)
(* A request fails half way.  The token it was exchanging may be spent or  *)
(* not, and of compromised families nothing is promised any more.          *)
(***************************************************************************)
Fail ==
    /\ owed' \in SUBSET owed
    /\ live' \in {live, live \cup (owed \ owed')}
    /\ compromised' = {}
    /\ UNCHANGED <<issued, familyOf>>

\* A live token expires, or its compromised family is being revoked.
Lose(t) ==
    /\ t \in live
    /\ live' = live \ {t}
    /\ UNCHANGED <<issued, owed, familyOf, compromised>>

Next ==
    \/ StartFamily
    \/ \E t \in Token : GiveUp(t) \/ Succeed(t) \/ PresentSpent(t) \/ Lose(t)
    \/ Fail

Spec == Init /\ [][Next]_vars
==============================================================================
