-------------------------------- MODULE Accounts --------------------------------
(***************************************************************************)
(* Registration, login and removal of users with the two stores of the     *)
(* API: MemoryStore (store.py) does each under a lock or without an await, *)
(* PostgresStore (postgres_store.py) asks Redis for the email, commits the *)
(* tenant and its owner, and then writes the email to Redis.               *)
(***************************************************************************)
EXTENDS Integers, FiniteSets

CONSTANTS
    Signup,        \* calls of register; the account one creates has its name
    Email,
    NoAccount

ASSUME AccountAssumption == NoAccount \notin Signup

VARIABLES
    postgres,      \* which store it is
    email,         \* of a call: the email it is about
    at,            \* of a call: where it is
    users,         \* accounts that are stored and not removed
    identity       \* email -> the account it stands for

accountVars == <<postgres, email, at, users, identity>>

AccountsInit ==
    /\ postgres \in BOOLEAN
    /\ email \in [Signup -> Email]
    /\ at = [s \in Signup |-> "idle"] /\ users = {}
    /\ identity = [e \in Email |-> NoAccount]

Now(s, where) == at' = [at EXCEPT ![s] = where]

\* MemoryStore.register
RegisterInMemory(s) ==
    /\ ~postgres /\ at[s] = "idle"
    /\ IF identity[email[s]] # NoAccount
       THEN Now(s, "refused") /\ UNCHANGED <<users, identity>>
       ELSE /\ Now(s, "stored") /\ users' = users \cup {s}
            /\ identity' = [identity EXCEPT ![email[s]] = s]
    /\ UNCHANGED <<postgres, email>>

\* PostgresStore.register, one action per round trip.
CheckEmail(s) ==
    /\ postgres /\ at[s] = "idle"
    /\ Now(s, IF identity[email[s]] # NoAccount THEN "refused" ELSE "free")
    /\ UNCHANGED <<postgres, email, users, identity>>

CommitTenant(s) ==
    /\ at[s] = "free"
    /\ Now(s, "committed") /\ users' = users \cup {s}
    /\ UNCHANGED <<postgres, email, identity>>

\* Mutant of WriteIdentity: the email is not written.
WriteNoIdentity(s) ==
    /\ at[s] = "committed" /\ Now(s, "stored")
    /\ UNCHANGED <<postgres, email, users, identity>>

WriteIdentity(s) ==
    /\ at[s] = "committed"
    /\ Now(s, "stored") /\ identity' = [identity EXCEPT ![email[s]] = s]
    /\ UNCHANGED <<postgres, email, users>>

\* The register endpoint answers 201 once it has issued tokens; a round trip, or the
\* process, may fail before that.
Registered(s) ==
    /\ at[s] = "stored"
    /\ Now(s, "registered")
    /\ UNCHANGED <<postgres, email, users, identity>>

SignupFails(s) ==
    /\ at[s] \in {"free", "committed", "stored"}
    /\ Now(s, "failed")
    /\ UNCHANGED <<postgres, email, users, identity>>

\* DELETE of a user: the row is marked or removed, the email stays where it is.
RemoveUser(s) ==
    /\ s \in users /\ at[s] = "registered"
    /\ users' = users \ {s}
    /\ UNCHANGED <<postgres, email, at, identity>>

AccountsNext ==
    \E s \in Signup :
        \/ RegisterInMemory(s) \/ CheckEmail(s) \/ CommitTenant(s) \/ WriteIdentity(s)
        \/ Registered(s) \/ SignupFails(s) \/ RemoveUser(s)

AccountsSpec == AccountsInit /\ [][AccountsNext]_accountVars

\* authenticate, with the right password: the account it lets in.  The lookup of a removed
\* user raises in memory.
LoggedIn(e) == IF identity[e] \in users THEN identity[e] ELSE NoAccount

(***************************************************************************)
(* Properties                                                              *)
(***************************************************************************)
(* Calls, users and emails take the values the code gives them.            *)
AccountsTypeOK ==
    /\ \A s \in users : at[s] \in {"committed", "stored", "registered", "failed"}
    /\ users \subseteq Signup /\ identity \in [Email -> Signup \cup {NoAccount}]
    /\ at \in [Signup -> {"idle", "free", "committed", "stored", "registered", "refused", "failed"}]

(***************************************************************************)
(* An email never stands for an account of another email, or for one that  *)
(* was not committed: a login finds the account the email was used for.    *)
(***************************************************************************)
IdentityIsReal ==
    \A e \in Email : identity[e] # NoAccount =>
        email[identity[e]] = e /\ at[identity[e]] \in {"stored", "registered", "failed"}

(***************************************************************************)
(* Who is told "already exists" shares the email with an account that a    *)
(* login finds, or found before it was removed: the rest of a registration *)
(* that failed half-way does not stand in the way of the next one.         *)
(***************************************************************************)
RefusedOnlyIfTaken ==
    \A s \in Signup : at[s] = "refused" =>
        \/ LoggedIn(email[s]) # NoAccount
        \/ at[identity[email[s]]] = "registered"

(***************************************************************************)
(* Who registered can log in until the user is removed, and into the       *)
(* account that was registered: always with the memory store, and with     *)
(* Redis unless another registration of the email was under way as well.   *)
(***************************************************************************)
RegisteredCanLogIn ==
    \A s \in Signup : at[s] = "registered" /\ s \in users =>
        \/ LoggedIn(email[s]) = s
        \/ postgres /\ \E other \in Signup \ {s} :
              email[other] = email[s] /\ at[other] \in {"stored", "registered", "failed"}

(***************************************************************************)
(* With the memory store an email has at most one account.                 *)
(***************************************************************************)
OneAccountPerEmail ==
    ~postgres => \A s, t \in users : email[s] = email[t] => s = t

(***************************************************************************)
(* An email leads to the account it was registered for, in both stores and *)
(* in spite of races and failures: the four above, and the types.          *)
(***************************************************************************)
AccountsAreSound ==
    /\ AccountsTypeOK
    /\ IdentityIsReal
    /\ RefusedOnlyIfTaken
    /\ RegisteredCanLogIn
    /\ OneAccountPerEmail
=================================================================================
