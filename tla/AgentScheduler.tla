---------------------------- MODULE AgentScheduler ----------------------------
(***************************************************************************)
(* The runtime of the source agents: AgentRegistry (registry.py) names     *)
(* agent objects, AgentScheduler (scheduler.py) dispatches schedules to    *)
(* them from its loop and from handle_event, and BaseAgent.run (base.py)   *)
(* takes each object through its lifecycle.  All are coroutines of one     *)
(* event loop: a step below is the code between two awaits, and the runs   *)
(* of one object overlap.                                                  *)
(***************************************************************************)
EXTENDS Integers, Sequences, FiniteSets, SequencesExt

CONSTANTS
    Loop,          \* the coroutine of AgentScheduler.start
    Event,         \* coroutines of handle_event, one per event
    Schedule,      \* ids of schedules
    OnEvent,       \* those of type EVENT; the others are INTERVAL or CRON
    Agent,         \* agent objects
    NameOf,        \* the agent_name of an object
    TargetOf,      \* the agent_name of a schedule
    None,
    MaxRetries,    \* config["max_retries"]
    Interval,      \* interval_seconds, in periods of check_interval
    MaxEdits       \* bound: calls that edit schedules or the registry

Coroutine == {Loop} \cup Event
Name == {NameOf[a] : a \in Agent}

ASSUME AgentSchedulerAssumption ==
    /\ Loop \notin Event
    /\ IsFiniteSet(Schedule) /\ OnEvent \subseteq Schedule
    /\ NameOf \in [Agent -> Name] /\ TargetOf \in [Schedule -> Name]
    /\ None \notin Agent \cup Schedule \cup BOOLEAN
    /\ MaxRetries \in Nat /\ Interval \in Nat /\ MaxEdits \in Nat

VARIABLES
    current,       \* _agent_instances: the object behind a name
    overriding,    \* objects whose class overrides the transition table
    state, retries,              \* of every agent object
    entries,       \* _schedules: the slots of the dict in order, None where an id was removed
    enabled, age,  \* of a schedule; time since last_run, Interval when due
    running,       \* _running
    copies,        \* wildcard handlers that were added to the event's own list
    pc, cursor, job, object, stale,        \* of every coroutine; cursor is its iterator
    dueAtWake,     \* schedules due by the time the loop took when it woke
    lastOk,        \* history: how the last run of an object ended, None before
    calls, served, \* history of an event: wildcard calls, schedules dispatched
    touched, edits, removals    \* history: schedules and names that were edited

agentVars == <<current, overriding, state, retries, lastOk>>
scheduleVars == <<entries, enabled, age>>
coVars == <<pc, cursor, job, object, stale, dueAtWake, served>>
editVars == <<touched, edits, removals>>
handlerVars == <<copies, calls>>
vars == <<agentVars, scheduleVars, coVars, running, editVars, handlerVars>>

Live == {i \in DOMAIN entries : entries[i] # None}
Installed == {entries[i] : i \in Live}

(***************************************************************************)
(* The lifecycle.  A trigger the state has no transition for is logged and *)
(* changes nothing.  The triggers of WAITING are fired by nobody: they are *)
(* left out.                                                               *)
(***************************************************************************)
BaseTable == {
    <<"idle", "start", "working">>,
    <<"working", "complete", "reporting">>, <<"working", "fail", "error">>,
    <<"reporting", "done", "waiting">>,
    <<"error", "retry", "working">>, <<"error", "max_retries", "dead_letter">>}

\* Sentinel and technical agents: execute fires the triggers, run's are unknown.  start_work
\* stands for their start_crawl and start_monitor, work_complete for the end of that work.
OverridingTable == {
    <<"idle", "start_work", "working">>,
    <<"working", "work_complete", "analyzing">>,
    <<"analyzing", "analysis_complete", "reporting">>,
    <<"reporting", "report_sent", "waiting">>,
    <<"error", "retry", "working">>, <<"error", "max_retries", "dead_letter">>}

Apply(a, s, trigger) ==
    LET moves == {m \in IF a \in overriding THEN OverridingTable ELSE BaseTable :
                     m[2] = trigger /\ m[1] = s}
    IN  IF moves = {} THEN s ELSE (CHOOSE m \in moves : TRUE)[3]

StateAtStart(a, s) == Apply(a, Apply(a, s, "start"), "start_work")

\* Mutant of StateAfterWork: the trigger that ends the work is forgotten.
StateAfterWorkUnfinished(a) == Apply(a, state[a], "work_complete")

StateAfterWork(a) ==
    LET worked == Apply(a, state[a], "work_complete")
        analysed == Apply(a, worked, "analysis_complete")
    IN  Apply(a, Apply(a, analysed, "report_sent"), "complete")

StateAfterFailure(a) ==
    Apply(a, Apply(a, state[a], "fail"),
          IF retries[a] + 1 <= MaxRetries THEN "retry" ELSE "max_retries")

(***************************************************************************)
(* The iterator of a dict holds the next slot it looks at, the number of   *)
(* ids the dict had at first, and how many of them are still to come.      *)
(***************************************************************************)
Closed == [pos |-> 0, used |-> 0, len |-> 0]
Opened == [pos |-> 1, used |-> Cardinality(Live), len |-> Cardinality(Live)]
Ahead(pos) == {i \in Live : pos <= i}

Init ==
    /\ current = [n \in Name |-> CHOOSE a \in Agent : NameOf[a] = n]
    /\ overriding \in {{}, Agent}
    /\ state = [a \in Agent |-> "idle"]
    /\ retries = [a \in Agent |-> 0] /\ lastOk = [a \in Agent |-> None]
    /\ entries \in {o \in [1..Cardinality(Schedule) -> Schedule] :
                       {o[i] : i \in DOMAIN o} = Schedule}
    /\ enabled = [t \in Schedule |-> TRUE] /\ age = [t \in Schedule |-> Interval]
    /\ running = TRUE /\ dueAtWake = {} /\ copies = 0
    /\ pc = [c \in Coroutine |-> IF c = Loop THEN "sleep" ELSE "idle"]
    /\ calls = [e \in Event |-> 0]
    /\ served = [e \in Event |-> {}]
    /\ cursor = [c \in Coroutine |-> Closed]
    /\ job = [c \in Coroutine |-> None] /\ object = [c \in Coroutine |-> None]
    /\ stale = [c \in Coroutine |-> FALSE]
    /\ touched = {} /\ edits = 0 /\ removals = 0

\* Mutants of Eligible: a busy agent is passed over; the interval is not looked at.
EligibleIfIdle(c, t, due) ==
    /\ enabled[t] /\ (IF c = Loop THEN t \in due ELSE t \in OnEvent)
    /\ current[TargetOf[t]] # None /\ state[current[TargetOf[t]]] = "idle"
EligibleAnyTime(c, t, due) ==
    enabled[t] /\ (t \in OnEvent <=> c # Loop) /\ current[TargetOf[t]] # None

Eligible(c, t, due) ==
    /\ enabled[t]
    /\ IF c = Loop THEN t \in due ELSE t \in OnEvent
    /\ current[TargetOf[t]] # None

\* The slots ahead whose schedule is eligible, and those up to the first of them.
Hits(c, pos, due) == {i \in Ahead(pos) : Eligible(c, entries[i], due)}
Met(c, pos, due) == {i \in Ahead(pos) : \A j \in Hits(c, pos, due) : i <= j}

(***************************************************************************)
(* for task in self._schedules.values(), from one await to the next: the   *)
(* iterator passes over free slots, and raises when the dict no longer has *)
(* as many ids as it had, or has more of them ahead than are to come.      *)
(* Schedules that are not eligible are passed over, and _dispatch runs the *)
(* agent of the next one up to the await of its execute.  s holds the      *)
(* states of the agents.                                                   *)
(***************************************************************************)
Iterate(c, iter, due, s) ==
    LET hits == Hits(c, iter.pos, due)
        met == Met(c, iter.pos, due)
        broken == iter.used # Cardinality(Live) \/ iter.len < Cardinality(met)
    IN  IF broken \/ hits = {}
        THEN /\ pc' = [pc EXCEPT ![c] = IF broken THEN "raised"
                                        ELSE IF c = Loop THEN "sleep" ELSE "done"]
             /\ cursor' = [cursor EXCEPT ![c] = Closed]
             /\ job' = [job EXCEPT ![c] = None]
             /\ object' = [object EXCEPT ![c] = None]
             /\ dueAtWake' = IF c = Loop THEN {} ELSE dueAtWake
             /\ state' = s /\ UNCHANGED served
        ELSE \E first \in hits \cap met :
             LET t == entries[first]
                 a == current[TargetOf[t]]
             IN  /\ pc' = [pc EXCEPT ![c] = "execute"]
                 /\ cursor' = [cursor EXCEPT ![c] = [pos |-> first + 1, used |-> iter.used,
                                                    len |-> iter.len - Cardinality(met)]]
                 /\ job' = [job EXCEPT ![c] = t]
                 /\ object' = [object EXCEPT ![c] = a]
                 /\ dueAtWake' = IF c = Loop THEN due ELSE dueAtWake
                 /\ state' = [s EXCEPT ![a] = StateAtStart(a, @)]
                 /\ served' = IF c = Loop THEN served ELSE [served EXCEPT ![c] = @ \cup {t}]

\* start: after its sleep the loop takes the time and checks the schedules.
Wake ==
    /\ pc[Loop] = "sleep"
    /\ IF running
       THEN Iterate(Loop, Opened, {t \in Schedule \ OnEvent : age[t] = Interval}, state)
       ELSE /\ pc' = [pc EXCEPT ![Loop] = "stopped"]
            /\ UNCHANGED <<cursor, job, object, dueAtWake, served, state>>
    /\ UNCHANGED <<current, overriding, retries, lastOk, scheduleVars, editVars, handlerVars,
                   stale, running>>

(***************************************************************************)
(* handle_event: the event type has one handler of its own, and one        *)
(* wildcard handler is registered.  The wildcards are appended to the very *)
(* list that is registered for the type, which every coroutine iterates    *)
(* over: first its own handler, then as many wildcards as there are by now.*)
(***************************************************************************)
Arrive(e) ==
    /\ pc[e] = "idle"
    /\ copies' = copies + 1
    /\ pc' = [pc EXCEPT ![e] = "handlers"]
    /\ UNCHANGED <<agentVars, scheduleVars, editVars, running, cursor, job, object,
                   stale, dueAtWake, served, calls>>

HandlerReturns(e) ==
    /\ pc[e] = "handlers"
    /\ IF calls[e] < copies
       THEN /\ calls' = [calls EXCEPT ![e] = @ + 1]
            /\ UNCHANGED <<pc, cursor, job, object, dueAtWake, served, state>>
       ELSE Iterate(e, Opened, {}, state) /\ UNCHANGED calls
    /\ UNCHANGED <<current, overriding, retries, lastOk, scheduleVars, editVars, running, stale, copies>>

(***************************************************************************)
(* run, after execute returned: the retry count is reset and the agent     *)
(* reports, then the completion event is published.                        *)
(***************************************************************************)
ExecuteReturns(c) ==
    /\ pc[c] = "execute"
    /\ state' = [state EXCEPT ![object[c]] = StateAfterWork(object[c])]
    /\ retries' = [retries EXCEPT ![object[c]] = 0]
    /\ pc' = [pc EXCEPT ![c] = "report"]
    /\ UNCHANGED <<current, overriding, lastOk, scheduleVars, editVars, running, handlerVars,
                   cursor, job, object, stale, dueAtWake, served>>

\* The except branch, entered from execute or from the completion event.
RunFails(c) ==
    /\ pc[c] \in {"execute", "report"}
    /\ state' = [state EXCEPT ![object[c]] = StateAfterFailure(object[c])]
    /\ retries' = [retries EXCEPT ![object[c]] = IF @ > MaxRetries THEN @ ELSE @ + 1]
    /\ pc' = [pc EXCEPT ![c] = "report_failure"]
    /\ UNCHANGED <<current, overriding, lastOk, scheduleVars, editVars, running, handlerVars,
                   cursor, job, object, stale, dueAtWake, served>>

\* Back in _dispatch: last_run is set when run returned, whatever its status.
RunEnds(c, ok, returned, s) ==
    /\ age' = IF returned /\ ~stale[c] /\ c = Loop THEN [age EXCEPT ![job[c]] = 0] ELSE age
    /\ lastOk' = [lastOk EXCEPT ![object[c]] = ok]
    /\ stale' = [stale EXCEPT ![c] = FALSE]
    /\ Iterate(c, cursor[c], dueAtWake, s)
    /\ UNCHANGED <<current, overriding, retries, entries, enabled, editVars, running, handlerVars>>

ReportSent(c) ==
    /\ pc[c] = "report"
    /\ RunEnds(c, TRUE, TRUE, [state EXCEPT ![object[c]] = Apply(object[c], @, "done")])

\* The event about the failure is published, or its publication raises too.
FailureReported(c) ==
    /\ pc[c] = "report_failure"
    /\ \E returned \in BOOLEAN : RunEnds(c, FALSE, returned, state)

(***************************************************************************)
(* Calls of other coroutines, between any two steps of the above.          *)
(***************************************************************************)
\* Bounded by MaxEdits: a behaviour has several edits of the dict, or one other call.
Edit(x, cost) ==
    /\ edits + cost <= MaxEdits
    /\ edits' = edits + cost
    /\ touched' = touched \cup {x}

\* The entries when the table of the dict is built anew: the free slots are gone.
Rebuilt ==
    {q \in [1..Cardinality(Installed) -> Installed] :
        \A i, j \in Live : i <= j =>
            \E m, n \in DOMAIN q : m <= n /\ q[m] = entries[i] /\ q[n] = entries[j]}

(***************************************************************************)
(* add_schedule: a new object under the id, which keeps its slot if it has *)
(* one.  A new id takes the next slot; if the table has none left, which   *)
(* is up to its past, it is built anew before, under the iterators too.    *)
(***************************************************************************)
AddSchedule(t) ==
    /\ Edit(t, 1)
    /\ enabled' = [enabled EXCEPT ![t] = TRUE]
    /\ age' = [age EXCEPT ![t] = Interval]
    /\ stale' = [c \in Coroutine |-> stale[c] \/ job[c] = t]
    /\ dueAtWake' = IF pc[Loop] = "sleep" \/ t \in OnEvent THEN dueAtWake
                    ELSE dueAtWake \cup {t}
    /\ IF t \in Installed THEN UNCHANGED entries
       ELSE \E q \in {entries} \cup Rebuilt : entries' = Append(q, t)
    /\ UNCHANGED <<agentVars, pc, cursor, job, object, served, removals, running, handlerVars>>

RemoveSchedule(t) ==
    /\ Edit(t, 1)
    /\ t \in Installed
    /\ entries' = [i \in DOMAIN entries |-> IF entries[i] = t THEN None ELSE entries[i]]
    /\ removals' = removals + 1
    /\ stale' = [c \in Coroutine |-> stale[c] \/ job[c] = t]
    /\ UNCHANGED <<agentVars, enabled, age, pc, cursor, job, object,
                   dueAtWake, served, running, handlerVars>>

\* enable_schedule and disable_schedule.
SetEnabled(t) ==
    /\ Edit(t, MaxEdits)
    /\ t \in Installed
    /\ enabled' = [enabled EXCEPT ![t] = ~@]
    /\ UNCHANGED <<agentVars, entries, age, coVars, removals, running, handlerVars>>

\* AgentRegistry.register: a fresh object behind its name; unregister: none.
Register(a) ==
    /\ Edit(NameOf[a], MaxEdits)
    /\ lastOk[a] = None /\ (\A c \in Coroutine : object[c] # a)
    /\ current' = [current EXCEPT ![NameOf[a]] = a]
    /\ UNCHANGED <<overriding, state, retries, lastOk, scheduleVars, coVars, removals,
                   running, handlerVars>>

Unregister(n) ==
    /\ Edit(n, MaxEdits)
    /\ current[n] # None
    /\ current' = [current EXCEPT ![n] = None]
    /\ UNCHANGED <<overriding, state, retries, lastOk, scheduleVars, coVars, removals,
                   running, handlerVars>>

Stop ==
    /\ Edit(Loop, MaxEdits)
    /\ running' = FALSE
    /\ UNCHANGED <<agentVars, scheduleVars, coVars, removals, handlerVars>>

Tick ==
    /\ age' = [t \in Schedule |-> IF age[t] < Interval THEN age[t] + 1 ELSE Interval]
    /\ UNCHANGED <<agentVars, entries, enabled, coVars, running, editVars, handlerVars>>

Resume(c) ==
    \/ ExecuteReturns(c) \/ RunFails(c)
    \/ ReportSent(c) \/ FailureReported(c)

Next ==
    \/ Wake
    \/ \E e \in Event : Arrive(e) \/ HandlerReturns(e)
    \/ \E c \in Coroutine : Resume(c)
    \/ \E t \in Schedule : AddSchedule(t) \/ RemoveSchedule(t) \/ SetEnabled(t)
    \/ \E a \in Agent : Register(a)
    \/ \E n \in Name : Unregister(n)
    \/ Stop
    \/ Tick

(***************************************************************************)
(* asyncio resumes the loop: its sleep ends, and so does what it awaits,   *)
(* the execute of an agent and the publication of an event.                *)
(***************************************************************************)
Fairness == WF_vars(Wake) /\ WF_vars(Resume(Loop))

Spec == Init /\ [][Next]_vars /\ Fairness

(***************************************************************************)
(* Properties                                                              *)
(***************************************************************************)
(* Objects, schedules and coroutines take the values the code gives them.  *)
(* ERROR is left in the step that enters it: nobody ever finds an agent    *)
(* between its failure and the decision about its retry.                   *)
TypeOK ==
    /\ current \in [Name -> Agent \cup {None}]
    /\ state \in [Agent -> {"idle", "working", "analyzing", "reporting", "waiting",
                            "dead_letter"}]
    /\ retries \in [Agent -> 0..MaxRetries + 1]
    /\ Installed \subseteq Schedule /\ Cardinality(Live) = Cardinality(Installed)
    /\ age \in [Schedule -> 0..Interval]
    /\ pc \in [Coroutine -> {"sleep", "idle", "handlers", "execute", "report",
                             "report_failure", "raised", "stopped", "done"}]
    /\ \A c \in Coroutine :
          IF pc[c] \in {"execute", "report", "report_failure"}
          THEN job[c] \in Schedule /\ NameOf[object[c]] = TargetOf[job[c]]
          ELSE job[c] = None /\ object[c] = None

(***************************************************************************)
(* An object without a run in progress looks busy only after a failure:    *)
(* when its last run ended well it is waiting, or dead for good, whatever  *)
(* the runs that overlapped with it did to the shared state.               *)
(***************************************************************************)
BusyAtRestOnlyAfterFailure ==
    \A a \in Agent :
        (lastOk[a] = TRUE /\ \A c \in Coroutine : object[c] # a)
            => state[a] \in {"waiting", "dead_letter"}

(***************************************************************************)
(* Both together: the objects and coroutines of the agents are sound.      *)
(***************************************************************************)
AgentsAreSound == TypeOK /\ BusyAtRestOnlyAfterFailure

(***************************************************************************)
(* The loop starts interval schedules only, and each at least an interval  *)
(* after its last run, although the time it goes by is that of its last    *)
(* wake-up and other dispatches were awaited since.                        *)
(***************************************************************************)
StartsSpaced ==
    [][\A t \in Schedule : (job[Loop] # t /\ job'[Loop] = t)
                             => t \notin OnEvent /\ age[t] = Interval]_vars

Missed(e) ==
    {t \in OnEvent : t \notin served[e] \cup touched /\ TargetOf[t] \notin touched}

(***************************************************************************)
(* An event that was handled to its end ran every schedule that waits for  *)
(* it, except those that were edited (or whose agent was) in between, and  *)
(* no more others than schedules were removed: a table that is built anew  *)
(* moves entries over the slots of the removed ones, behind the iterator,  *)
(* which does not tell.                                                    *)
(***************************************************************************)
EventServesUntouched ==
    \A e \in Event : pc[e] = "done" => Cardinality(Missed(e)) <= removals

Waiting(t) ==
    /\ t \in Installed \ OnEvent /\ enabled[t] /\ age[t] = Interval
    /\ current[TargetOf[t]] # None
    /\ pc[Loop] \notin {"raised", "stopped"} /\ running

(***************************************************************************)
(* A due schedule is dispatched, unless it is disabled, removed or loses   *)
(* its agent, or the loop is stopped or has died of an edit it iterated    *)
(* over.                                                                   *)
(***************************************************************************)
DueIsDispatched ==
    \A t \in Schedule \ OnEvent : Waiting(t) ~> (job[Loop] = t \/ ~Waiting(t))
===============================================================================
