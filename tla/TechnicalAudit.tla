---------------------------- MODULE TechnicalAudit ----------------------------
(***************************************************************************)
(* The technical agent (technical.py): it goes through the urls of a task, *)
(* checks their web vitals, their structured data and their tags, and      *)
(* sends a fix event per healable issue to the executor, which changes the *)
(* site in its own time.  A step is the code between two awaits.           *)
(***************************************************************************)
EXTENDS Integers, Sequences, FiniteSets, SequencesExt

CONSTANTS
    Urls,          \* the urls of every task, a sequence
    Pages,         \* the pages there may be at first
    Vitals,        \* measurements: metric -> "good", "needs_improvement" or "poor"
    Tasks,         \* task types that are asked for
    Thresholds,    \* confidence_threshold of the agent, in percent
    ImageCap,      \* images one fix covers (20)
    MaxRounds      \* bound: tasks

VARIABLES
    threshold, autoHeal,   \* configuration, and the flag of the tasks
    site,          \* the pages as they are served
    task, rest,    \* the task type or "none", and the checks it still runs
    todo,          \* urls the present check has left
    fixes,         \* what is left to emit for the first url of todo
    fixSet,        \* all fixes of that url
    inbox,         \* self_heal events the executor has not handled
    entries,        \* check -> url -> entry
    told,          \* history: events of this task, <<url, event>>
    rounds

auditVars == <<threshold, autoHeal, site, task, rest, todo, fixes, fixSet, inbox, entries, told, rounds>>

AuditedUrl == ToSet(Urls)
Check == {"cwv", "schema", "validation", "healing"}
NoEntry == [status |-> "none"]

\* A page, as far as it is looked at; html has any number of headings and images.
WebPage == [title : {"ok", "long", "missing"}, desc : {"ok", "long", "blank", "missing"},
            h1 : Nat, noAlt : Nat, canonical : BOOLEAN,
            schema : {"none", "graph", "single", "untyped_graph", "junk", "array"},
            og : BOOLEAN, viewport : BOOLEAN, https : BOOLEAN]
Grade == {"good", "needs_improvement", "poor"}

ASSUME AuditAssumption ==
    /\ Urls \in Seq(AuditedUrl)
    /\ Pages \subseteq WebPage
    /\ \A v \in Vitals : IsFiniteSet(DOMAIN v) /\ v \in [DOMAIN v -> Grade]
    /\ Thresholds \subseteq Int
    /\ ImageCap \in Nat

(***************************************************************************)
(* Pure functions of the audits.                                           *)
(***************************************************************************)
\* evaluate_cwv_status: a metric that was not measured does not count.
CwvStatus(v) ==
    LET poor == Cardinality({m \in DOMAIN v : v[m] = "poor"})
        fair == Cardinality({m \in DOMAIN v : v[m] = "needs_improvement"})
    IN  IF poor >= 2 THEN "poor"
        ELSE IF poor >= 1 \/ fair >= 2 THEN "needs_improvement" ELSE "good"

\* HEALABLE_ISSUES: confidence in percent of the issues a page can show.
Confidence == [missing_title |-> 95, missing_meta_desc |-> 90, missing_h1 |-> 85,
               missing_alt_text |-> 80, broken_canonical |-> 90, missing_schema |-> 85]

Blank(text) == text \in {"missing", "blank"}

\* detect_issues: a tag that is there without text is as good as missing.
DetectIssues(page) ==
    {i \in DOMAIN Confidence :
        \/ i = "missing_title" /\ page.title = "missing"
        \/ i = "missing_meta_desc" /\ Blank(page.desc)
        \/ i = "missing_h1" /\ page.h1 = 0
        \/ i = "missing_alt_text" /\ page.noAlt > 0
        \/ i = "broken_canonical" /\ ~page.canonical
        \/ i = "missing_schema" /\ page.schema = "none"}

\* SchemaMarkupEngine.generate: the types in its graph; the page data it is given
\* when it heals has neither a content type nor questions, steps or a breadcrumb.
GraphTypes(data) ==
    {"Organization", "WebSite"}
    \cup (IF "breadcrumb" \in data THEN {"BreadcrumbList"} ELSE {})
    \cup (IF "article" \in data THEN {"Article"} ELSE {})
    \cup (IF "faqs" \in data THEN {"FAQPage"} ELSE {})
    \cup (IF "steps" \in data THEN {"HowTo"} ELSE {})
    \cup (IF "product" \in data THEN {"Product"} ELSE {})

\* validate: it wants a context and a graph of typed items, also of a single typed object.
SchemaEntry(kind) ==
    CASE kind = "none" -> "no_schema"
      [] kind = "graph" -> "valid"
      [] kind \in {"single", "untyped_graph"} -> "invalid"
      [] kind = "junk" -> "invalid_json"
      [] kind = "array" -> "error"

\* Mutant of Unsure: the threshold is not looked at.
NeverUnsure(issue) == FALSE
Unsure(issue) == Confidence[issue] < threshold

\* generate_fix: a fix of its own below the threshold is a recommendation.
Fix(issue, page) ==
    IF Unsure(issue)
    THEN [issue |-> issue, status |-> "fix_proposed", value |-> "none"]
    ELSE [issue |-> issue, status |-> IF autoHeal THEN "applied" ELSE "fix_proposed",
          value |-> CASE issue = "missing_title" -> IF page.h1 > 0 THEN "from_h1" ELSE "placeholder"
                      [] issue = "missing_h1" -> IF page.title # "missing" THEN "from_title" ELSE "placeholder"
                      [] issue = "missing_schema" -> IF GraphTypes({}) # {} THEN "graph" ELSE "none"
                      [] OTHER -> "from_page"]

AltPenalty(n) == IF n * 2 <= 10 THEN n * 2 ELSE 10

\* validate_page: the points that a page loses; the sum never reaches the clamp at 0.
Penalty(page) ==
    [title |-> CASE page.title = "missing" -> 15 [] page.title = "long" -> 5 [] OTHER -> 0,
     desc |-> CASE page.desc = "missing" -> 10 [] page.desc = "long" -> 3 [] OTHER -> 0,
     h1 |-> IF page.h1 = 0 THEN 10 ELSE IF page.h1 > 1 THEN 5 ELSE 0,
     canonical |-> IF page.canonical THEN 0 ELSE 5,
     viewport |-> IF page.viewport THEN 0 ELSE 10,
     schema |-> IF page.schema = "none" THEN 5 ELSE 0,
     og |-> IF page.og THEN 0 ELSE 3,
     alt |-> AltPenalty(page.noAlt),
     https |-> IF page.https THEN 0 ELSE 15]
Score(page) ==
    LET p == Penalty(page)
    IN  100 - (p.title + p.desc + p.h1 + p.canonical + p.viewport
                 + p.schema + p.og + p.alt + p.https)

\* What the site is after the executor handled a fix (outside the repository).
Healed(page, fix) ==
    CASE fix.issue = "missing_title" -> [page EXCEPT !.title = "ok"]
      [] fix.issue = "missing_meta_desc" -> [page EXCEPT !.desc = "ok"]
      [] fix.issue = "missing_h1" -> [page EXCEPT !.h1 = IF @ = 0 THEN 1 ELSE @]
      [] fix.issue = "missing_alt_text" -> [page EXCEPT !.noAlt = IF @ > ImageCap THEN @ - ImageCap ELSE 0]
      [] fix.issue = "broken_canonical" -> [page EXCEPT !.canonical = TRUE]
      [] fix.issue = "missing_schema" -> [page EXCEPT !.schema = IF @ = "none" THEN fix.value ELSE @]

AuditInit ==
    /\ threshold \in Thresholds /\ autoHeal \in BOOLEAN
    /\ site \in [AuditedUrl -> Pages]
    /\ task = "none" /\ rest = <<>> /\ todo = <<>> /\ fixes = {} /\ fixSet = {}
    /\ inbox = {} /\ told = {} /\ rounds = 0
    /\ entries = [c \in Check |-> [u \in AuditedUrl |-> NoEntry]]

(***************************************************************************)
(* execute: the checks of a task type, one after the other, and within a   *)
(* check the urls; an exception is the entry of its url and of no other.   *)
(* Without urls, or of an unknown type, a task is over at once.            *)
(***************************************************************************)
ChecksOf(type) ==
    CASE type = "cwv_check" -> <<"cwv">>
      [] type = "schema_validation" -> <<"schema">>
      [] type = "self_heal" -> <<"healing">>
      [] type = "tech_audit" -> <<"cwv", "validation">> \o (IF autoHeal THEN <<"healing">> ELSE <<>>)
      [] OTHER -> <<>>

BeginTask(type) ==
    /\ task = "none" /\ rounds < MaxRounds
    /\ rounds' = rounds + 1
    /\ rest' = IF Urls = <<>> THEN <<>> ELSE ChecksOf(type)
    /\ task' = IF rest' = <<>> THEN "none" ELSE type
    /\ todo' = IF rest' = <<>> THEN <<>> ELSE Urls
    /\ entries' = [c \in Check |-> [u \in AuditedUrl |-> NoEntry]] /\ told' = {}
    /\ UNCHANGED <<threshold, autoHeal, site, fixes, fixSet, inbox>>

Present(check) == rest # <<>> /\ Head(rest) = check

\* The entry of the first url is complete: the next url, the next check or the end.
Enter(entry) ==
    /\ entries' = [entries EXCEPT ![Head(rest)][Head(todo)] = entry]
    /\ todo' = IF Len(todo) > 1 THEN Tail(todo) ELSE IF Len(rest) > 1 THEN Urls ELSE <<>>
    /\ rest' = IF Len(todo) > 1 THEN rest ELSE Tail(rest)
    /\ task' = IF rest' = <<>> THEN "none" ELSE task
    /\ fixes' = {} /\ fixSet' = {}

\* Mutant of CheckFailed: the rest of the check is given up.
CheckFailedForAll ==
    /\ rest # <<>>
    /\ entries' = [entries EXCEPT ![Head(rest)][Head(todo)] = [status |-> "error"]]
    /\ rest' = Tail(rest) /\ todo' = (IF Len(rest) > 1 THEN Urls ELSE <<>>)
    /\ task' = (IF Len(rest) > 1 THEN task ELSE "none") /\ fixes' = {} /\ fixSet' = {}
    /\ UNCHANGED <<threshold, autoHeal, site, inbox, told, rounds>>

\* The fetch, the measurement or the publication of an event raised.
CheckFailed ==
    /\ rest # <<>>
    /\ Enter([status |-> "error"])
    /\ UNCHANGED <<threshold, autoHeal, site, inbox, told, rounds>>

EventPriority(status) == IF status = "poor" THEN "P0" ELSE "P1"

\* _cwv_monitoring: the event goes out before the result is kept.
Measured ==
    /\ Present("cwv")
    /\ \E v \in Vitals :
          /\ Enter([status |-> CwvStatus(v), vitals |-> v])
          /\ told' = IF CwvStatus(v) = "good" THEN told
                     ELSE told \cup {<<Head(todo), EventPriority(CwvStatus(v))>>}
    /\ UNCHANGED <<threshold, autoHeal, site, inbox, rounds>>

SchemaChecked ==
    /\ Present("schema")
    /\ Enter([status |-> SchemaEntry(site[Head(todo)].schema)])
    /\ UNCHANGED <<threshold, autoHeal, site, inbox, told, rounds>>

Validated ==
    /\ Present("validation")
    /\ Enter([status |-> "scored", score |-> Score(site[Head(todo)])])
    /\ UNCHANGED <<threshold, autoHeal, site, inbox, told, rounds>>

\* _self_healing: the page is fetched, and its fixes follow one event at a time.
Inspected ==
    /\ Present("healing") /\ fixSet = {}
    /\ LET page == site[Head(todo)]
           found == {Fix(i, page) : i \in DetectIssues(page)}
       IN  IF found = {}
           THEN Enter([status |-> "healed", fixes |-> {}])
           ELSE /\ fixes' = found /\ fixSet' = found
                /\ UNCHANGED <<entries, todo, rest, task>>
    /\ UNCHANGED <<threshold, autoHeal, site, inbox, told, rounds>>

FixSent ==
    /\ Present("healing") /\ fixes # {}
    /\ LET fix == CHOOSE f \in fixes : TRUE
       IN  /\ inbox' = inbox \cup {<<Head(todo), fix>>}
           /\ told' = told \cup {<<Head(todo), fix.issue>>}
           /\ IF fixes = {fix} THEN Enter([status |-> "healed", fixes |-> fixSet])
              ELSE fixes' = fixes \ {fix} /\ UNCHANGED <<entries, todo, rest, task, fixSet>>
    /\ UNCHANGED <<threshold, autoHeal, site, rounds>>

\* The executor handles an event: what is only proposed waits for an operator.
Handled ==
    /\ \E event \in inbox :
          /\ inbox' = inbox \ {event}
          /\ site' = IF event[2].status # "applied" THEN site
                     ELSE [site EXCEPT ![event[1]] = Healed(@, event[2])]
    /\ UNCHANGED <<threshold, autoHeal, task, rest, todo, fixes, fixSet, entries, told, rounds>>

AuditNext ==
    \/ \E type \in Tasks : BeginTask(type)
    \/ CheckFailed \/ Measured \/ SchemaChecked \/ Validated \/ Inspected \/ FixSent
    \/ Handled

AuditSpec == AuditInit /\ [][AuditNext]_auditVars

(***************************************************************************)
(* Properties                                                              *)
(***************************************************************************)
(* The check, the urls and the fixes in progress fit together.             *)
AuditTypeOK ==
    /\ task = "none" <=> rest = <<>>
    /\ rest = <<>> <=> todo = <<>>
    /\ fixes \subseteq fixSet /\ (fixSet # {} => Present("healing"))
    /\ \A u \in AuditedUrl : Score(site[u]) \in 0..100

(***************************************************************************)
(* Between two tasks every url has one entry in each check of the task it  *)
(* was part of, whatever failed for the others.                            *)
(***************************************************************************)
EveryUrlHasItsEntry ==
    \A c \in Check :
        (task = "none" /\ \E u \in AuditedUrl : entries[c][u] # NoEntry)
            => \A u \in AuditedUrl : entries[c][u] # NoEntry

(***************************************************************************)
(* Nothing a report says was done behind a failed publication: bad vitals  *)
(* were announced with the priority of their status, and so was every fix  *)
(* that is listed, applied or proposed.                                    *)
(***************************************************************************)
ReportedIsAnnounced ==
    \A u \in AuditedUrl :
        /\ entries["cwv"][u].status = "poor" => <<u, "P0">> \in told
        /\ entries["cwv"][u].status = "needs_improvement" => <<u, "P1">> \in told
        /\ entries["healing"][u].status = "healed" =>
              \A f \in entries["healing"][u].fixes : <<u, f.issue>> \in told

(***************************************************************************)
(* A measurement that is worse in some metric and better in none is never  *)
(* reported with a better status.                                          *)
(***************************************************************************)
Rank == [good |-> 0, needs_improvement |-> 1, poor |-> 2]
WorseVitalsLookNoBetter ==
    \A u, v \in AuditedUrl :
        LET a == entries["cwv"][u]
            b == entries["cwv"][v]
        IN  (a.status \in DOMAIN Rank /\ b.status \in DOMAIN Rank) =>
              ((\A m \in DOMAIN a.vitals : m \in DOMAIN b.vitals /\ Rank[a.vitals[m]] <= Rank[b.vitals[m]])
                  => Rank[a.status] <= Rank[b.status])

(***************************************************************************)
(* Healing only improves a page, and never by itself where it lacks the    *)
(* confidence: its score does not fall when a fix arrives, however late,   *)
(* and an issue below the threshold stays for an operator.                 *)
(***************************************************************************)
HealingImproves ==
    [][\A u \in AuditedUrl :
          /\ Score(site'[u]) >= Score(site[u])
          /\ \A i \in DetectIssues(site[u]) \ DetectIssues(site'[u]) :
                autoHeal /\ Confidence[i] >= threshold]_auditVars

(***************************************************************************)
(* A healing that found nothing to fix on any url means that no page loses *)
(* points for something the agent could have healed.                       *)
(***************************************************************************)
CleanMeansNoMissingTag ==
    \A u \in AuditedUrl :
        (entries["healing"][u].status = "healed" /\ entries["healing"][u].fixes = {}) =>
            LET p == Penalty(site[u])
            IN  /\ p.title <= 5 /\ p.desc <= 3 /\ p.h1 <= 5
                /\ p.canonical + p.schema + p.alt = 0

(***************************************************************************)
(* The report of the technical agent is complete, announced and in order:  *)
(* the four above, and the types.                                          *)
(***************************************************************************)
AuditIsTruthful ==
    /\ AuditTypeOK
    /\ EveryUrlHasItsEntry
    /\ ReportedIsAnnounced
    /\ WorseVitalsLookNoBetter
    /\ CleanMeansNoMissingTag
===============================================================================
