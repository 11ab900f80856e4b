# A TLA+ model of Proactive SEO

Proactive SEO is an API in front of a fleet of SEO agents: a FastAPI
application (`packages/proactive_core/proactive_core/api/`) authenticates
users, stores tenant resources and turns commands into Celery tasks; workers
run the agents (`agents/`); agents call SEO providers through resilient HTTP
clients (`integrations/`). A second, larger family of agents
(`agents/source_agents/`) has its own lifecycle, scheduler, governor, executor
and tracker objects and runs inside one event loop. Paths below are relative
to `packages/proactive_core/proactive_core/` unless they name another root.

`source_agents` imports `app.integrations.*`, which is not part of the
repository. It is modelled as library code: its own state and control from the
source, the missing clients as an environment that answers, or fails, as the
calls show.

## 1. Inventory

Status: *m* modelled, *p* partly, *-* not modelled (section 6 says why).

| Component | State it keeps | Operations | Works with | |
|---|---|---|---|---|
| Refresh-token sessions (`auth.py`) | Redis: a session per token hash, a set of members per family, TTLs | `issue`, `rotate`, `put`, `get`, `revoke_family` | API login and refresh | m |
| Access tokens, passwords (`auth.py`, `security.py`) | none | sign, verify, hash | libraries | - |
| Command endpoints (`api/app.py` `_generic_handler`) | Redis: one idempotency record per (organisation, operation, key) for 24 h | GET record, SET NX, re-read, `send_task` | Redis, Celery | p |
| Task delivery (`celery_app.py`, `agent_tasks.py`, `agents/base.py`) | broker queues, unacknowledged deliveries, the dead-letter list | publish, deliver, run, report, acknowledge, restore, dead-letter | API, workers, beat | m |
| Provider clients (`integrations/`) | per provider: failure count, `opened_at`, limiter window | `request`, `before_request`, `success`, `failure` | agents, SEO providers | p |
| Rate limiters of the API (`api/app.py`) | deque or counter per key | `allow` | every request | m |
| Accounts, tenant stores (`api/store.py`, `api/postgres_store.py`) | users by e-mail, items per collection, soft-deletion marks | register, authenticate, list, create, get, update, delete | API | p |
| Pagination (`api/app.py` `_select_page`) | the cursor the client holds | select a page | stores | m |
| Webhooks (`api/app.py` `_verify_webhook`) | deliveries of the last five minutes: Redis keys, or a dict in the process | verify, claim | providers | - |
| Canonical agents (`agents/implementations.py`) | none between runs | `execute` | provider clients | p |
| Agent lifecycle (`source_agents/base.py`, `registry.py`) | state, retry count, metrics per agent object | `transition`, `run`, `emit_event` | scheduler, event bus | m |
| Scheduler (`source_agents/scheduler.py`) | schedules, last runs, event handlers | `add_schedule`, `handle_event`, `_dispatch`, loop | registry, agents | m |
| Resource governor (`source_agents/governor.py`) | active tasks, call times, API circuits, token buckets | `acquire`, `release`, `record_api_*` | agents | m |
| Action executor (`source_agents/executor.py`) | rollback points, execution log | `execute`, verify, roll back | CMS, GSC, mail | m |
| Decision engine (`source_agents/decision.py`) | task queue, budgets, triggers | score, resolve, allocate, dispatch | executor, scheduler | p |
| Outreach campaigns (`source_agents/backlink.py`) | campaigns: status, dates, failures | `update_status`, `process_followups`, `verify_link` | Gmail, DataForSEO | p |
| Crawler (`source_agents/crawler.py`) | frontier, seen set, robots, per-domain tokens | add, next, `execute` | web sites | m |
| Rank tracking (`source_agents/rank.py`) | the last answer per keyword and engine | `track_rankings`, `evaluate` | SERP providers | p |
| Technical audits (`source_agents/technical.py`) | reports, issues, fixes | the four checks, heal, schema markup, score | sites, executor | m |
| Competitor monitoring (`source_agents/competitor.py`) | known urls per competitor | `monitor_content`, gaps | search providers | p |
| Content agent (`source_agents/content.py`) | state of the agent | `generate_content`, `audit_page`, scores, clusters | models, search | p |
| Event publisher (`events.py`) | a capped Redis stream | `publish` | nobody reads it in the repository | - |
| Model router, schema, configuration, logging, identifiers | tables and settings | look up | all | - |
| Web frontend, services, deployment | none of their own | render, start | API | - |

How the parts interact: the API and the workers share only Redis (sessions,
idempotency records, broker, dead-letter list); inside one process everything
shares an event loop, so **a coroutine is atomic between two `await`s and
nothing else is**. That is the rule by which code is cut into actions here.
The source agents are objects in that loop: a second run of the same object
starts while the first awaits a provider and finds its state, frontier,
snapshots and sets half-way.

What is hard, and where (the list with lines is `hazards` in `PROJECT.json`):

* *read, await, write*: `rotate` and `revoke_family` put back whole session
  copies; `process_followups` walks a list made before its awaits; `request`
  asks the breaker and then waits for the limiter; `monitor_content` takes the
  known urls, awaits the search, and stores them; registration asks Redis for
  the e-mail before it commits a tenant;
* *one of two writes*: the idempotency record is stored before the task is
  sent; a session is marked used before its successor exists; a follow-up mail
  is out before the campaign says so; a tenant is committed before its e-mail
  can be looked up; an action has acted when its call raises;
* *time against work*: visibility timeout, record expiry between SET NX and
  the re-read, recovery of a circuit that late answers stamp again, a due time
  that the loop took before it awaited other dispatches, sleepers of a limiter
  that keeps no lock, for a fraction of a token at a time;
* *delivery*: lost processes, killed workers, messages on queues that no worker
  consumes, a retry policy that does not see the exceptions it is for;
* *shared objects*: one agent object for overlapping runs, one frontier for
  overlapping crawls, schedules that change under a loop over their dict, whose
  table an insertion may rebuild, handler lists that grow while they are used;
* *limits*: batches that overshoot `max_urls`, rollback points pushed out by
  other actions, quotas that agents without one draw on too, a list of at most a
  hundred rows, or of records with borrowed ids, under a cursor.

What makes each component correct: tokens are exchanged once, and a compromised
family issues nothing more; a key dispatches one task and all its responses
name it; a message is run until it is reported and never lost; a circuit
agrees with its count, holds callers back and closes again; a prospect is
mailed at most twice and at a distance, and campaigns move forward and end; an
agent comes to rest after its runs, a due schedule is dispatched and not too
early, an event serves the schedules that wait for it; a crawl loses no url
and fetches none twice; alerts, news and reports tell what happened; queues are
fair and budgets kept; what is logged of an action is what was done; limits
hold over every window; an e-mail leads to its account and pages to every
record.

## 2. Modules

| Module | Role |
|---|---|
| `RefreshSessions` | `RedisSessionStore` and `TokenManager.issue/rotate`, one Redis round trip per action |
| `RefreshFamilies` | the promise of the token service; `RefreshSessions` implements it |
| `MCRefreshSessions` | symmetry of handlers for the safety run |
| `CommandDispatch` | the command path of `_generic_handler` with its Redis record |
| `IdempotentCommands` | claim-once commands; `CommandDispatch` implements it |
| `TaskDelivery` | Celery as configured, the agent run, the dead-letter list |
| `ProviderClient` | `ResilientHttpClient` and `CircuitBreaker` under concurrent callers |
| `FollowUps` | `CampaignTracker`, `FollowUpEngine`, `verify_link` |
| `AgentScheduler`, `MCAgentScheduler` | scheduler, registry and `BaseAgent.run` composed; the instance |
| `Crawler` | overlapping runs of the sentinel over one frontier |
| `RankTracking` | `track_rankings` and its alerts |
| `CompetitorWatch` | `monitor_content` and the keyword gaps |
| `TechnicalAudit` | the audits, self-healing, and the site the executor changes |
| `ContentPipeline`, `ContentAudit` | calls of the content agent; what it computes of a page |
| `SiteCrawl` | the crawl of the canonical sentinel |
| `SetOrder` | a set of numbers in its order, as `TenantRecords` and `SiteCrawl` use it |
| `MCSourceAgents` | the seven modules above side by side, for one run of TLC |
| `DecisionEngine` | scores, queue, budgets, dispatch, conflicts |
| `ActionExecutor` | overlapping `execute`s, rollback points, approvals, log |
| `ResourceGovernor` | slots, quota windows, circuits |
| `RateLimits` | the four limiters of the repository |
| `Accounts` | registration, login and removal in both stores |
| `TenantRecords` | records that come and go under a reader's cursor |
| `MCPlatform` | the six modules above side by side, for one run of TLC |
| `*_proofs` | the theorems of section 5 |

Mutated definitions (their comments say "Mutant of ...") stand beside the
definition they vary. They take no part in a specification: each is the
plausible bug that the property named in `PROJECT.json` rules out.

The modules of a group share no state, in the model as in the code. The group
module has one more variable, `part`: a behaviour is about one component, and
the others stay at one of their initial states, so the states of a group are
the sum and not the product of those of its parts. Every module of a group
keeps its own `Init`, `Next` and `Spec`; the proofs use these. The invariant
that a run names is the conjunction of the named parts of its module
(`CrawlIsAccounted == CrawlerTypeOK /\ FetchedOnce /\ ...`).

### RefreshSessions

A handler serves one `POST /auth/refresh` at a time. `Present` is the get and
the checks of `rotate`; `Consume` is put(used); `IssueSuccessor` is the put of
the new token with the rest of `issue`. A used or revoked token sends the
handler into `revoke_family`: `ScanFamily` (smembers), then per member
`SweepGet`, `SweepPut` or `SweepMissing`, and `SweepEnd`. `held` keeps the
session copy between a get and the put that follows, which is what a
concurrent request can make stale. `Crash` drops a handler anywhere; the time
actions move expiry forward and let Redis drop keys. Tokens are numbered as
issued and all live equally long, so one counter says which have expired. JWT
decoding is abstracted: a presented token is one that was issued.

`RefreshFamilies` has no store, copies or passes: a token is given up, then
succeeded in its family. The mapping takes the unexpired and unspent tokens as
`live`, those held between put(used) and the next put as `owed`, and as
`compromised` the families in which a reuse was seen, until a handler dies.
That exception is what the code does: a pass that died half way has set the
TTL of the family key to that of an older member, so the key may go while
members live, and the next pass finds nobody to revoke.

### CommandDispatch

One action per round trip: `GetHit`/`GetMiss`, `PutInserts`/`PutFinds` (SET NX
EX), `Reread`, `Send`. A request without the header goes straight to `Send`.
`SendRaises` is a broker error, after which the message may or may not be
there. `Crash` ends a request anywhere, `Expire` ends a record's 24 hours.
A task is named by the request that created it.

The code sends only where `task_dispatch_enabled` is set (`api/app.py:412`). The
setting is the constant `TaskDispatchEnabled`: off by default (`config.py:29`),
on in `docker-compose.yml`, and on in both runs. Where it is off nothing is ever
sent and every request is answered "queued", so `AnsweredIsDispatched` is stated
for a deployment that has it on.

`IdempotentCommands` claims, replies and dispatches; the record is its claim.

### TaskDelivery

`QueueOf` is the routing table, `ConsumedQueues` the `-Q` list of the workers
of both deployments. `Deliver` takes a message and leaves it unacknowledged
(`task_acks_late`); `Report` is the end of the run, where `Agent.run` turns an
exception of `execute` into a result, so that only what raises before it, an
invalid payload, reaches `on_failure` and the dead-letter list; `Acknowledge`
removes the delivery if Redis still knows it. `LoseProcess` requeues
(`task_reject_on_worker_lost`), `KillWorker` leaves the delivery to the
visibility timeout (`RestoreOrphan`), and `RestoreRunning` is that timeout
overtaking a run.

### ProviderClient

Callers loop through breaker (`Admit`, `Probe`, `Reject`), limiter, request and
answer. The wait for the limiter and the request are separate stages, because
the circuit can change in each. The clock counts up to the recovery period.
`Cancel` is a cancelled caller, of which the breaker hears nothing; so is an
exception that `request` does not catch. The limiter is a wait that ends; its
window is the sliding one of `RateLimits`.

### FollowUps

A pass lists the due campaigns once (`StartPass`), then per campaign awaits
the reply check (`SeeReply`, or `GoOn` if there is none or the check failed)
and the send (`Sent`, `SendRaises`). In between, users (`Decide`, `Delete`),
verifications (`VerifyLive`, `VerifyFails`), and other passes change the same
objects. `update_status` is modelled with its quirk: any stored campaign may
become dead, the acquired ones too. `verify_link` reads the campaign again when
it updates it, so it takes effect in one step. Days are counted since the last
mail and until the next date. Four things to know:

* an accepted send moves `last_email_sent_at`, and the next check asks only for
  replies newer than that, so a reply that came during the send is never seen
  (`Sent` clears `replied`);
* a campaign deleted during a pass is still mailed by it, and, since nothing is
  recorded of it, may be mailed the same text by two passes; the properties
  therefore speak of stored campaigns;
* the engine without a Gmail client sends nothing and moves nothing, so
  campaigns would not end; the model has one;
* the first e-mail is sent by code outside the repository; `SendOutreach` is the
  `update_status` call it must make, with `sent_at` and `next_followup_at` set.

### AgentScheduler

The loop (`Wake`, then one dispatch after the other), any number of
`handle_event`s (`Arrive`, `HandlerReturns`) and the calls that edit schedules
and names (`AddSchedule`, `RemoveSchedule`, `SetEnabled`, `Register`,
`Unregister`, `Stop`) are coroutines of one loop. `Iterate` is the step they
share: from one await to the next, over the schedules the iterator of the dict
has ahead. What a coroutine holds of a replaced schedule object is `stale`.

The dict is modelled as CPython has it, because its iterator is what an await in
the loop leaves open. `entries` are its slots: a removal leaves a free one, a new
id takes the next, and an insertion that finds the table full builds it anew
without the free slots (`Rebuilt`; when it is full depends on its past and is a
choice). The iterator is an index (`cursor`): it raises when the dict has not as
many ids as at first, or when it meets more than there were
(`dictionary keys changed during iteration`), and otherwise goes on at its slot,
so that after as many additions as removals a rebuilt table may have moved
entries nobody touched behind it. The loop has no handler there and ends with an
exception (`pc = "raised"`); it is not restarted.

An agent object has one state and one retry count for all runs in progress.
Transitions are a table; a trigger without an entry is logged and changes
nothing. `ExecuteReturns` and `ReportSent` are the two parts of a run that
succeeds, `RunFails` is the except branch, which a completion event that does
not get through reaches after the work was done. The sentinel and technical
agents override the table and fire their own triggers: `overriding` chooses
between the two tables.

`handle_event` extends the registered list of the event with the wildcard
handlers; `copies` is how often that has happened, and a later event calls the
wildcards once more for each.

### Crawler, SiteCrawl

`Crawler`: a run of `execute` fetches robots.txt, sitemaps or its changed urls,
and then takes batches from the shared frontier until it has `max_urls`
results. Per url it waits for the limiter (`Visit`), fetches (`Fetched`) and
may publish (`EventSent`, `EventFails`). `Outcome` has the five that lead to
different code: found, another status below 400, broken, an exception, and
blocked by robots.txt. `SeenIsAccountedFor` is the invariant behind the others:
the seen urls are the disjoint union of frontier, batches and reports.

`SiteCrawl` is the breadth-first crawl of `implementations.py`, with `pop(0)`,
duplicates in the queue, a page limit and a depth limit. Its promise is stated
over the links (`Within`): a crawl that ends below its limit visited exactly the
urls within `max_depth` links. A url that httpx refuses, or a page with a link
that `urljoin` refuses, raises what the loop does not catch (`FetchRaises`): the
run fails, and its pages with it.

### RankTracking, CompetitorWatch

Runs of `track_rankings` for one keyword share the last snapshot of each
engine; comparing, alerting and storing are one step, since nothing is awaited
in between. `trail` keeps all stored answers and `alerts` what was raised per
engine and kind; the properties compare the two. `CompetitorWatch` keeps Python's references: `handle` says
whose set object a run holds while it awaits the search, which may be one that
another run stored, or one of its own that has replaced it since.

### TechnicalAudit, ContentPipeline, ContentAudit

`TechnicalAudit` goes through the checks of a task and their urls; self-healing
sends one event per fix, and the executor's inbox delivers them in any order
and at any time after (`Handled`, external). The scores and verdicts are
operators over a record of what the page shows. `ContentPipeline` is about which
provider failures `generate_content` survives and what overlapping calls do to
the agent's state; a provider that answers JSON `null` where text belongs is the
one failure outside the try blocks. `ContentAudit` has the two score tables,
weights, thresholds, recommendations and the keyword clusters; `Follow` is an
author who does what a recommendation asks (external), whether it helps or not:
the advice on passages gives a page of one paragraph no more than 43.3 points,
and comes again (`alone`). A page is what the
auditor can count (`Countable`: there is nothing to count in a text without a
word). The clusters are a dictionary: a keyword whose words no key has becomes a
key, and one without any word is a key once (`Placed`).

### DecisionEngine, ActionExecutor

Every method of the engine is one step. Scores are counted in 84ths of a point,
of which every product of an effort and a risk gives a whole number, so that two
of them tie exactly when they are equal; impacts are whole points, and what the
floating-point numbers of the code round off is left out. The two vocabularies of API names
(`gmail` in the shares, `gmail_sends` in the budgets) are kept apart as the code
keeps them apart, so what is granted under a name without an entry is 0.
`ActionExecutor` cuts `execute` at the calls its handlers await; a call answers,
or raises before or after the other side acted. A kind of action is what its
handler does: no call, one or two calls per configured channel, an e-mail whose
result is verified. Rolling back reads a point and calls nothing.

### ResourceGovernor, RateLimits

Nothing in the repository calls the governor; its callers are the ones its
methods are written for: take a slot, report at most once, give it back.
A quota is an entry of the agent: a call whose agent has none for its API
(`Metered`) is not checked, and recorded all the same, among the entries that the
others' checks count. `charged`, `metered` and `recent` are histories: entry *i*
is what was charged, or let through, in the last *i* ticks, up to a window, and
so `QuotaHolds` and `WindowsHold` are about every window, wherever it starts.

`RateLimits` has `TokenBucket` (sleeps with its lock), `DomainRateLimiter` (no
lock, and the time slept counts twice), the sliding window in memory and the
fixed window in Redis. The buckets count in units, of which `Token` make one
token and one comes per tick, so that callers meet, sleep for, and are credited,
fractions of a token. `level` is a leaky bucket over what was granted, `late` one
for each caller over what it got after a sleep, drained at twice the rate: they
bound it over every stretch of time.

### Accounts, TenantRecords

`Accounts` has both stores: one step per registration in memory, and for
PostgreSQL the e-mail lookup in Redis, the committed transaction and the write
of the e-mail, with failures in between. `RemoveUser` leaves the e-mail where it
is, as the code does. `TenantRecords` is a reader that follows `next_cursor`
while records are created, updated and deleted, with ids in no order of time; the
PostgreSQL store lists at most `ListCap` rows and is told no order to choose
them in. Row level security makes one tenant's rows all that its session lists.

A record has a key, and the id and the owner that it shows. PostgreSQL sets both
from the key and the session. The memory store (`api/store.py`) takes the values
of a request over them (line 100), so that two records may show one id and a
record may be another tenant's; what has no `org_id`, as a registered
organization, is everyone's (line 86); an update puts both right again, for the
tenant that makes it (lines 111-112). The class is described as
"Tenant-isolated local repository; production services use PostgreSQL
repositories." (line 17); the model takes the code, and `PagesRepeatNothing` says
which records a tenant is shown.

## 3. Runs

`cfg` files give the constants; deadlock checking is off where actors simply
finish or all bounds are spent, which is a stop the system may make.

| Run | Instance | What it shows |
|---|---|---|
| `tokens_one_at_a_time` | 1 handler, 4 tokens, 1 crash | one successor per token (`SuccessorBound`); one acceptable token per family, and a reuse kills the family (`FamilyIsSound`); `RefreshFamilies` is implemented |
| `tokens_race` | 2 handlers, 3 tokens, symmetric | dead tokens stay dead however stale the copies put back (`DeadStaysDead`); a pass kills what it read (`SweepKillsScanned`) |
| `tokens_consumed_twice` | 2 handlers | **violated** `ConsumedOnce`: two requests rotate one token |
| `commands_race` | 3 requests, 2 keys, 2 expiries, 2 faults | one dispatch per window, dispatched answers, every request answered, `IdempotentCommands` implemented |
| `commands_record_outlives_send` | 2 requests, 1 fault | **violated** `QueuedIsDispatched`: the record promises a task nobody sends |
| `delivery_faults` | 2 commands, 2 workers, 2 losses, 1 timeout | nothing lost (`GoneIsReported`), runs accounted for, overlap only after a timeout, every command done |
| `delivery_retries` | 1 command, 1 heartbeat | **violated** `TimeoutsAreRetried`: a timeout of an agent is not retried |
| `provider_client` | 3 callers, threshold 2, recovery 2, 2 attempts | leaks are bounded, calls return, circuits close again |
| `follow_ups` | 1 campaign, 2 passes, days 1/2/1, 1 fault | mails bounded (`TwoFollowUps`) and spaced, status never back, campaigns end |
| `agent_runtime` | loop, 1 event, 3 schedules, 2 objects of one name, 1 retry, interval 1, 2 edits | objects come to rest (`AgentsAreSound`), `EventServesUntouched`, `StartsSpaced`, `DueIsDispatched` |
| `source_agents` | see below | `CrawlIsAccounted`, `BestFirst`, `AlertsAreTrue`, `WatchIsSound`, `AuditIsTruthful`, `HealingImproves`, `CallsEndWell`, `AdviceIsSound`, `SiteIsCrawled` |
| `platform` | see below | `DecisionsAreFair`, `ExecutionIsAccounted`, `LimitsHold`, `BreakerFollowsFailures`, `RatesHold`, `AccountsAreSound`, `PagesAreSound` |

The violated ones quote the sentence of the code or the docs that they refute
(`findings`).

Why the bounds are enough for what they show. Two handlers are what a stale
copy needs, one to hold it and one to overtake it, and three tokens give a
family with a spent, a live and a newly issued member; with one handler four
tokens leave room for a second family. Three requests are the first, one that
loses the SET NX and one whose re-read comes after an expiry; two expiries let
a third window open. Two losses and a timeout let a message be run by two
workers and be lost again. Three callers and a threshold of two let two
failures open the circuit while a third caller waits behind the limiter.
Campaigns do not share state, so one is enough for each of them, and two passes
make the overlaps; the second waiting time differs from the others so that
taking the wrong one shows. The cap on days is the sum of the three: more make
no difference to any guard.

`agent_runtime`: the loop and one event are the two coroutines that can run one
object at the same time; of three schedules one is due by time and two by event,
so that one of an event can be lost while another is replaced, and all name the
same agent, of which two objects exist so that a run outlives its registration.
Two edits remove a schedule and add it again under a loop that iterates, over a
table that may be rebuilt: with them an event does come to its end without a
schedule nobody touched. The calls that can do no more harm a second time cost
both.

`source_agents`: two crawls over four urls, limit 2, batches of 2 and depth 1,
full or incremental, so that a batch overshoots the limit, a page is found by
both and one is disallowed; three trackings over two engines, three answers for
one and one for the other, since alerts compare neighbours and errors must fall
between; three watches of a rival with two articles, so that a set is made
twice and found by a third run; two urls audited in one task, over a page that
lacks every tag and one with values of every other kind (more images than one
fix covers, a single typed object as markup), and vitals on both sides of every
verdict; two drafts of two sections and a review; six pages from empty to
complete, one of a single paragraph and one without a keyword to look for, and
keyword lists up to three; a web of seven urls with a duplicate and a cycle, one
of them malformed, limits 3 and 7, depth 2.

`platform`: five tasks with three types, a tie, and an urgency by deadline;
requests of 30 against the 50 mails a day; two overlapping executions of six
actions, one of each kind and a malformed one, over a history of one point, so
that any second action pushes a point out; four calls of three agents to one API,
two agents with a quota of two calls per two ticks and one without, threshold and
recovery 2, and at most three entries for a call without a quota to find; two
callers of the buckets, in thirds of a token, with a capacity of two tokens, for
one and for three tokens (more than the bucket holds), windows of 2 requests in 3
ticks; three registrations over two e-mails; three record ids, two tenants and
everyone, both stores, a list of two rows and pages of one and two.

Fairness. A handler whose Redis reply came is resumed by the event loop
(`CommandDispatch`: weak fairness of `Serve`, not of arrivals, crashes or
expiries). Celery workers report, acknowledge and are restarted (weak), the
visibility timeout runs out (weak), and a queued message is taken although
other messages keep taking the worker's turn: queues are first in first out
and the worker polls them in rotation (strong fairness of its delivery).
Callers of a provider proceed (the limiter's lock is first come first served
and its window moves on; requests have timeouts; pauses end) and time passes;
nothing makes them call, hence `CircuitRecloses` assumes that they do. Days
pass, Gmail answers or raises, and somebody calls `process_followups` again
and again. The scheduler's sleep ends and what its loop awaits returns (weak
fairness of `Wake` and of the loop's `Resume`): an agent whose `execute` never
returned would hold the loop for good, since the code awaits it without a
timeout. Events and edits are not fair: nobody has to call them. The group runs
have safety and action properties only.

## 4. What the properties say about the hazards

*Stale copies.* A session's put may clear `used` or `revoked`. Still, no dead
token becomes acceptable (`DeadStaysDead`): every copy that is put back over a
mark carries another mark, since it is put by `Consume` or `SweepPut`. What
fails is the counting: `ConsumedOnce` holds with one request at a time and
becomes `SuccessorBound`, one successor per concurrent request, with more. And
the revocation is over what it read (`SweepKillsScanned`), not over the family
(`ReusedFamilyIsDead`, the second
half of `FamilyIsSound`, fails with two handlers).

*Claims and faults.* Faults cannot make a key dispatch twice in one window, but
they can make it dispatch never while every response says "queued".

*Late work.* A late acknowledgement never removes another worker's delivery:
`GoneIsReported`, and the starts of a message are paid for by losses and
timeouts.

*Late answers.* `LeakBound`: the caller whose failure opened the circuit has
nothing under way, so an open circuit sees at most one request of each of the
others. A success from before the failures closes the circuit at once; the
property that survives is that circuit and count agree.

*Stale lists.* A pass looks at a campaign's status and dates after its await,
not when it made the list: that alone keeps two passes from sending the second
follow-up right behind the first (`MailsAreSpaced`).

*Overlapping runs of one agent.* The shared state and retry count make an
overlapping run skip transitions, and a failure of one run can send the object
to DEAD_LETTER while another succeeds. What survives: ERROR is never seen at
rest, and an object whose last run ended well is waiting or dead
(`BusyAtRestOnlyAfterFailure`); a run that failed may leave it WORKING, for the
retry that the transition names is carried out by nobody.

*Loops over what changes.* An added or removed schedule ends the loop of the
scheduler, and `DueIsDispatched` says so in its escape clause. Added and removed
in one go they leave the size as it was, and the iteration goes on without a
word; if the insertion has rebuilt the table, entries have moved to slots the
iterator is past, and schedules nobody edited are passed over. What survives is
the count: an event that comes to its end has missed no more schedules than were
removed (`EventServesUntouched`), since a free slot comes from a removal and
hides one entry at most. A schedule the loop has missed is due at its next wake.
A due time of the last wake-up starts no schedule too early (`StartsSpaced`),
because only the loop itself resets it.

*Shared frontiers, sets and snapshots.* They hold, each for its own reason: the
frontier since a url enters it only when it was not seen; snapshots because
nothing is awaited between reading and replacing; the known urls because the
set object is read after the await, and only runs that were there before the
first set repeat a report (`NewsIsNewOnce` counts them).

*Half of two effects.* `EmailsMatchTheLog` is as strong as the executor allows: a
"failed" entry leaves open whether the mail went out. `RefusedOnlyIfTaken` is
the good side of the order of the registration's writes, the e-mail last;
`RegisteredCanLogIn` names its price, two accounts for one e-mail when
registrations race.

*Limits.* The crawler's limiter does not keep the rate it is given: callers that
sleep for a fraction of a token are let through together, and what they slept is
credited once more. What holds over every stretch of time is that those who need
not wait get a burst and a token per period, and each caller that waits two
tokens and twice the rate (`DomainRateIsBounded`). The fixed window lets through
twice its limit around a boundary; `LimitHolds` bounds the overshoot of a crawl
by a batch. A quota binds the agents that have one: `QuotaHolds` is about their
calls, to which those of the others add nothing but the wait. `PagesMissNothing`
holds for tenants that never have more rows than PostgreSQL lists, and for no
others; in the memory store it finds the id, which another record may show.

*Breakers.* The governor's breaker stays half open with a full count, so one
failure opens it again and a late success closes it: the property that survives
both is `BreakerFollowsFailures`, which is about the recorded outcomes and not
about the states' names.

## 5. Theorems

All proofs are for arbitrary constants under the named assumptions: bounds are
naturals (or positive), handlers, requests, messages, callers and runs are
finite sets where they are counted, sentinel values differ from members. TLC
evaluates every assumption on the instances.

* **RefreshSessions_proofs**: `TypeCorrect`, `SuccessorsBounded`, `DeadForGood`
  (`DeadStaysDead`) and `SweepsKill` (`SweepKillsScanned`). Neither property is
  inductive. The invariant adds: only issued tokens are held, indexed, swept or
  rotated; a session missing from the store has expired; a rotated token is
  dead, and so is one between put(used) and its successor; a handler has not
  yet rotated the token it is rotating; members a pass is through with are
  dead. The lemma behind all of it is `PutKills`: every put writes a dead copy,
  or a token that was not issued before.

  Under `Alone` (there is one handler, as in the run `tokens_one_at_a_time`; the
  race of the finding shows that it is needed) two more:
  `FamiliesAreSound` (`FamilyIsSound`) and `StoreImplementsFamilies`, the
  refinement of `RefreshFamilies`. Their invariant `AloneInv` adds that sessions,
  family keys, copies and lists name the family a token was issued in; that
  beside the token being exchanged no other of its family is live, and no reuse
  was detected there; and, until a handler dies, that a live token is in its
  family key, which lives as long, or its family is being swept, and that what a
  pass has not yet listed off is on its list. The rotation takes effect at the
  read, a pass one put at a time; put(used) and all reads are stutters.
* **CommandDispatch_proofs**: `TypeCorrect`, `DispatchedOncePerWindow`,
  `RepliesConsistent`, `AnsweredDispatched`, from an invariant that counts the
  insertions of a key against its expiries and lets only inserters send; and
  `Refinement`: `Spec` implies `IdempotentCommands`' `Spec`, by a step-by-step
  simulation, expiries and crashes included.
* **TaskDelivery_proofs**: `TypeCorrect`, `NothingIsLost`, `RunsBounded`,
  `NoOverlap`. The invariant gives a waiting message a budget of starts (one
  less than losses, timeouts and the first run allow) and says who holds an
  unacknowledged delivery and that what was reported has a cause on record.
* **ProviderClient_proofs**: `OpensAtThreshold`, `LeaksBounded`, `LeaksOnce`.
  The invariant says that while the circuit is open some caller has not leaked,
  is not waiting at the limiter either, and that who waits there has not leaked.
  Two more are what remains of its liveness properties when fairness is taken
  away. Behind `CallsReturn`: `CallsAreShort`, every step a call takes lowers a
  measure of at most four an attempt, and no other step raises it. Behind
  `CircuitRecloses`: `ProbeIsNotPutOff`, an open circuit is stamped anew only by
  callers that leave the finite set of those admitted before it opened, a set
  nobody joins, so that its recovery period does elapse.
* **FollowUps_proofs**: `TypeCorrect`, `StatusBacked`, `NeverGoesBack`,
  `AtMostTwo` (`TwoFollowUps`), `FollowUpsAreSpaced` (`MailsAreSpaced`). For the
  first three the strengthening is about the pass in the middle of a send: it
  has a campaign, and the one that sends the second follow-up found the first
  one sent. The bound on mails needs a budget, `MailsBudgeted`: the mails of a
  campaign and the passes that are sending to it are together no more than what
  its status accounts for, one more if the mail it waits for is on its way, the
  faults, and the sends that overlapped another. The spacing follows from what
  holds of a campaign as long as nothing has overlapped or failed (`Spaced`): one
  pass at most sends to it, the mail its status waits for, and the number of
  mails is what the status says.
* **AgentScheduler_proofs**: `AgentsStaySound` (`AgentsAreSound`), `EventsServe`
  (`EventServesUntouched`), `StartsAreSpaced` (`StartsSpaced`), for any
  schedules, names, objects, events, retries and interval. `IInv` has six parts:
  types, with no id in two slots; a coroutine does not have its own schedule
  before it, unless it was replaced (`Passed`); the states an object can be in,
  given the runs it has (`Lives`); a schedule nobody edits stays installed, enabled
  and named (`Intact`); what an event will not serve any more although nobody
  edited it, together with the free slots, is no more than the removals
  (`Serving`); and what was due when the loop woke and is still before it is due
  (`DueIsDue`). Two lemmas carry it. Rebuilding the table moves every id down, and
  takes no more of them past a position than there were free slots (`BehindIs`,
  with pigeons in the slots before it); so what is lost is paid for by slots that
  are free no longer. And `Iterate` is a search for the first eligible schedule:
  `IterateIs` gives what was skipped, what was taken and what is left, and every
  action that advances a coroutine uses it.
* **Platform_proofs** has the governor, the limiters, the executor, the accounts
  and the records.

  *Governor.* `GovernorKeepsLimits` (`LimitsHold`) and `BreakerIsHonest`
  (`BreakerFollowsFailures`). Slots count the calls in progress of every agent (a
  call joins or leaves the set whose cardinality the counter is). The breaker
  needs that an open one has its full count of failures, which is why a breaker
  in recovery is exactly one that fails. The quota rests on a lemma about logs:
  a sequence of ages, oldest first, *counts* a history if for every *i* its last
  `history[i]` entries are those younger than *i*; dropping what has expired,
  appending one and a tick keep that. The code prunes only when it checks, so the
  log may be longer than the window; it also has the calls of agents without a
  quota. The metered calls of a window are among all of it, and a metered call is
  let through only where all are below the limit.

  *Limiters.* `LimitersKeepRates` (`RatesHold`), the four of them. A token bucket
  never lets more through than its largest request or its capacity over a leaky
  bucket that drains at its rate: with the lock held, level and sleep of the
  holder move together. The limiter of the crawler keeps no lock: what passes at
  once is paid from the credit, which no sleep adds to for good, since the end of a
  sleep takes it all; and a caller that sleeps has its `late` bounded by the sleep
  that is left and the credit that was added meanwhile (`WaiterInv`), which drains
  twice as fast as it grows. The sliding window is a log as
  above. The fixed window's counter is what was let through since its bucket
  began, and what is younger than a window but older than that is from one
  bucket more.

  *Executor.* `ExecutionsAccounted` (`ExecutionIsAccounted`). The log is tied to
  the e-mails through the handler that waits: it awaits one call, and what it
  will log is what that call says. A rollback point may be pushed out of the
  history by others while its action is still in progress, so the bound counts:
  behind the point of an action in progress are only points of newer actions, or
  at least `MaxHistory` began since. Withheld actions have no coroutine, so they
  leave no trace.

  *Accounts.* `EmailsLeadToAccounts`: the whole of `AccountsAreSound`,
  for any calls and e-mails. `RegisteredCanLogIn` says nothing of the calls that
  were refused or are under way, so it is not inductive; the invariant adds that
  who stored its account has its e-mail stand for some account, that an account
  is kept unless its user was removed, which only happens to who registered,
  that whoever is refused has its e-mail taken, and that in memory an account
  and its e-mail point to one another.
  *Records.* `PagesStaySound` (`PagesAreSound`), for any tenants, ids, limits and
  either store. Between two pages the reader has what it was given in ascending
  order of the ids shown, with repetitions only of different records of the memory
  store, and nothing beyond its cursor, and the id of every steady record up to the
  cursor, unless PostgreSQL has more rows than it lists; steady records are
  visible, and as long as the tenant was never crowded the visible ones are no
  more than `ListCap`; what was given belongs to the reader or to everyone, or was
  deleted or changed since. A page is a prefix of what lies behind the cursor,
  sorted; that any finite set can be sorted by the ids it shows is proved by a
  smallest counterexample.

  *Canonical crawl.* `CrawlsVisitAllWithin` (`SiteIsCrawled`), for any links, limits
  and failures. What is within n links of the seed is stated by paths over the
  pages that answered, not by recursion. The invariant `InBreadth` says that the
  depths in the queue rise and differ by one at most, that whatever is within n
  links was seen or is queued at n or less, and that, until the last level is
  reached, the links of every answered page are seen or queued. When one more
  page answers, a path over it meets it a first time (`NewPath`); by then it was
  within reach over the others, so that the queue has it no deeper than the path
  does. Each part is needed: with depths out of order a page could be visited
  too deep first, and its links would never be followed.
* **SourceAgents_proofs** has the competitor watch, the content calls and the
  advice of the content agent, the decision engine, the crawler, the rank and
  the technical agent.

  *Content.* `CallsOfForgeEndWell` (`CallsEndWell`), for any drafts, reviews and
  length of an outline. The invariant says for every place where a draft awaits
  its provider how many sections it has by then and whether what it was given
  can make it raise; that a call at its end leaves the agent idle when no other
  is under way follows from who has set the status last.

  *Competitors.* `WatchSound`, the whole of `WatchIsSound`, for any
  runs, rivals and articles. The invariant says that the reports of an article
  are as many as the sets that contain it, and that every set was made by an
  early run, hence the bound by the number of early runs; and that the listed
  gaps are those with fewer than `MaxGaps` larger ones. That none is missing
  follows by taking, among the gaps left out, one with a minimal set above it:
  the subsets of a finite set are well-founded, and everything above it is
  listed.

  *Decisions.* `DecisionsStayFair` (`DecisionsAreFair`), for any tasks with natural
  impacts, requests and conflicts. Inserting behind what scores as much keeps a
  queue in turn, because in such a queue the entries that go before a new one are
  the first ones; the invariant adds that nobody waits twice and who was sent does
  not wait. Budgets and shares have different names, so nobody has any of its own
  and everything granted comes from what is left of the day. The scores are
  monotone factor by factor. That a conflict has a highest score is again proved
  by a smallest counterexample.

  *Crawler.* `CrawlsStayAccounted` (`CrawlIsAccounted`) and `BatchesAreBest` (the
  action property `BestFirst`), for any runs, finite site, links, limits and
  depths. `URLFrontier.add` is modelled by where its stable sort puts new urls:
  behind all that ranks the same or better (`Added`). In a frontier that is in
  line the entries that go before a new one are the first ones (`PrefixIs`), so
  adding keeps it in line, and every batch, being a prefix, outranks what it
  leaves. The invariant `CrawlInv` adds to the property that frontier and batches
  are in line without repeats, that what is in a batch has no result yet, that
  what was fetched has a result, and that a run before its first batch has none;
  each is needed: a page could be fetched twice if a url of a batch had a result
  already. `Continue`, which five actions share, is dealt with once
  (`ContinueStep`), for what the place between two awaits promises it. That a run
  below its limit leaves nothing of its own behind holds because `Continue` ends
  a run only on an empty frontier, and whoever fills it later is under way.

  *Ranks.* `AlertsStayTrue` (`AlertsAreTrue`), for any calls, engines, answers and
  thresholds, zero and negative ones included. The falls of a history are
  counted, not filtered: an answer adds its predecessor to them or not
  (`FallsGrow`), so that the alert of a fall stands at the number of falls up to
  it. The invariant adds that a snapshot is the last stored answer, whichever
  call stored it; without that the comparison of an overlapping call would not
  be one of neighbours.

  *Audits.* `AuditsAreTruthful` (`AuditIsTruthful`) and `FixesOnlyImprove` (the
  action property `HealingImproves`), for any urls (repeated ones and none
  included), pages, measurements and thresholds. The invariant `AuditInv` says
  that the check in progress has an entry of each url it has not left to do and
  every other check all or none; that what is left of the fixes of a url is what
  was not announced; and that a page whose healing found nothing shows no issue.
  The last holds on whatever the executor does in between, because a fix in its
  inbox was made with confidence (`GoodFix`) and takes issues away without
  bringing any (`HealsIssues`).

  *Advice.* `AdviceStaysSound` (`AdviceIsSound`), for any countable pages, keywords
  and words inserted. A followed recommendation stays silent because what it
  asked for stays on the page (`Settled`), whatever is followed later; the one
  edit that takes something away leaves two topical paragraphs, which are enough.
  The exception is in the statement: the points for passages need two paragraphs.
  A page without a word has a Google score of 79.5 at most (50 of its points for
  keyword usage if it has no keyword to look for) and 51.3 for answers, so less
  than the 150 of P3, whatever its marks promise. The clusters are a recursive
  function of the keywords read; that it exists, and that what it yields is
  `Apart`, is proved by the shortest prefix of which it would not hold. `Apart`
  is stronger than the property: every keyword is in the *first* cluster to whose
  key it is related, and from that no keyword is in two.

Sums over histories are stated cumulatively in the model, and positions in
sequences by `SelectInSeq` and `SubSeq` instead of filters, so that a step
changes them by a formula and no induction over data is needed.

Only model-checked: every liveness property (`EveryRequestAnswered`,
`CommandsAreDone`, `CallsReturn`, `CircuitRecloses`, `CampaignEnds`,
`DueIsDispatched`: the provers have no rule for fairness and ENABLED). Every
invariant and every action property of the runs that hold is a theorem.

## 6. What is not modelled, and the plan

Not modelled on purpose: signing and hashing, HTTP and SQL libraries, request
builders, prompts and text generation, rendering, manifests; they keep no state
that the properties could be about. Webhook verification is a comparison and one
claim on a key that nothing else reads (SET NX EX, or a dict in one process), and
an event is published with one command that nobody in the repository reads.
Further limits of the modelled components:

* parsers of HTML, XML and robots.txt are choices of what they can find; the
  frontier's limit of half a million known urls is out of reach;
* of a tenant record's values only the id and the owner it shows are modelled;
* floating-point rounding: scores, densities, tokens and times are exact;
* the triggers of the decision engine compare one event with constants;
* discovery pipelines of the outreach agent (HARO, broken links, guest posts,
  mentions), content gaps and backlinks of a competitor, and the canonical
  agents other than the sentinel, shape one provider's answer; the first e-mail
  of a campaign is sent by code outside the repository.

Hazards that were looked at and have no property of their own:

* the wildcard handlers' list growth (`source_agents/scheduler.py:130`) is in the
  model, and a handler that runs once more breaks no promise the code makes;
* dispatch asks for budgets under API names that have none
  (`source_agents/decision.py:624`), so it is granted nothing of them: the model
  keeps the two vocabularies, and the code does not say what should happen;
* an old success closes a circuit that newer failures opened
  (`integrations/base.py:129`): `Succeed` does it, and the code asks for no more
  than that circuit and count agree;
* a handler that dies half way through a revocation leaves the members it has not
  reached (`auth.py:159`): the promise of `RefreshFamilies` ends with a crash;
* approval is granted and never taken back, so the one look at it
  (`source_agents/executor.py:218`) cannot be stale;
* `validate` calls a single typed object or an array invalid
  (`source_agents/technical.py:364`): kept in `SchemaEntry`;
* a notification or an indexing request that reached nobody is a success in the
  log (`source_agents/executor.py:307`): only e-mails are verified;
* refusals (401, 403, 404) count against a provider (`integrations/base.py:134`);
* a list has a hundred rows at most (`api/postgres_store.py:171`): the condition
  of `PagesMissNothing`;
* heartbeats go to a queue that no worker consumes (`celery_app.py:32`, `:90`): in
  `TaskDelivery` they wait for good, and so `CommandsAreDone` is about commands;
* a soft-deleted row is found and confirmed as deleted again
  (`api/postgres_store.py:226`): `DeleteRecord` does it.

What is left of the plan:

1. `CommandDispatch` and `TaskDelivery` composed: an accepted command ends as a
   reported run.
2. The first e-mail of a campaign, as `OutreachAgent` prepares it, in front of
   `FollowUps`.
