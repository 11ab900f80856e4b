------------------------------- MODULE Crawler -------------------------------
(***************************************************************************)
(* The sentinel agent (crawler.py): overlapping runs of execute on one     *)
(* agent object share its URLFrontier and its RobotsParser, which live as  *)
(* long as the agent.  A step is the code between two awaits: a fetch, the *)
(* rate limiter, the publication of an event, the index checks.            *)
(***************************************************************************)
EXTENDS Integers, Sequences, FiniteSets, SequencesExt

CONSTANTS
    Crawl,         \* runs of execute
    Url,           \* URLs after _normalize
    Home, Site,    \* the home page and the pages its sitemaps list
    Links,         \* url -> its internal links
    Disallowed,    \* what robots.txt disallows while it can be fetched
    Modes,         \* the crawl types that are asked for
    Changed,       \* the urls of an incremental task
    MaxUrls, Burst, MaxDepth

ASSUME CrawlerAssumption ==
    /\ IsFiniteSet(Url) /\ Home \in Url /\ Site \subseteq Url /\ Changed \subseteq Url
    /\ \A u \in Url : Links[u] \subseteq Url
    /\ MaxUrls \in Nat /\ Burst \in Nat \ {0} /\ MaxDepth \in Nat

VARIABLES
    frontier,      \* _queue: <<priority, url, depth>>
    seen,          \* _seen
    robots,        \* the parsed robots.txt: {} at first, then one set of urls it disallows
    step,          \* of a run: where it awaits
    mode,          \* of a run: crawl_type
    batch,         \* of a run: what is left of its batch, as it was in the frontier
    results,       \* of a run: <<url, outcome>>
    notIndexed,    \* of a run: report.not_indexed
    fetched,       \* history: fetches of a url
    dropped        \* history: what failed runs still had in their batch

crawlVars == <<frontier, seen, robots, step, mode, batch, results, notIndexed, fetched, dropped>>

Outcome == {"ok", "moved", "broken", "error", "blocked"}
Reported(r) == {results[r][i][1] : i \in DOMAIN results[r]}
Batched(r) == {batch[r][i][2] : i \in DOMAIN batch[r]}
Queued == {frontier[i][2] : i \in DOMAIN frontier}

CrawlerInit ==
    /\ frontier = <<>> /\ seen = {} /\ robots = {} /\ dropped = {}
    /\ step = [r \in Crawl |-> "idle"]
    /\ mode \in [Crawl -> Modes]
    /\ batch = [r \in Crawl |-> <<>>] /\ results = [r \in Crawl |-> <<>>]
    /\ notIndexed = [r \in Crawl |-> {}]
    /\ fetched = [u \in Url |-> 0]

Entries(urls, priority, depth) ==
    LET order == SetToSeq(urls)
    IN  [i \in DOMAIN order |-> <<priority, order[i], depth>>]

\* Mutant of Added: urls go to the end of the frontier.
AddedLast(q, urls, priority, depth) == q \o Entries(urls, priority, depth)

(***************************************************************************)
(* URLFrontier.add of several urls that were not seen before: the queue is *)
(* sorted by priority and depth after each of them, and the sort is        *)
(* stable, so that together they go behind the ones that rank the same.    *)
(* The limit of half a million known urls is out of reach.                 *)
(***************************************************************************)
Ranked(q, priority, depth) ==
    {i \in DOMAIN q : \/ q[i][1] < priority
                      \/ q[i][1] = priority /\ q[i][3] <= depth}

Added(q, urls, priority, depth) ==
    LET k == Cardinality(Ranked(q, priority, depth))
    IN  SubSeq(q, 1, k) \o Entries(urls, priority, depth) \o SubSeq(q, k + 1, Len(q))

\* Mutant of Behind: a batch stays in the frontier.
BelowLimit(done) == Len(done) < MaxUrls
BehindNothing(q, n) == q
Behind(q, n) == SubSeq(q, n + 1, Len(q))

(***************************************************************************)
(* From the end of one url to the next await: the rest of the batch, a new *)
(* batch while there are urls and the limit is not reached, or the end of  *)
(* the loop.  q, rest and done are the frontier, batch and results so far. *)
(***************************************************************************)
Continue(r, q, rest, done) ==
    LET more == rest = <<>> /\ q # <<>> /\ BelowLimit(done)
        taken == SubSeq(q, 1, IF Len(q) < Burst THEN Len(q) ELSE Burst)
    IN  /\ results' = [results EXCEPT ![r] = done]
        /\ frontier' = IF more THEN Behind(q, Len(taken)) ELSE q
        /\ batch' = [batch EXCEPT ![r] = IF more THEN taken ELSE rest]
        /\ step' = [step EXCEPT ![r] =
                       IF more \/ rest # <<>> THEN "limited"
                       ELSE IF \E i \in DOMAIN done : done[i][2] = "ok" THEN "index" ELSE "done"]

Start(r) ==
    /\ step[r] = "idle"
    /\ step' = [step EXCEPT ![r] = "robots"]
    /\ UNCHANGED <<frontier, seen, robots, mode, batch, results, notIndexed, fetched, dropped>>

\* fetch_and_parse: a file that cannot be fetched disallows nothing.
RobotsFetched(r) ==
    /\ step[r] = "robots"
    /\ robots' \in {{Disallowed}, {{}}}
    /\ step' = [step EXCEPT ![r] = IF robots \in {{}, robots'} THEN "sitemaps" ELSE "robots_event"]
    /\ UNCHANGED <<frontier, seen, mode, batch, results, notIndexed, fetched, dropped>>

\* The sitemaps, or none of them, then the home page, then the first batch.
SitemapsFetched(r) ==
    /\ step[r] = "sitemaps"
    /\ \E listed \in {Site, {}} :
          LET asked == IF mode[r] = "full" THEN listed ELSE Changed
              fresh == asked \ seen
              q == Added(frontier, fresh, IF mode[r] = "full" THEN 2 ELSE 1, 0)
          IN  /\ seen' = seen \cup asked \cup {Home}
              /\ Continue(r, Added(q, {Home} \ (seen \cup asked), 0, 0), <<>>, <<>>)
    /\ UNCHANGED <<robots, mode, notIndexed, fetched, dropped>>

\* The rate limiter lets the run go on with the first url of its batch.
Visit(r) ==
    /\ step[r] = "limited"
    /\ LET u == Head(batch[r])[2]
       IN  IF u \in UNION robots
           THEN Continue(r, frontier, Tail(batch[r]), Append(results[r], <<u, "blocked">>))
           ELSE /\ step' = [step EXCEPT ![r] = "fetch"]
                /\ UNCHANGED <<frontier, batch, results>>
    /\ UNCHANGED <<seen, robots, mode, notIndexed, fetched, dropped>>

DeepEnough(depth) == depth >= MaxDepth

\* _crawl_url returns; a page that was found, or that answered with another status below
\* 400, is searched for links.
Fetched(r) ==
    /\ step[r] = "fetch"
    /\ \E outcome \in Outcome \ {"blocked"} :
          LET u == Head(batch[r])[2]
              depth == Head(batch[r])[3]
              links == IF outcome \in {"ok", "moved"} /\ ~DeepEnough(depth) THEN Links[u] \ seen ELSE {}
              done == Append(results[r], <<u, outcome>>)
          IN  /\ fetched' = [fetched EXCEPT ![u] = @ + 1]
              /\ seen' = seen \cup links
              /\ IF outcome = "broken"
                 THEN /\ step' = [step EXCEPT ![r] = "broken_event"]
                      /\ results' = [results EXCEPT ![r] = done]
                      /\ batch' = [batch EXCEPT ![r] = Tail(@)]
                      /\ UNCHANGED frontier
                 ELSE Continue(r, Added(frontier, links, depth + 3, depth + 1), Tail(batch[r]), done)
    /\ UNCHANGED <<robots, mode, notIndexed, dropped>>

EventSent(r) ==
    \/ /\ step[r] = "robots_event"
       /\ step' = [step EXCEPT ![r] = "sitemaps"]
       /\ UNCHANGED <<frontier, batch, results>>
       /\ UNCHANGED <<seen, robots, mode, notIndexed, fetched, dropped>>
    \/ /\ step[r] = "broken_event"
       /\ Continue(r, frontier, batch[r], results[r])
       /\ UNCHANGED <<seen, robots, mode, notIndexed, fetched, dropped>>

\* The publication raises and execute with it.
EventFails(r) ==
    /\ step[r] \in {"robots_event", "broken_event"}
    /\ step' = [step EXCEPT ![r] = "failed"]
    /\ dropped' = dropped \cup Batched(r)
    /\ batch' = [batch EXCEPT ![r] = <<>>]
    /\ UNCHANGED <<frontier, seen, robots, mode, results, notIndexed, fetched>>

(***************************************************************************)
(* check_all_engines for the pages that were found.  Google and Bing say   *)
(* "indexed" or not, an exception says neither, and an answer without the  *)
(* field, such as an error in JSON, counts as not indexed.                 *)
(***************************************************************************)
IndexChecked(r) ==
    /\ step[r] = "index"
    /\ step' = [step EXCEPT ![r] = "done"]
    /\ \E missing \in SUBSET {results[r][i][1] : i \in {j \in DOMAIN results[r] : results[r][j][2] = "ok"}} :
          notIndexed' = [notIndexed EXCEPT ![r] = missing]
    /\ UNCHANGED <<frontier, seen, robots, mode, batch, results, fetched, dropped>>

CrawlerNext ==
    \E r \in Crawl :
        \/ Start(r) \/ RobotsFetched(r) \/ SitemapsFetched(r) \/ Visit(r)
        \/ Fetched(r) \/ EventSent(r) \/ EventFails(r) \/ IndexChecked(r)

CrawlerSpec == CrawlerInit /\ [][CrawlerNext]_crawlVars

(***************************************************************************)
(* Properties                                                              *)
(***************************************************************************)
(* The frontier, the batches and the reports hold known urls.              *)
CrawlerTypeOK ==
    /\ Queued \cup dropped \subseteq seen /\ seen \subseteq Url
    /\ \A i \in DOMAIN frontier : frontier[i][3] <= MaxDepth
    /\ step \in [Crawl -> {"idle", "robots", "robots_event", "sitemaps", "limited", "fetch",
                           "broken_event", "index", "done", "failed"}]
    /\ \A r \in Crawl : \A i \in DOMAIN results[r] : results[r][i] \in Url \X Outcome

(***************************************************************************)
(* However runs overlap, no page is fetched twice in the life of the agent.*)
(***************************************************************************)
FetchedOnce == \A u \in Url : fetched[u] <= 1

(***************************************************************************)
(* A url that was ever seen waits in the frontier, is in the batch of one  *)
(* run, or is in the report of one run: it is lost only where a run failed *)
(* with the rest of its batch.                                             *)
(***************************************************************************)
SeenIsAccountedFor ==
    /\ seen = Queued \cup dropped \cup UNION {Batched(r) \cup Reported(r) : r \in Crawl}
    /\ Len(frontier) = Cardinality(Queued)
    /\ \A r \in Crawl :
          /\ Queued \cap (Batched(r) \cup Reported(r)) = {}
          /\ \A other \in Crawl \ {r} :
                (Batched(r) \cup Reported(r)) \cap (Batched(other) \cup Reported(other)) = {}

(***************************************************************************)
(* A run goes over max_urls by less than one batch, and the run that ended *)
(* under the limit left nothing behind that it had found itself: only      *)
(* another run can have added to the frontier since.                       *)
(***************************************************************************)
LimitHolds ==
    \A r \in Crawl :
        /\ Len(results[r]) + Len(batch[r]) < MaxUrls + Burst
        /\ (step[r] = "done" /\ frontier # <<>> /\ Len(results[r]) < MaxUrls)
              => \E other \in Crawl \ {r} : step[other] \notin {"idle", "robots"}

(***************************************************************************)
(* The batch that a run takes outranks everything it leaves behind.        *)
(***************************************************************************)
Takes(r) ==
    /\ batch'[r] \notin {<<>>, batch[r]}
    /\ batch[r] # <<>> => batch'[r] # Tail(batch[r])
BestFirst ==
    [][\A r \in Crawl : Takes(r) =>
          \A i \in DOMAIN batch'[r], j \in DOMAIN frontier' :
              batch'[r][i][1] <= frontier'[j][1]]_crawlVars

(***************************************************************************)
(* Overlapping crawls lose nothing and do nothing twice                    *)
(* (SentinelAgent.execute): the three above, and the types.                *)
(***************************************************************************)
CrawlIsAccounted == CrawlerTypeOK /\ FetchedOnce /\ SeenIsAccountedFor /\ LimitHolds
===============================================================================
