-------------------------------- MODULE SiteCrawl --------------------------------
(***************************************************************************)
(* The crawl of the canonical sentinel agent (implementations.py): breadth *)
(* first over the links of one origin, with limits on pages and depth.     *)
(* Agent.run (base.py) turns what it raises into a failed result.          *)
(***************************************************************************)
EXTENDS Integers, Sequences, FiniteSets, SequencesExt, SetOrder

CONSTANTS
    Web,           \* urls of the origin
    SeedUrl,
    Hrefs,         \* url -> sequence of the links on its page
    Down,          \* urls that may fail to answer
    Unparsable,    \* urls that httpx may refuse, or whose page may hold a link urljoin refuses
    PageCaps, DepthCap  \* the values of max_pages that are asked for, and max_depth

VARIABLES
    pageCap,       \* max_pages
    siteQueue,     \* queue: <<url, depth>>
    siteSeen,      \* seen
    pagesFound,    \* pages: <<url, outcome>>
    crawlStatus    \* "running", "completed" or "failed"

ASSUME SiteAssumption ==
    /\ SeedUrl \in Web /\ Hrefs \in [Web -> Seq(Web)]
    /\ PageCaps \subseteq Nat /\ DepthCap \in Nat

siteVars == <<pageCap, siteQueue, siteSeen, pagesFound, crawlStatus>>

SiteInit ==
    /\ pageCap \in PageCaps
    /\ siteQueue = <<<<SeedUrl, 0>>>> /\ siteSeen = {} /\ pagesFound = <<>>
    /\ crawlStatus \in {"running", "failed"}    \* a blocked host ends the run at once

\* Mutant of Shallow: off by one.
Unseen(url) == url \notin siteSeen
ShallowOnly(depth) == depth + 1 < DepthCap
Shallow(depth) == depth < DepthCap

\* The candidates among the links of a page that were not seen, one level deeper.
Fresh(links, now, depth) ==
    LET kept == InOrder({i \in DOMAIN links : links[i] \notin now})
    IN  [n \in DOMAIN kept |-> <<links[kept[n]], depth + 1>>]

\* queue.pop(0) of a url that was seen, or of one that is fetched.
SkipSeen ==
    /\ crawlStatus = "running" /\ siteQueue # <<>> /\ Len(pagesFound) < pageCap
    /\ ~Unseen(Head(siteQueue)[1])
    /\ siteQueue' = Tail(siteQueue)
    /\ UNCHANGED <<pageCap, siteSeen, pagesFound, crawlStatus>>

FetchPage ==
    /\ crawlStatus = "running" /\ siteQueue # <<>> /\ Len(pagesFound) < pageCap
    /\ LET url == Head(siteQueue)[1]
           depth == Head(siteQueue)[2]
       IN  /\ Unseen(url)
           /\ siteSeen' = siteSeen \cup {url}
           /\ \E outcome \in {"page"} \cup (IF url \in Down THEN {"unreachable"} ELSE {}) :
                 /\ pagesFound' = Append(pagesFound, <<url, outcome>>)
                 /\ siteQueue' = Tail(siteQueue) \o
                       IF outcome = "page" /\ Shallow(depth)
                       THEN Fresh(Hrefs[url], siteSeen', depth) ELSE <<>>
    /\ UNCHANGED <<pageCap, crawlStatus>>

\* InvalidURL and ValueError are no HTTPError: they end the run, and its pages are lost.
FetchRaises ==
    /\ crawlStatus = "running" /\ siteQueue # <<>> /\ Len(pagesFound) < pageCap
    /\ Unseen(Head(siteQueue)[1]) /\ Head(siteQueue)[1] \in Unparsable
    /\ crawlStatus' = "failed"
    /\ UNCHANGED <<pageCap, siteQueue, siteSeen, pagesFound>>

CrawlEnds ==
    /\ crawlStatus = "running" /\ (siteQueue = <<>> \/ Len(pagesFound) >= pageCap)
    /\ crawlStatus' = "completed"
    /\ UNCHANGED <<pageCap, siteQueue, siteSeen, pagesFound>>

SiteNext == SkipSeen \/ FetchPage \/ FetchRaises \/ CrawlEnds

SiteSpec == SiteInit /\ [][SiteNext]_siteVars

(***************************************************************************)
(* Properties                                                              *)
(***************************************************************************)
(* The result has as many pages as urls were visited, within the limit.    *)
SiteTypeOK ==
    /\ siteSeen = {pagesFound[i][1] : i \in DOMAIN pagesFound} /\ Len(pagesFound) <= pageCap
    /\ \A i \in DOMAIN siteQueue : siteQueue[i][2] <= DepthCap
    /\ Len(pagesFound) = Cardinality(siteSeen)

\* Urls at the end of a path of n links or fewer from the seed, over pages of A.
Leads(path, k, u, A) ==
    /\ path[0] = SeedUrl /\ path[k] = u
    /\ \A i \in 0..k - 1 : path[i] \in A /\ path[i + 1] \in ToSet(Hrefs[path[i]])
Within(A, n) ==
    {u \in Web : \E k \in 0..n : \E path \in [0..k -> Web] : Leads(path, k, u, A)}
AnsweredUrls == {pagesFound[i][1] : i \in {j \in DOMAIN pagesFound : pagesFound[j][2] = "page"}}

(***************************************************************************)
(* A url that is queued at a greater depth first, or twice, does not cut   *)
(* the crawl short: if it ends below its limit it has visited exactly the  *)
(* urls within max_depth links of the seed.                                *)
(***************************************************************************)
CrawlIsComplete ==
    (crawlStatus = "completed" /\ Len(pagesFound) < pageCap) => siteSeen = Within(AnsweredUrls, DepthCap)

(***************************************************************************)
(* The crawl of the canonical sentinel is complete, and its result has     *)
(* each page once.                                                         *)
(***************************************************************************)
SiteIsCrawled == SiteTypeOK /\ CrawlIsComplete
==================================================================================
