---------------------------- MODULE MCSourceAgents ----------------------------
(***************************************************************************)
(* The source agents next to one another.  They share no state, so that a  *)
(* behaviour is one agent's: Init chooses it, and the others stay where    *)
(* they begin, with one of their initial states.                           *)
(***************************************************************************)
EXTENDS Crawler, RankTracking, CompetitorWatch, TechnicalAudit, ContentPipeline,
        ContentAudit, SiteCrawl

VARIABLE part
groupVars == <<crawlVars, rankVars, watchVars, auditVars, contentVars, pageVars, siteVars, part>>

(***************************************************************************)
(* Instances                                                               *)
(***************************************************************************)
MCSite == {"a", "c"}
MCLinks == [home |-> {"a", "b"}, a |-> {"b", "c"}, b |-> {"home", "a"}, c |-> {}]

MCEngines == <<"google", "bing">>
Answer(ours, theirs) == [ours |-> ours, theirs |-> theirs]
MCPage == {Answer(1, <<>>), Answer(1, <<3>>), Answer(4, <<3>>), Answer(6, <<>>), Answer(Missing, <<>>)}
MCMaxAnswers == [google |-> 3, bing |-> 1]

MCRivals == <<"c1">>
MCVolume == [k1 |-> 5, k2 |-> 3, k3 |-> 4]

MCUrls == <<"u1", "u2">>
Tidy == [title |-> "long", desc |-> "missing", h1 |-> 2, noAlt |-> 0, canonical |-> TRUE,
         schema |-> "single", og |-> TRUE, viewport |-> TRUE, https |-> TRUE]
Bare == [title |-> "missing", desc |-> "ok", h1 |-> 0, noAlt |-> 60, canonical |-> TRUE,
         schema |-> "none", og |-> FALSE, viewport |-> FALSE, https |-> FALSE]
MCPages == {Tidy, Bare}
Measure(lcp, inp, cls) == [lcp |-> lcp, inp |-> inp, cls |-> cls]
Fair == "needs_improvement"
MCVitals == {Measure("good", "good", "good"), Measure("good", Fair, Fair),
             Measure(Fair, Fair, Fair), Measure("poor", "poor", Fair)}

Page0 == [marks |-> {}, h1 |-> 0, h2 |-> 0, words |-> 0, keywords |-> 0, paragraphs |-> 0,
          internal |-> 0, images |-> 0, alt |-> 0, questions |-> 0, capitalised |-> 0,
          external |-> 0, sentence |-> 0, opening |-> 0, bullets |-> 0, numbered |-> 0,
          topical |-> 0, authorities |-> 0, textRatio |-> 0]
AllMarks == Mark \ {"early_keyword", "untargeted"}
Shell == [Page0 EXCEPT !.marks = AllMarks, !.h1 = 1, !.h2 = 3, !.internal = 10, !.images = 2,
                       !.alt = 2, !.external = 5, !.authorities = 3]
Thin == [Page0 EXCEPT !.words = 300, !.paragraphs = 2, !.sentence = 18, !.keywords = 2,
                      !.capitalised = 70, !.h1 = 2, !.opening = 100, !.topical = 1]
Single == [Thin EXCEPT !.words = 200, !.keywords = 5, !.paragraphs = 1, !.topical = 0, !.sentence = 0]
Rich == [Shell EXCEPT !.words = 2000, !.paragraphs = 9, !.sentence = 14, !.keywords = 20,
                      !.marks = @ \ {"faq", "recent", "data", "date_markup"}, !.external = 2,
                      !.capitalised = 300, !.textRatio = 60, !.opening = 10]
Untargeted == [Shell EXCEPT !.marks = Mark]
MCDrafts == {Page0, Shell, Thin, Single, Rich, Untargeted}
MCPhrases == UNION {[1..n -> {{"seo"}, {"seo", "tool"}, {"tool"}, {"link"}, {}}] : n \in 1..3}

MCHrefs == [home |-> <<"b", "a", "b">>, a |-> <<"home", "c", "b">>, b |-> <<"d">>,
            c |-> <<"e">>, d |-> <<"e", "f">>, e |-> <<>>, f |-> <<>>]

(***************************************************************************)
(* The choices of Init that only matter to their own part are made once    *)
(* in the others.                                                          *)
(***************************************************************************)
Init ==
    /\ part \in {"crawl", "rank", "rivals", "audit", "content", "page", "site"}
    /\ CrawlerInit /\ (part # "crawl" => mode = [r \in Crawl |-> "full"])
    /\ RankInit /\ WatchInit /\ ContentInit
    /\ AuditInit /\ (part # "audit" => ~autoHeal /\ site = [u \in AuditedUrl |-> Tidy]
                                       /\ \A t \in Thresholds : threshold <= t)
    /\ PageInit /\ (part # "page" => page = Page0)
    /\ SiteInit /\ (part # "site" => crawlStatus = "failed" /\ \A n \in PageCaps : pageCap <= n)

Next ==
    \/ /\ part = "crawl" /\ CrawlerNext
       /\ UNCHANGED <<rankVars, watchVars, auditVars, contentVars, pageVars, siteVars, part>>
    \/ /\ part = "rank" /\ RankNext
       /\ UNCHANGED <<crawlVars, watchVars, auditVars, contentVars, pageVars, siteVars, part>>
    \/ /\ part = "rivals" /\ WatchNext
       /\ UNCHANGED <<crawlVars, rankVars, auditVars, contentVars, pageVars, siteVars, part>>
    \/ /\ part = "audit" /\ AuditNext
       /\ UNCHANGED <<crawlVars, rankVars, watchVars, contentVars, pageVars, siteVars, part>>
    \/ /\ part = "content" /\ ContentNext
       /\ UNCHANGED <<crawlVars, rankVars, watchVars, auditVars, pageVars, siteVars, part>>
    \/ /\ part = "page" /\ PageNext
       /\ UNCHANGED <<crawlVars, rankVars, watchVars, auditVars, contentVars, siteVars, part>>
    \/ /\ part = "site" /\ SiteNext
       /\ UNCHANGED <<crawlVars, rankVars, watchVars, auditVars, contentVars, pageVars, part>>

Spec == Init /\ [][Next]_groupVars
===============================================================================
