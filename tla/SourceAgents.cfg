SPECIFICATION Spec
CONSTANTS
    Crawl = {r1, r2}
    Url = {"home", "a", "b", "c"}
    Home = "home"
    Site <- MCSite
    Links <- MCLinks
    Disallowed = {"b"}
    Modes = {"full", "incremental"}
    Changed = {"b"}
    MaxUrls = 2
    Burst = 2
    MaxDepth = 1
    Tracking = {t1, t2, t3}
    Engines <- MCEngines
    Page <- MCPage
    DropAt = 3
    GainAt = 2
    MaxAnswers <- MCMaxAnswers
    Watch = {w1, w2, w3}
    Rivals <- MCRivals
    Article = {u, v}
    NoSet = NoSet
    Volume <- MCVolume
    MaxGaps = 2
    Urls <- MCUrls
    Pages <- MCPages
    Vitals <- MCVitals
    Tasks = {"cwv_check", "schema_validation", "self_heal", "tech_audit", "meta_audit"}
    Thresholds = {87}
    ImageCap = 20
    MaxRounds = 1
    Draft = {d1, d2}
    Review = {v1}
    MaxSections = 2
    Drafts <- MCDrafts
    Phrases <- MCPhrases
    Inserted = 60
    Web = {"home", "a", "b", "c", "d", "e", "f"}
    SeedUrl = "home"
    Hrefs <- MCHrefs
    Down = {"a", "b", "c"}
    Unparsable = {"d"}
    PageCaps = {3, 7}
    DepthCap = 2
INVARIANTS CrawlIsAccounted AlertsAreTrue WatchIsSound AuditIsTruthful CallsEndWell AdviceIsSound SiteIsCrawled
PROPERTIES BestFirst HealingImproves
CHECK_DEADLOCK FALSE
