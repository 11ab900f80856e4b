------------------------------ MODULE ContentAudit ------------------------------
(***************************************************************************)
(* What the content agent computes (content.py): the scores, the priority  *)
(* and the recommendations of a page, whose author edits it as they say,   *)
(* and the clusters of a list of keywords.                                 *)
(***************************************************************************)
EXTENDS Integers, Sequences, FiniteSets, FiniteSetsExt, SequencesExt

CONSTANTS
    Drafts,        \* the pages there may be at first
    Phrases,       \* sequences of keywords to cluster; a keyword is its set of words
    Inserted       \* words that answers to questions add to the text

VARIABLES
    page,          \* the page that is audited
    followed,      \* history: recommendations its author followed
    alone,         \* history: passage_independence was last followed on at most one paragraph
    clusters       \* the result of cluster_keywords: <<key, members>>

pageVars == <<page, followed, alone, clusters>>

(***************************************************************************)
(* OnPageAuditor: marks are what it searches html for and "untargeted" if  *)
(* there is no keyword to look for, the other fields are numbers it        *)
(* counts: keywords are the words of its occurrences, sentence is the mean *)
(* length of a sentence, rounded up, and 0 if there is none.  Paragraphs,  *)
(* questions, items of lists and words of a kind are counted in the text,  *)
(* so that there are none where it has no word, and a paragraph elsewhere. *)
(***************************************************************************)
Mark == {"title", "title_length", "title_keyword", "desc", "desc_length", "desc_keyword",
         "desc_action", "h1_keyword", "author", "dated", "sources", "expert", "short_path",
         "keyword_path", "no_underscore", "viewport", "font", "line_height", "ld_json",
         "typed", "context", "article", "faq", "data", "statistics", "recent", "date_markup",
         "noscript", "early_keyword", "untargeted"}

AuditedPage ==
    [marks : SUBSET Mark, h1 : Nat, h2 : Nat, words : Nat, keywords : Nat, paragraphs : Nat,
     internal : Nat, images : Nat, alt : Nat, questions : Nat, capitalised : Nat,
     external : Nat, sentence : Nat, opening : Nat, bullets : Nat, numbered : Nat,
     topical : 0..3, authorities : Nat, textRatio : 0..100]

Countable(p) ==
    /\ p.alt <= p.images /\ p.topical <= p.paragraphs
    /\ p.opening <= p.words /\ p.capitalised <= p.words
    /\ (p.words = 0) <=> (p.paragraphs = 0)
    /\ p.words = 0 => p.questions + p.bullets + p.numbered + p.sentence = 0

ASSUME PageAssumption ==
    /\ \A p \in Drafts : p \in AuditedPage /\ Countable(p)
    /\ \A q \in Phrases : q \in Seq(ToSet(q))
    /\ Inserted \in Nat \ {0}

(***************************************************************************)
(* The points of a page for each signal, in tenths.                        *)
(***************************************************************************)
Bonus(condition, points) == IF condition THEN points * 10 ELSE 0
Marked(p, mark, points) == Bonus(mark \in p.marks, points)
\* A density of 0.5 to 2.5 percent.
Dense(p) == 5 * p.words <= 1000 * p.keywords /\ 1000 * p.keywords <= 25 * p.words

GooglePoints(p) ==
    [title_optimization |-> IF "title" \notin p.marks THEN 0
         ELSE 500 + Marked(p, "title_length", 20) + Marked(p, "title_keyword", 30),
     meta_description |-> IF "desc" \notin p.marks THEN 0
         ELSE 400 + Marked(p, "desc_length", 30) + Marked(p, "desc_keyword", 20)
              + Marked(p, "desc_action", 10),
     heading_structure |-> 300 + Bonus(p.h1 = 1, 30) + Bonus(p.h1 > 1, 10)
         + Bonus(p.h2 >= 2, 20) + Bonus(p.h1 > 0 /\ "h1_keyword" \in p.marks, 20),
     content_depth |-> 200 + Bonus(p.words >= 300, 20) + Bonus(p.words >= 1000, 20)
         + Bonus(p.words >= 2000, 20) + Bonus(p.paragraphs >= 5, 20),
     keyword_usage |-> IF "untargeted" \in p.marks THEN 500 ELSE IF p.words = 0 THEN 0
         ELSE 300 + Bonus(Dense(p), 40) + Bonus(p.keywords > 0 /\ ~Dense(p), 20)
              + Marked(p, "early_keyword", 30),
     internal_linking |-> 300 + Bonus(p.internal >= 3, 30) + Bonus(p.internal >= 5, 20)
         + Bonus(p.internal >= 10, 20),
     image_optimization |-> IF p.images = 0 THEN 500 ELSE 500 + (p.alt * 500) \div p.images,
     eeat_signals |-> 300 + Marked(p, "author", 20) + Marked(p, "dated", 15)
         + Marked(p, "sources", 20) + Marked(p, "expert", 15),
     url_structure |-> 400 + Marked(p, "short_path", 20) + Marked(p, "keyword_path", 30)
         + Marked(p, "no_underscore", 10),
     mobile_readability |-> 500 + Marked(p, "viewport", 30) + Marked(p, "font", 10)
         + Marked(p, "line_height", 10),
     schema_markup |-> 200 + Marked(p, "ld_json", 40) + Marked(p, "typed", 20)
         + Marked(p, "article", 10) + Marked(p, "faq", 10),
     page_speed_correlation |-> 500]

AiPoints(p) ==
    [question_answer_format |-> 200 + Bonus(p.questions >= 3, 30) + Bonus(p.questions >= 5, 20)
         + Marked(p, "faq", 30),
     structured_data |-> 300 + Marked(p, "ld_json", 40) + Marked(p, "context", 30),
     entity_clarity |-> IF p.words = 0 THEN 0 ELSE Min({(p.capitalised * 2000) \div p.words, 1000}),
     citation_worthiness |-> 200 + Bonus(p.external >= 3, 30) + Marked(p, "data", 30)
         + Marked(p, "statistics", 20),
     conversational_tone |-> IF p.sentence = 0 THEN 0
         ELSE 500 + Bonus(p.sentence <= 20, 25) + Bonus(p.sentence <= 15, 25),
     featured_snippet_ready |-> 200 + Bonus(p.paragraphs > 0 /\ p.opening \in 40..60, 40)
         + Bonus(p.bullets >= 3, 20) + Bonus(p.numbered >= 3, 20),
     passage_independence |-> IF p.paragraphs = 0 THEN 0
         ELSE 300 + Bonus(p.paragraphs >= 5, 30) + p.topical * 133,
     freshness_signals |-> 300 + Marked(p, "recent", 40) + Marked(p, "date_markup", 30),
     source_authority |-> 300 + Bonus(p.authorities >= 1, 30) + Bonus(p.authorities >= 3, 20),
     ai_crawlability |-> 500 + Marked(p, "noscript", 10) + Bonus(p.textRatio > 30, 20)
         + Bonus(p.textRatio > 50, 20)]

\* DualScorer: weights in percent, totals rounded to tenths.
Rounded(sum) == (Min({sum, 100000}) + 50) \div 100

GoogleTotal(points) ==
    Rounded(10 * points.title_optimization + 8 * points.meta_description
        + 10 * points.heading_structure + 15 * points.content_depth
        + 12 * points.keyword_usage + 8 * points.internal_linking
        + 5 * points.image_optimization + 12 * points.eeat_signals
        + 5 * points.url_structure + 5 * points.mobile_readability
        + 5 * points.schema_markup + 5 * points.page_speed_correlation)

AiTotal(points) ==
    Rounded(15 * points.question_answer_format + 12 * points.structured_data
        + 12 * points.entity_clarity + 10 * points.citation_worthiness
        + 8 * points.conversational_tone + 12 * points.featured_snippet_ready
        + 10 * points.passage_independence + 8 * points.freshness_signals
        + 8 * points.source_authority + 5 * points.ai_crawlability)

PagePriority(p) ==
    LET both == GoogleTotal(GooglePoints(p)) + AiTotal(AiPoints(p))
    IN  CASE both < 800 -> "P0" [] both < 1200 -> "P1" [] both < 1500 -> "P2" [] OTHER -> "P3"

\* Mutant of Weak: the threshold itself is weak.
WeakOrFair(points) == points <= 500
Weak(points) == points < 500

\* The AEO and GEO recommendations: weak signals.  ai_crawlability cannot be below 50.
Recommended(p) ==
    {s \in {"question_answer_format", "featured_snippet_ready", "entity_clarity",
            "citation_worthiness", "passage_independence", "freshness_signals", "ai_crawlability"} :
        Weak(AiPoints(p)[s])}

Related(key, kw) == key \cap kw # {}

(***************************************************************************)
(* cluster_keywords: a keyword joins the first cluster whose key shares a  *)
(* word with it, or becomes the key of one.  Keywords without a word are   *)
(* taken for one, which has its key at most once.                          *)
(***************************************************************************)
Placed(found, kw) ==
    LET places == {i \in DOMAIN found : Related(found[i][1], kw)}
    IN  IF places # {} THEN [found EXCEPT ![Min(places)] = <<@[1], Append(@[2], kw)>>]
        ELSE IF \E i \in DOMAIN found : found[i][1] = kw THEN found
        ELSE Append(found, <<kw, <<kw>>>>)

Clustered(phrases) ==
    LET found[n \in 0..Len(phrases)] ==
            IF n = 0 THEN <<>> ELSE Placed(found[n - 1], phrases[n])
    IN  found[Len(phrases)]

PageInit == page \in Drafts /\ followed = {} /\ alone = FALSE /\ clusters = <<>>

(***************************************************************************)
(* The author follows a recommendation (outside the repository): writes    *)
(* questions and answers, puts an answer of 40 words before the text, or   *)
(* gives the paragraphs there are first sentences of five words and more.  *)
(* The words of entities are not up to an edit of one place.               *)
(***************************************************************************)
Spoken(p) == IF p.sentence = 0 THEN 15 ELSE p.sentence

Edited(p, signal) ==
    CASE signal = "question_answer_format" ->
            [p EXCEPT !.questions = @ + 3, !.words = @ + Inserted, !.paragraphs = @ + 1,
                      !.sentence = Spoken(p)]
      [] signal = "featured_snippet_ready" ->
            [p EXCEPT !.opening = 40, !.words = @ + 40, !.paragraphs = @ + 1,
                      !.sentence = Spoken(p), !.marks = @ \ {"early_keyword"},
                      !.topical = IF p.paragraphs < 3 THEN @ + 1 ELSE Max({@, 1})]
      [] signal = "citation_worthiness" -> [p EXCEPT !.marks = @ \cup {"data", "statistics"}]
      [] signal = "passage_independence" ->
            [p EXCEPT !.topical = Min({3, p.paragraphs}),
                      !.sentence = IF p.paragraphs = 0 THEN 0 ELSE Spoken(p)]
      [] signal = "freshness_signals" -> [p EXCEPT !.marks = @ \cup {"dated", "recent"}]

Follow(signal) ==
    /\ clusters = <<>>
    /\ signal # "entity_clarity"
    /\ page' = Edited(page, signal) /\ followed' = followed \cup {signal}
    /\ alone' = IF signal = "passage_independence" THEN page.paragraphs <= 1 ELSE alone
    /\ UNCHANGED clusters

\* Keywords and pages share nothing: a behaviour has the ones or the other.
Cluster(phrases) ==
    /\ followed = {} /\ clusters = <<>>
    /\ clusters' = Clustered(phrases)
    /\ UNCHANGED <<page, followed, alone>>

PageNext ==
    \/ \E signal \in Recommended(page) : Follow(signal)
    \/ \E phrases \in Phrases : Cluster(phrases)

PageSpec == PageInit /\ [][PageNext]_pageVars

(***************************************************************************)
(* Properties                                                              *)
(***************************************************************************)
(* A recommendation that was followed is not given again, whatever else is *)
(* followed later: the points it brings reach the threshold below which it *)
(* is given.  Only the advice on passages comes again, if it was followed  *)
(* on a page of one paragraph or none, which cannot have the points.       *)
(***************************************************************************)
FollowedIsSilenced ==
    \A signal \in followed \cap Recommended(page) : signal = "passage_independence" /\ alone

(***************************************************************************)
(* A page without text is never left alone, whatever its markup promises:  *)
(* P3 is for pages that have content.                                      *)
(***************************************************************************)
NoTextIsNeverFine == page.words = 0 => PagePriority(page) # "P3"

(***************************************************************************)
(* Clusters partition the keywords, and no two of them could be one: their *)
(* keys have no word in common.                                            *)
(***************************************************************************)
KeysShareNoWord ==
    \A i, j \in DOMAIN clusters : i # j =>
        /\ clusters[i][1] \cap clusters[j][1] = {}
        /\ ToSet(clusters[i][2]) \cap ToSet(clusters[j][2]) = {}

(***************************************************************************)
(* The advice of the content agent leads somewhere: followed it is not     *)
(* repeated, but to the author of one paragraph, an empty page is not      *)
(* passed over, and clusters do not compete for a keyword.                 *)
(***************************************************************************)
AdviceIsSound == FollowedIsSilenced /\ NoTextIsNeverFine /\ KeysShareNoWord
=================================================================================
