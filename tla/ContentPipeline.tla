---------------------------- MODULE ContentPipeline ----------------------------
(***************************************************************************)
(* The content agent (content.py).  Overlapping calls of generate_content  *)
(* and audit_page on one ForgeAgent share its state; a step is the code    *)
(* between two awaits of a provider.  What audit_page computes is the      *)
(* module ContentAudit.                                                    *)
(***************************************************************************)
EXTENDS Integers, Sequences, FiniteSets, SequencesExt

CONSTANTS
    Draft,         \* calls of generate_content
    Review,        \* calls of audit_page
    MaxSections    \* bound: sections of an outline

ASSUME ContentAssumption == MaxSections \in Nat /\ Draft \cap Review = {}

VARIABLES
    forgeState,    \* self.state
    stage,         \* of a call: where it awaits
    outline,       \* of a draft: number of sections its outline has
    sections,      \* of a draft: their contents so far
    answer,        \* of a draft: the answer of its research
    package,       \* of a draft: "none", or what its title is
    badAnswer      \* history of a draft: a provider put null where text belongs

contentVars == <<forgeState, stage, outline, sections, answer, package, badAnswer>>

ContentInit ==
    /\ forgeState = "idle" /\ stage = [j \in Draft \cup Review |-> "idle"]
    /\ outline = [d \in Draft |-> 0] /\ sections = [d \in Draft |-> <<>>]
    /\ answer = [d \in Draft |-> "text"] /\ package = [d \in Draft |-> "none"]
    /\ badAnswer = [d \in Draft |-> FALSE]

Goes(j, to) == stage' = [stage EXCEPT ![j] = to]

(***************************************************************************)
(* generate_content.  Research, result pages and outline may fail; what    *)
(* puts a prompt together from their answers is outside the try blocks.    *)
(***************************************************************************)
Generate(d) ==
    /\ stage[d] = "idle"
    /\ Goes(d, "research") /\ forgeState' = "generating"
    /\ UNCHANGED <<outline, sections, answer, package, badAnswer>>

Researched(d) ==
    /\ stage[d] = "research"
    /\ \E a \in {"text", "null"} :
          answer' = [answer EXCEPT ![d] = a] /\ badAnswer' = [badAnswer EXCEPT ![d] = a = "null"]
    /\ Goes(d, "serp")
    /\ UNCHANGED <<forgeState, outline, sections, package>>

SerpAnswered(d) ==
    /\ stage[d] = "serp"
    /\ \E null \in BOOLEAN :
          /\ badAnswer' = [badAnswer EXCEPT ![d] = @ \/ null]
          /\ Goes(d, IF null \/ answer[d] = "null" THEN "raised" ELSE "outline")
    /\ UNCHANGED <<forgeState, outline, sections, answer, package>>

MoreToWrite(done, n) == Len(done) < n

\* No section is asked for before the previous one came back.
NextSection(d, n, done) ==
    /\ outline' = [outline EXCEPT ![d] = n]
    /\ sections' = [sections EXCEPT ![d] = done]
    /\ IF MoreToWrite(done, n) THEN Goes(d, "section") /\ UNCHANGED forgeState
       ELSE /\ Goes(d, IF "null" \in ToSet(done) THEN "raised" ELSE "meta")
            /\ forgeState' = "optimizing"

Outlined(d) ==
    /\ stage[d] = "outline"
    /\ \/ /\ \E n \in 0..MaxSections : NextSection(d, n, <<>>)
          /\ UNCHANGED badAnswer
       \/ /\ Goes(d, "raised")
          /\ badAnswer' = [badAnswer EXCEPT ![d] = TRUE]
          /\ UNCHANGED <<forgeState, outline, sections>>
    /\ UNCHANGED <<answer, package>>

\* "failed": the text that stands for a section that could not be generated.
SectionReturned(d) ==
    /\ stage[d] = "section"
    /\ \E content \in {"written", "failed", "null"} :
          /\ NextSection(d, outline[d], Append(sections[d], content))
          /\ badAnswer' = [badAnswer EXCEPT ![d] = @ \/ content = "null"]
    /\ UNCHANGED <<answer, package>>

(***************************************************************************)
(* generate_meta_tags falls back on a title made from the keyword; of what *)
(* was generated, a set is kept that has a title or a description.         *)
(***************************************************************************)
MetaReturned(d) ==
    /\ stage[d] = "meta"
    /\ \E title \in {"generated", "blank", "keyword"} : package' = [package EXCEPT ![d] = title]
    /\ Goes(d, "done") /\ forgeState' = "idle"
    /\ UNCHANGED <<outline, sections, answer, badAnswer>>

\* audit_page: the gap analysis is awaited, and fails without an effect.
Audit(r) ==
    /\ stage[r] = "idle"
    /\ Goes(r, "gaps") /\ forgeState' = "scoring"
    /\ UNCHANGED <<outline, sections, answer, package, badAnswer>>

\* Mutant of GapsAnalysed: the state is not set back.
GapsAnalysedBusy(r) ==
    /\ stage[r] = "gaps" /\ Goes(r, "done")
    /\ UNCHANGED <<forgeState, outline, sections, answer, package, badAnswer>>

GapsAnalysed(r) ==
    /\ stage[r] = "gaps"
    /\ Goes(r, "done") /\ forgeState' = "idle"
    /\ UNCHANGED <<outline, sections, answer, package, badAnswer>>

ContentNext ==
    \/ \E d \in Draft : \/ Generate(d) \/ Researched(d) \/ SerpAnswered(d) \/ Outlined(d)
                        \/ SectionReturned(d) \/ MetaReturned(d)
    \/ \E r \in Review : Audit(r) \/ GapsAnalysed(r)

ContentSpec == ContentInit /\ [][ContentNext]_contentVars

(***************************************************************************)
(* Properties                                                              *)
(***************************************************************************)
(* Calls and drafts take the values the code gives them.                   *)
ContentTypeOK ==
    /\ forgeState \in {"idle", "generating", "optimizing", "scoring"}
    /\ \A d \in Draft : Len(sections[d]) <= outline[d] /\ outline[d] \in 0..MaxSections

(***************************************************************************)
(* An outage never costs a package: whatever fails, calls end with one     *)
(* unless a provider answered with null where text belongs, and a package  *)
(* has every section of its outline.                                       *)
(***************************************************************************)
OutagesCostNoPackage ==
    \A d \in Draft :
        /\ stage[d] = "raised" => badAnswer[d]
        /\ package[d] # "none" => Len(sections[d]) = outline[d] /\ ~badAnswer[d]

(***************************************************************************)
(* However calls overlap, the last one to end leaves the agent idle; only  *)
(* one that raised leaves it busy.                                         *)
(***************************************************************************)
EndsIdle ==
    (\A j \in Draft \cup Review : stage[j] \in {"idle", "done"}) => forgeState = "idle"

(***************************************************************************)
(* Whatever fails or overlaps, calls of the content agent end with their   *)
(* package and leave it idle: the two above, and the types.                *)
(***************************************************************************)
CallsEndWell == ContentTypeOK /\ OutagesCostNoPackage /\ EndsIdle
=================================================================================
