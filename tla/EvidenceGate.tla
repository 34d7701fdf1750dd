------------------------------ MODULE EvidenceGate ------------------------------
(***************************************************************************)
(* Whether what was found may carry an answer: EvidenceEvaluator.evaluate  *)
(* (tools/evidence.py) as its three callers use it, and the web search of  *)
(* EvidenceGenerationGateway.web (tools/generation.py) in front of it.     *)
(***************************************************************************)
EXTENDS Integers, Sequences, FiniteSets, FiniteSetsExt

CONSTANTS
    Inquiries,      \* what is asked
    Sources,        \* what may be found
    GateArticles,   \* numbers of articles; 0 stands for none, of articles and documents
    MinChars,       \* min_chars
    MostSources     \* found by one search

(* articles, instruments: numbers that the question names; current: it asks *)
(* whether the law is in force; related: another query goes with it, which *)
(* names nothing; caller: the legal workflow, the search tool with the     *)
(* anchors of the question or without, or the web search.                  *)
InquiryRecords ==
    [lookup : BOOLEAN, current : BOOLEAN, articles : SUBSET GateArticles, instruments : SUBSET (Nat \ {0}),
     related : BOOLEAN, caller : {"workflow", "tool", "tool_anchored", "web"}]

(* article: the provision itself; heading: what its heading names besides, *)
(* as in "Dieu 5. Huong dan Dieu 36"; mentions: in the text; exact: found  *)
(* by the lookup of named articles; scored: ranked by the full text index  *)
(* of the universal corpus, or with the score that is asked of the others. *)
SourceRecords ==
    [kind : {"qdrant", "universal", "web"}, instrument : Nat, article : Nat,
     heading : SUBSET GateArticles, mentions : SUBSET GateArticles,
     standing : {"active", "unresolved", "superseded", "repealed", "unverified"},
     complete : BOOLEAN, chars : Nat, exact : BOOLEAN, scored : BOOLEAN, similar : BOOLEAN]

ASSUME GateAssumption ==
    /\ Sources \subseteq SourceRecords
    /\ Inquiries \subseteq InquiryRecords
    /\ 0 \notin GateArticles
    /\ \A q \in Inquiries :
          /\ IsFiniteSet(q.instruments)
          /\ q.caller # "workflow" => q.lookup
          /\ q.caller = "web" => ~q.related

VARIABLES
    inquiry,
    gate,           \* the step that comes next
    sources,        \* the documents
    assessment      \* reason, and whether it is limited to one version

gateVars == <<inquiry, gate, sources, assessment>>

GateInit ==
    /\ inquiry \in Inquiries
    /\ gate = "search"
    /\ sources = {}
    /\ assessment = [reason |-> "", versionOnly |-> FALSE]

-------------------------------------------------------------------------------
(* The number of a document is looked for inside the numbers of a source:  *)
(* 5/2019 is also found in 45/2019.                                        *)
IsOf(source, instrument) == source.instrument = instrument \/ source.instrument % 10 = instrument

Heads(source) == {source.article} \cup source.heading

(* In titles and texts of the web "dieu 1" is also found in "dieu 10".     *)
Speaks(source, article) ==
    \E a \in Heads(source) \cup source.mentions : a = article \/ a \div 10 = article

ArticlesIn(source) == (Heads(source) \cup source.mentions) \ {0}

(* Two documents in a question leave its articles without one. *)
Anchors(q) ==
    LET document == IF Cardinality(q.instruments) = 1 THEN Max(q.instruments) ELSE 0
    IN  IF q.articles # {} THEN {[instrument |-> document, article |-> a] : a \in q.articles}
        ELSE {[instrument |-> document, article |-> 0]} \ {[instrument |-> 0, article |-> 0]}

(* Fault: a mention in the text of another article is evidence. *)
MentionsAnchor(source, anchor) ==
    /\ anchor.article # 0 => anchor.article \in ArticlesIn(source)
    /\ anchor.instrument # 0 => IsOf(source, anchor.instrument)

(* An address is one that the heading names, not only that it begins with. *)
MatchesAnchor(source, anchor) ==
    /\ anchor.article # 0 => anchor.article \in Heads(source)
    /\ anchor.instrument # 0 => IsOf(source, anchor.instrument)

-------------------------------------------------------------------------------
(* The retriever returns what it likes. *)
SearchCorpus ==
    /\ gate = "search" /\ inquiry.caller # "web"
    /\ \E found \in SUBSET {s \in Sources : s.kind # "web"} :
         Cardinality(found) <= MostSources /\ sources' = found
    /\ gate' = "evaluate"
    /\ UNCHANGED <<inquiry, assessment>>

(* Of the pages of allowed sites those are taken whose title, excerpt or   *)
(* address name what the question names; every one of them speaks of law.  *)
WebMatches(source) ==
    /\ \A a \in inquiry.articles : Speaks(source, a)
    /\ \A i \in inquiry.instruments : IsOf(source, i)

SearchWeb ==
    /\ gate = "search" /\ inquiry.caller = "web"
    /\ \E found \in SUBSET {s \in Sources : s.kind = "web" /\ WebMatches(s)} :
         Cardinality(found) <= MostSources /\ sources' = found
    /\ gate' = "fetch"
    /\ UNCHANGED <<inquiry, assessment>>

(* The excerpt gives way to the best paragraphs of the page, if it can be  *)
(* read.                                                                   *)
FetchPages ==
    /\ gate = "fetch"
    /\ \E readable \in SUBSET sources, text \in [sources -> SUBSET GateArticles] :
         sources' = {[s EXCEPT !.mentions = IF s \in readable THEN text[s] ELSE @] : s \in sources}
    /\ gate' = "evaluate"
    /\ UNCHANGED <<inquiry, assessment>>

-------------------------------------------------------------------------------
Stale(source)   == source.kind # "web" /\ source.standing \in {"unresolved", "superseded"}
InForce(source) == source.standing = "active"

(* One version of one document may be described although it is not known   *)
(* to be in force.                                                         *)
DescribesVersion(q) ==
    /\ \E s \in sources : Stale(s)
    /\ q.lookup /\ ~q.current
    /\ \A s \in sources : s.kind # "web"
    /\ \E i \in {s.instrument : s \in sources} :
         q.instruments \subseteq {i} /\ \A s \in sources : s.instrument = i
    /\ q.articles \subseteq UNION {ArticlesIn(s) : s \in sources}

(* What a query names, against one source of the universal corpus. *)
UniversalRelevance(source, names) ==
    /\ \A a \in Anchors(names) : a.instrument # 0 => IsOf(source, a.instrument)
    /\ names.articles \subseteq ArticlesIn(source)
    /\ \/ names.articles # {} /\ Cardinality(names.instruments) = 1
       \/ source.scored \/ source.similar

CorpusRelevance(names) ==
    \/ \E s \in sources : s.exact
    \/ \E s \in sources :
          IF s.kind = "universal" THEN UniversalRelevance(s, names) ELSE s.scored /\ s.similar

WebRelevance(names) ==
    \E s \in sources :
        /\ names.articles \subseteq ArticlesIn(s) /\ names.instruments \subseteq {s.instrument}
        /\ names.articles = {} /\ names.instruments = {} => s.similar

(* One of the queries is enough. *)
Relevant(q) ==
    LET queries == {q} \cup (IF q.related THEN {[q EXCEPT !.articles = {}, !.instruments = {}]} ELSE {})
    IN  \E names \in queries :
          IF \A s \in sources : s.kind = "web" THEN WebRelevance(names) ELSE CorpusRelevance(names)

(* A question with its whole address is not checked for its relevance. *)
ExactAddress(q) ==
    q.lookup /\ q.articles # {} /\ Cardinality(q.instruments) = 1

-------------------------------------------------------------------------------
Expected(q) == IF q.caller \in {"workflow", "tool_anchored"} THEN Anchors(q) ELSE {}

(* The tool hands on the articles of the anchors as they are written,      *)
(* "Dieu 36"; those of a source are numbers, and none of them is that.     *)
LacksExpectedArticle(q) == q.caller = "tool_anchored" /\ q.articles # {}

LacksInstrument(q) == \E a \in Expected(q) : a.instrument # 0 /\ \A s \in sources : ~IsOf(s, a.instrument)
LacksAnchor(q)     == \E a \in Expected(q) : \A s \in sources : ~MatchesAnchor(s, a)
LacksForce(q)      == (\E s \in sources : ~InForce(s)) /\ ~DescribesVersion(q)

TooShort == MapThenSumSet(LAMBDA s : s.chars, sources) < MinChars

(* unlikely: the question is one of those that no corpus answers, or the   *)
(* check of relevance raises.                                              *)
LacksRelevance(q, unlikely) == ~ExactAddress(q) /\ (unlikely \/ ~Relevant(q))

(* The checks in their order: what is wrong, and what it is called. *)
Checks(q, unlikely) ==
    << <<sources = {}, "not_enough_docs">>,
       <<TooShort, "content_too_short">>,
       <<\E s \in sources : ~s.complete, "missing_source_metadata">>,
       <<LacksExpectedArticle(q), "explicit_article_not_found">>,
       <<LacksInstrument(q), "source_relevance_mismatch">>,
       <<LacksAnchor(q), "explicit_anchor_not_found">>,
       <<LacksForce(q), IF q.current /\ q.lookup THEN "current_law_status_unverified"
                                                 ELSE "superseded_or_unresolved_source">>,
       <<sources # {} /\ LacksRelevance(q, unlikely), "relevance_check_failed">> >>

Reason(q, unlikely) ==
    LET checks == Checks(q, unlikely)
        failed == {i \in DOMAIN checks : checks[i][1]}
    IN  IF failed = {} THEN "ok" ELSE checks[Min(failed)][2]

Evaluate ==
    /\ gate = "evaluate"
    /\ \E unlikely \in BOOLEAN :
         LET reason == Reason(inquiry, unlikely)
         IN  assessment' = [reason |-> reason, versionOnly |-> reason = "ok" /\ DescribesVersion(inquiry)]
    /\ gate' = "done"
    /\ UNCHANGED <<inquiry, sources>>

GateNext == SearchCorpus \/ SearchWeb \/ FetchPages \/ Evaluate

GateSpec == GateInit /\ [][GateNext]_gateVars

-------------------------------------------------------------------------------
Accepted == gate = "done" /\ assessment.reason = "ok"

(* No number of a document that is asked for is the tail of another one's. *)
WholeNumbers == \A s \in sources, i \in inquiry.instruments : IsOf(s, i) => s.instrument = i

(* Evidence carries an answer about the law in force only if all of it is  *)
(* known to be in force; otherwise the answer describes one version of one *)
(* document, the one that was named, and nobody asked what is in force.    *)
(* And an article that the workflow was asked for is named by the heading  *)
(* of one source of the very document, never only by a text, and never by  *)
(* one source while another has the document; if no heading names a second *)
(* article, it is the very article of that source.                         *)
AcceptedEvidenceIsSound ==
    Accepted =>
        /\ \/ \A s \in sources : InForce(s)
           \/ /\ assessment.versionOnly /\ inquiry.lookup /\ ~inquiry.current
              /\ Cardinality({s.instrument : s \in sources}) = 1
              /\ inquiry.instruments \subseteq {s.instrument : s \in sources}
        /\ inquiry.caller = "workflow" /\ WholeNumbers =>
              \A a \in inquiry.articles :
                  \E s \in sources : /\ a \in Heads(s)
                                     /\ (\A t \in sources : t.heading = {}) => s.article = a
                                     /\ Cardinality(inquiry.instruments) = 1 => s.instrument \in inquiry.instruments

(* explicit_article_ids of evidence.py: "Expose explicit legal anchors so  *)
(* retrieval and evidence share one parser."  A source that is the very    *)
(* article asked for is never turned away because the article is missing.  *)
FoundArticlesAreRecognised ==
    gate = "done" /\ assessment.reason = "explicit_article_not_found" =>
        ~ \A a \in inquiry.articles : \E s \in sources : s.article = a
===============================================================================
