---------------------------- MODULE RetrievalQueries ----------------------------
(***************************************************************************)
(* The retrieve_legal node of the workflow: the queries it makes of a      *)
(* question, the calls that answer them or fail, and what it makes of the  *)
(* lists (agent/workflow/nodes/retrieval.py, agent/workflow/contracts.py). *)
(***************************************************************************)
EXTENDS Ranks

CONSTANTS
    Articles,       \* numbers a query may name
    Wordings,       \* the words of a query besides
    Passages,       \* what may be found: records with the articles that the heading
                    \* and the beginning of a passage name
    MostProposed,   \* bound: queries that a model proposes
    LongestList,    \* bound: of a reply
    MaxEvidence     \* of the route

ASSUME QueriesAssumption ==
    /\ Articles \subseteq Nat /\ \A n \in Articles : n >= 10 => n \div 10 \in Articles
    /\ MostProposed \in Nat /\ {LongestList, MaxEvidence} \subseteq Nat \ {0}

VARIABLES
    question,   \* the original query, the standalone one, the proposed ones
    queries,    \* search_queries
    replies,    \* of each query, as far as they came
    evidence    \* what the node leaves in the state

queriesVars == <<question, queries, replies, evidence>>

(* A long one has no room for what is attached to its end: together they   *)
(* are more than the 3000 characters of a query.                           *)
Queries == [words : Wordings, names : SUBSET Articles, long : BOOLEAN]

(* The model that writes a standalone query and proposes others may name   *)
(* whatever it likes.                                                      *)
QueriesInit ==
    /\ question \in [original : Queries, standalone : Queries,
                     proposed : UNION {[1 .. n -> Queries] : n \in 0 .. MostProposed}]
    /\ queries = << >>
    /\ replies = << >>
    /\ evidence = [state |-> "none", passages |-> << >>]

-------------------------------------------------------------------------------
(* "Dieu 1" is also read in "Dieu 10". *)
Reads(query, article) == \E n \in query.names : n = article \/ n \div 10 = article

(* Fault: an article is put back only if the rewriting names none. *)
PreserveIfBare(original, query) ==
    IF query.names = {} THEN [query EXCEPT !.names = original.names] ELSE query

(* preserve_explicit_anchors *)
Preserve(original, query) ==
    [query EXCEPT !.names = @ \cup {n \in original.names : ~Reads(query, n)}]

(* What the end of a text may read after it was cut: some of the attached  *)
(* articles, and of one perhaps only the beginning of its number.          *)
Beginnings(attached) == {{}} \cup {{n \div 10} : n \in {a \in attached : a >= 10}}

CutShort(attached) == {left \cup last : left \in SUBSET attached, last \in Beginnings(attached)}

Remains(query) ==
    LET attached == Preserve(question.original, query).names \ query.names
    IN  IF query.long THEN CutShort(attached) ELSE {attached}

(* _build_retrieval_queries takes at most three, each once, and none that  *)
(* names what neither the question nor its standalone form does;           *)
SearchQueries ==
    LET allowed    == question.original.names \cup question.standalone.names
        candidates == <<question.original>> \o question.proposed \o <<question.standalone>>
        Joins(found, q) ==
            /\ Len(found) < 3
            /\ Preserve(question.original, q).names \subseteq allowed
            /\ q \notin Range(found)
    IN  Collected(<< >>, candidates, Joins)

(* and asks what is left of each after the cut.                            *)
BuildQueries ==
    /\ queries = << >>
    /\ \E rest \in [DOMAIN SearchQueries -> SUBSET Articles] :
          /\ \A i \in DOMAIN SearchQueries : rest[i] \in Remains(SearchQueries[i])
          /\ queries' = [i \in DOMAIN SearchQueries |->
                            [SearchQueries[i] EXCEPT !.names = @ \cup rest[i]]]
    /\ UNCHANGED <<question, replies, evidence>>

(* Every query is asked at once; a call that fails is left out. *)
AnswerQuery ==
    /\ queries # << >> /\ Len(replies) < Len(queries)
    /\ \/ \E list \in Rankings(Passages, LongestList) : replies' = Append(replies, [ok |-> TRUE, list |-> list])
       \/ replies' = Append(replies, [ok |-> FALSE, list |-> << >>])
    /\ UNCHANGED <<question, queries, evidence>>

-------------------------------------------------------------------------------
(* The lists of the calls that did not fail. *)
Successful ==
    LET ok == SelectSeq(replies, LAMBDA r : r.ok)
    IN  [i \in DOMAIN ok |-> ok[i].list]

(* Every list has the same weight. *)
MergedScore(lists, p) == FoldLeft(LAMBDA sum, list : sum + Share(list, p), 0, lists)

(* _merge_multi_query_results *)
Merged == BestFirst(Once(FlattenSeq(Successful)), LAMBDA p : MergedScore(Successful, p))

IsNamed(p) == p.articles \cap question.standalone.names # {}

(* Passages of the articles that the standalone query names come first. *)
NamedFirst(passages) ==
    LET named == {p \in Passages : IsNamed(p)}
    IN  Among(passages, named) \o Among(passages, Passages \ named)

GatherEvidence ==
    /\ queries # << >> /\ Len(replies) = Len(queries) /\ evidence.state = "none"
    /\ evidence' = IF Successful = << >>
                     THEN [state |-> "error", passages |-> << >>]
                     ELSE [state    |-> "ok",
                           passages |-> Cut(NamedFirst(Merged), MaxEvidence)]
    /\ UNCHANGED <<question, queries, replies>>

QueriesNext == BuildQueries \/ AnswerQuery \/ GatherEvidence

QueriesSpec == QueriesInit /\ [][QueriesNext]_queriesVars

-------------------------------------------------------------------------------
(* The question itself is always asked.  Whatever a model rewrote, no query *)
(* that has room for what is attached has lost an article the user named,  *)
(* as the program reads it, or gained one that is in no form of the        *)
(* question; a long one may have lost articles, and the only numbers it    *)
(* has gained are the beginnings of those that were attached.              *)
QueriesKeepTheQuestion ==
    queries # << >> =>
        /\ queries[1] = question.original
        /\ \A i \in DOMAIN queries :
               LET gained == queries[i].names \ (question.original.names \cup question.standalone.names)
               IN  IF queries[i].long
                     THEN gained \subseteq {n \div 10 : n \in question.original.names}
                     ELSE gained = {} /\ \A n \in question.original.names : Reads(queries[i], n)
===============================================================================
