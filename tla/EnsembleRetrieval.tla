--------------------------- MODULE EnsembleRetrieval ---------------------------
(***************************************************************************)
(* One call, without metadata filters, of the ensemble retriever           *)
(* (retrieval/ensemble_retrieval.py): dense, lexical and exact candidates  *)
(* are fused, reranked with or without the cross-encoder, and cut to what  *)
(* the caller asked for.  Which scores the chunks get is left open; the    *)
(* module keeps what the code makes of the order they put them in.         *)
(***************************************************************************)
EXTENDS Ranks

CONSTANTS
    Chunks,          \* of the corpus: records with the number of their article
    Named(_),        \* Named(s): the user may name the articles of s, in this order
    SourceLimit,     \* semantic_k, lexical_k
    AnchorLimit,     \* of the exact lookup
    RerankTopN,      \* rerank_top_n
    ResultLimit      \* k

ASSUME EnsembleAssumption ==
    /\ {SourceLimit, AnchorLimit, RerankTopN, ResultLimit} \subseteq Nat \ {0}
    /\ IsFiniteSet(Chunks) /\ \A c \in Chunks : c.article \in Nat

VARIABLES
    lookup,     \* what is asked, what the sources return, the settings
    stage,      \* the step that comes next
    ranked      \* the candidates in their order

ensembleVars == <<lookup, stage, ranked>>

(* apply: what the rollout says of this call. *)
Lookups ==
    [named : {s \in Rankings({c.article : c \in Chunks}, ResultLimit) : Named(s)},
     dense : Rankings(Chunks, SourceLimit), lexical : Rankings(Chunks, SourceLimit),
     indexed : BOOLEAN, apply : BOOLEAN]

EnsembleInit ==
    /\ lookup \in Lookups
    /\ stage = "fuse"
    /\ ranked = << >>

-------------------------------------------------------------------------------
(* An article is looked for in the label of a chunk: "Dieu 1" is also      *)
(* found in "Dieu 10".                                                     *)
MatchesArticle(chunk, article) == chunk.article = article \/ chunk.article \div 10 = article

MatchesAny(chunk, named) == \E i \in DOMAIN named : MatchesArticle(chunk, named[i])

(* The index knows the articles by their whole number. *)
PointIds(article) == SetToSeq({c \in Chunks : c.article = article})

(* One pass over the anchors: each takes its first chunk not yet taken. *)
TakeOne(selected, group) ==
    LET unseen == Among(group, Chunks \ Range(selected))
    IN  IF Len(selected) < AnchorLimit /\ unseen # << >> THEN Append(selected, unseen[1]) ELSE selected

RoundRobin(groups) ==
    LET steps == AnchorLimit * Len(groups)
        selected[i \in 0 .. steps] ==
            IF i = 0 THEN << >> ELSE TakeOne(selected[i - 1], groups[((i - 1) % Len(groups)) + 1])
    IN  selected[steps]

(* The exact lookup has nothing when Qdrant fails. *)
Explicit ==
    IF lookup.indexed THEN RoundRobin([i \in DOMAIN lookup.named |-> PointIds(lookup.named[i])])
                      ELSE << >>

-------------------------------------------------------------------------------
Met == Once(lookup.dense \o lookup.lexical \o Explicit)

FusedScore(chunk) ==
    Share(lookup.dense, chunk) + Share(lookup.lexical, chunk) + Share(Explicit, chunk)

(* Chunks of named articles come first. *)
Fuse ==
    /\ stage = "fuse"
    /\ LET fused == BestFirst(Met, FusedScore)
           named == {c \in Chunks : MatchesAny(c, lookup.named)}
       IN  ranked' = Among(fused, named) \o Among(fused, Chunks \ named)
    /\ stage' = IF Met = << >> THEN "done" ELSE "rerank"
    /\ UNCHANGED lookup

-------------------------------------------------------------------------------
(* The first chunk of a sequence that names the article, if there is one   *)
(* and it is not there yet, in the order of the named articles.            *)
Leading(chunks, article) == Among(chunks, {c \in Chunks : MatchesArticle(c, article)})

Reserve(chunks) ==
    LET covered == Among(lookup.named, {a \in Range(lookup.named) : Leading(chunks, a) # << >>})
    IN  Once([n \in DOMAIN covered |-> Leading(chunks, covered[n])[1]])

(* Fault: the best chunks, whatever was named. *)
SelectBest(chunks) == Cut(chunks, ResultLimit)

(* _select_with_explicit_coverage *)
SelectCovering(chunks) ==
    LET reserved == Reserve(chunks)
    IN  Cut(reserved \o Among(chunks, Chunks \ Range(reserved)), ResultLimit)

RerankCandidates == Cut(ranked, RerankTopN)

Orders == SetToSeqs(Range(RerankCandidates))

(* The heuristic ranks first; the cross-encoder's order replaces its, if   *)
(* the rollout includes the call and the model answers in time.  In shadow *)
(* it ranks copies of the candidates.                                      *)
Rerank ==
    /\ stage = "rerank"
    /\ \E heuristic \in Orders :
         \/ ranked' = SelectCovering(heuristic)
         \/ /\ lookup.apply
            /\ \E cross \in Orders : ranked' = SelectCovering(cross)
    /\ stage' = "diversify"
    /\ UNCHANGED lookup

(* No more than two chunks of an article, and the named ones first. *)
Diversify ==
    /\ stage = "diversify"
    /\ LET reserved == Reserve(ranked)
           Fits(selected, c) == Cardinality({d \in Range(selected) : d.article = c.article}) < 2
           Joins(selected, c) == c \notin Range(selected) /\ Fits(selected, c)
       IN  ranked' = Cut(Collected(reserved, ranked, Joins), ResultLimit)
    /\ stage' = "done"
    /\ UNCHANGED lookup

EnsembleNext == Fuse \/ Rerank \/ Diversify

EnsembleSpec == EnsembleInit /\ [][EnsembleNext]_ensembleVars

-------------------------------------------------------------------------------
Found == Range(lookup.dense) \cup Range(lookup.lexical) \cup Range(Explicit)

(* What is found under the number of an article that the user named: its   *)
(* own chunks, and those of articles whose number begins with it.          *)
Under(article) == {c \in Found : MatchesArticle(c, article)}

(* If any source found something under the number of a named article, some *)
(* of that is among the results, however the rankers order the chunks, as  *)
(* long as what is found under all the numbers is not more than the        *)
(* rankers are given.  It is the article itself if only its own chunks     *)
(* were found there: a chunk of Dieu 10 may take the place of Dieu 1.  And *)
(* no article takes more than two places.                                  *)
NamedArticlesAreKept ==
    stage = "done" =>
        /\ Cardinality({c \in Found : MatchesAny(c, lookup.named)}) <= RerankTopN =>
               \A i \in DOMAIN lookup.named :
                   Under(lookup.named[i]) # {} =>
                       /\ Under(lookup.named[i]) \cap Range(ranked) # {}
                       /\ (\A c \in Under(lookup.named[i]) : c.article = lookup.named[i]) =>
                             \E c \in Range(ranked) : c.article = lookup.named[i]
        /\ \A c \in Range(ranked) : Cardinality({d \in Range(ranked) : d.article = c.article}) <= 2
===============================================================================
