-------------------------------- MODULE Retrieval --------------------------------
(***************************************************************************)
(* One call of UniversalLegalRetrievalGateway.legal (tools/retrieval.py):  *)
(* the official delta, the search of the universal corpus                  *)
(* (retrieval/universal_retriever.py), its reranking, and the fusion with  *)
(* the records of Qdrant, which EnsembleRetrieval describes.               *)
(***************************************************************************)
EXTENDS Ranks

CONSTANTS
    Rows,           \* rows of the corpus, as numbers
    Strengths,      \* how well a row may match a query, above 0
    CallLimits,     \* what a caller may ask for
    Supplements,    \* what Qdrant may return: sequences of records of its own
    CrossTopN       \* rerank_top_n

ASSUME RetrievalAssumption ==
    /\ Rows \subseteq Nat /\ IsFiniteSet(Rows)
    /\ Strengths \subseteq Nat \ {0} /\ CallLimits \subseteq Nat \ {0} /\ CrossTopN \in Nat

VARIABLES
    gatewayCall,    \* limit, rerank mode, what the official delta says; named:
                    \* an article of an instrument is named, exact: its rows
    corpus,         \* how the rows match the query
    phase,          \* the step that comes next
    universal,      \* rows of the universal corpus, in their order
    records,        \* what is returned
    said            \* ghost: what the search and the cross-encoder said

retrievalVars == <<gatewayCall, corpus, phase, universal, records, said>>

(* focused, broad: strength under either query, 0 if it does not match;    *)
(* titled: the words of the question are in its title.  No two rows have   *)
(* the same title, and the terms of the broad query are all those the      *)
(* focused one needs one of.                                               *)
Matches ==
    {m \in [focused : Strengths \cup {0}, broad : Strengths \cup {0}, titled : BOOLEAN] :
        m.focused > 0 => m.broad > 0}

(* serves: it has the text; covers: only the instrument is its own;        *)
(* foreign: it is neither, or it is off or unreadable.                     *)
Deltas == {"foreign", "covers", "serves"}

(* shadow: the cross-encoder ranks, and its order is not used. *)
Modes == {"off", "shadow", "apply"}

RetrievalInit ==
    /\ gatewayCall \in {c \in [limit : CallLimits, named : BOOLEAN, exact : SUBSET Rows,
                                mode : Modes, delta : Deltas] : c.exact # {} => c.named}
    /\ corpus \in [Rows -> Matches]
    /\ phase = "delta"
    /\ universal = << >>
    /\ records = << >>
    /\ said = [search |-> << >>, cross |-> << >>]

-------------------------------------------------------------------------------
(* The delta is asked before anything else; what it covers is not looked   *)
(* for elsewhere.  Row 0 stands for the records it returns.                *)
AskDelta ==
    /\ phase = "delta"
    /\ phase' = IF gatewayCall.delta \in {"covers", "serves"} THEN "done" ELSE "search"
    /\ records' = IF gatewayCall.delta = "serves" THEN <<0>> ELSE << >>
    /\ UNCHANGED <<gatewayCall, corpus, universal, said>>

-------------------------------------------------------------------------------
(* UniversalLegalRetriever.search *)

FocusedRows == {r \in Rows : corpus[r].focused > 0}
BroadRows   == {r \in Rows : corpus[r].broad > 0}

ByFocus   == BestFirst(Increasing(FocusedRows), LAMBDA r : corpus[r].focused)
ByBreadth == BestFirst(Increasing(BroadRows), LAMBDA r : corpus[r].broad)

(* Focused rows are supplemented when they are fewer than asked for. *)
Fetched(limit) ==
    LET focused == Cut(ByFocus, limit * 3)
    IN  IF Len(focused) >= limit
          THEN focused
          ELSE focused \o Among(Cut(ByBreadth, limit * 4), Rows \ Range(focused))

(* Strength of a row as it was fetched, in tenths, a title counting three. *)
Adjusted(row) ==
    (IF corpus[row].focused > 0 THEN corpus[row].focused ELSE corpus[row].broad)
        * (IF corpus[row].titled THEN 13 ELSE 10)

Aligned(rows) == BestFirst(rows, Adjusted)

ExactRows == SetToSeq(gatewayCall.exact)

(* Named articles are looked up by their address and nothing else. *)
SearchUniversal(limit) ==
    Cut(IF gatewayCall.named THEN ExactRows ELSE Aligned(Fetched(limit)), limit)

(* The cross-encoder gets more candidates than the caller asked for, also  *)
(* when its order is not used.                                             *)
UniversalLimit ==
    IF gatewayCall.mode = "off" THEN gatewayCall.limit ELSE Max({gatewayCall.limit, CrossTopN})

(* A database that cannot be read has nothing. *)
Search ==
    /\ phase = "search"
    /\ universal' \in {SearchUniversal(UniversalLimit), << >>}
    /\ phase' = IF universal' # << >> /\ gatewayCall.mode # "off" /\ ~gatewayCall.named
                  THEN "rank" ELSE "fuse"
    /\ said' = [said EXCEPT !.search = universal']
    /\ UNCHANGED <<gatewayCall, corpus, records>>

-------------------------------------------------------------------------------
(* Fault: the places themselves are added up. *)
PlacesOfBoth(rows, cross) ==
    BestFirst(rows, LAMBDA r : Position(rows, r) + Position(cross, r))

(* The order of the cross-encoder refines that of the search. *)
BestOfBoth(rows, cross) ==
    BestFirst(rows, LAMBDA r : Share(rows, r) + Share(cross, r))

(* _rerank_universal_candidates: without the cross-encoder the heuristic   *)
(* ranks, if a ranking is to be applied at all.                            *)
RankUniversal ==
    /\ phase = "rank"
    /\ \E order \in SetToSeqs(Range(universal)), answers \in BOOLEAN :
         /\ universal' = Cut(CASE gatewayCall.mode = "shadow" -> universal
                               [] gatewayCall.mode = "apply" /\ answers -> BestOfBoth(universal, order)
                               [] OTHER -> order,
                             gatewayCall.limit)
         /\ said' = IF gatewayCall.mode = "apply" /\ answers THEN [said EXCEPT !.cross = order] ELSE said
    /\ phase' = "fuse"
    /\ UNCHANGED <<gatewayCall, corpus, records>>

-------------------------------------------------------------------------------
(* Records are ordered by their rank in their own source, the universal    *)
(* corpus first; no record of one is a record of the other.                *)
Fused(rows, supplement) ==
    BestFirst(rows \o supplement, LAMBDA r : Share(rows, r) + Share(supplement, r))

FuseSources ==
    /\ phase = "fuse"
    /\ \E supplement \in Supplements :
         records' = Cut(Fused(universal, supplement), gatewayCall.limit)
    /\ phase' = "done"
    /\ UNCHANGED <<gatewayCall, corpus, universal, said>>

RetrievalNext == AskDelta \/ Search \/ RankUniversal \/ FuseSources

RetrievalSpec == RetrievalInit /\ [][RetrievalNext]_retrievalVars

-------------------------------------------------------------------------------
(* Reranking only refines what the search said: a row that the search and  *)
(* the cross-encoder both put ahead of another is not left behind it, and  *)
(* not cut while the other is kept.                                        *)
AgreedOrderIsKept ==
    phase = "fuse" =>
        \A a, b \in Range(said.cross) :
            /\ Position(said.search, a) < Position(said.search, b)
            /\ Position(said.cross, a) < Position(said.cross, b)
            /\ b \in Range(universal)
            => Position(universal, a) < Position(universal, b)
===============================================================================
