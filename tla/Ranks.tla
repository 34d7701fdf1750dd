----------------------------------- MODULE Ranks -----------------------------------
(***************************************************************************)
(* Ranked lists and their reciprocal rank fusion, as the retrievers do it: *)
(* _fuse_and_rerank, _rerank_universal_candidates, the fusion of sources   *)
(* in legal(), and _merge_multi_query_results.                             *)
(***************************************************************************)
EXTENDS Naturals, Sequences, SequencesExt, FiniteSetsExt

(* Lists of at most n different items. *)
Rankings(items, n) ==
    UNION {{r \in [1 .. m -> items] : IsInjective(r)} : m \in 0 .. Min({n, Cardinality(items)})}

Cut(list, n) == SubSeq(list, 1, Min({n, Len(list)}))

(* The elements of a finite set in the order of a relation between them. *)
Sorted(S, before) ==
    LET rank == [x \in S |-> Cardinality({y \in S : <<y, x>> \in before}) + 1]
    IN  [i \in 1 .. Cardinality(S) |-> CHOOSE x \in S : rank[x] = i]

Increasing(S) == Sorted(S, {p \in S \X S : p[1] < p[2]})

(* Where an item is first met; what is not in a list is behind all that is. *)
Position(list, x) ==
    IF x \in Range(list) THEN Min({i \in DOMAIN list : list[i] = x}) ELSE Len(list) + 1

(* The items of a list that are in a set, in the order they were met. *)
Among(list, S) ==
    LET items == Range(list) \cap S
        place == [x \in items |-> Position(list, x)]
    IN  Sorted(items, {p \in items \X items : place[p[1]] < place[p[2]]})

(* Each item once. *)
Once(list) == Among(list, Range(list))

(* A loop over a list: an item joins those before it if it may. *)
Collected(start, list, Joins(_, _)) ==
    LET met[i \in 0 .. Len(list)] ==
            IF i = 0 THEN start
            ELSE IF Joins(met[i - 1], list[i]) THEN Append(met[i - 1], list[i]) ELSE met[i - 1]
    IN  met[Len(list)]

(* Reciprocal ranks, in millionths. *)
Share(list, x) == IF x \in Range(list) THEN 1000000 \div (60 + Position(list, x)) ELSE 0

(* A stable sort, the highest score first. *)
ByScore(list, score) ==
    LET items == Range(list)
        place == [x \in items |-> Position(list, x)]
    IN  Sorted(items, {p \in items \X items :
                          \/ score[p[1]] > score[p[2]]
                          \/ score[p[1]] = score[p[2]] /\ place[p[1]] < place[p[2]]})

BestFirst(list, Score(_)) == ByScore(list, [x \in Range(list) |-> Score(x)])
===============================================================================
