------------------------------ MODULE MCServices ------------------------------
(***************************************************************************)
(* Nine parts that share no state with each other: the rate limiter, the   *)
(* answer cache, the tables beside the turns, the pages of a conversation, *)
(* the pool of keys, the amounts of money, the texts of answers, the       *)
(* retrieval indexes and the reasoning loop.  Each behaviour is one of one *)
(* of them.                                                                *)
(***************************************************************************)
EXTENDS RateLimiter, AnswerCache, ConversationData, MessagePages, KeyPool,
        StatutoryAmounts, AnswerText, RetrievalIndex, AgentLoop

VARIABLE part

NoHints       == << >>

ClocksApart   == [w \in LimitWorkers |-> IF w = "w1" THEN 1 ELSE 0]
TwoOnOneHost  == [t \in IndexThreads |-> IF t = "i3" THEN "h2" ELSE "h1"]
OneProcess    == [t \in CacheTurns |-> "p1"]
Reviewed      == [d \in Digests |-> IF d = "d1" THEN {"a", "b"} ELSE {"a"}]
TwoRatings    == {[rating |-> 1, comment |-> "x"], [rating |-> 2, comment |-> "y"]}
TwoCaseStates == {[facts |-> "some", missing |-> TRUE], [facts |-> "all", missing |-> FALSE]}
TwoModels     == <<"m1", "m2">>

(* Clients ask for no rows, for fewer than none and for more than a page. *)
SomeLimits    == -2 .. 4

(* Claims at the limits of the fee tables, and months at those of a year.  *)
Claims   == UNION {{c, c + 1} : c \in {0, 60, 600, 4000, 8000, 20000, 40000}}
SomeProblems == UNION {
    [kind : {"overtime"}, hourly : {0, 1}, salary : {208}, days : {26}, hours : {10},
     day : {"weekday", "weekend", "holiday"}, night : BOOLEAN],
    [kind : {"termination"}, salary : {100}, unworked : {NotGiven, 0, 3}, notice : {0, 5},
     worked : {18}, insured : BOOLEAN],
    [kind : {"severance"}, salary : {100}, worked : {0, 11, 12, 13, 18, 19, 24, 30, 31}],
    [kind : {"probation"}, official : {100}],
    [kind : {"traffic"}, vehicle : {"xe may", "motorbike", "car"}, alcohol : BOOLEAN, tier : 1 .. 3],
    [kind : {"household"}, monthly : {0, 83, 84}, annual : {1000, 1001}, sector : {"food", "retail", "other"}],
    [kind : {"income"}, income : {110, 153, 154, 159, 160, 210, 290, 430, 630, 910, 911},
     dependents : {0, 1}, insurance : {0, 10}],
    [kind : {"interest"}, principal : {1}, overdue : {0, 73}, rate : {NotGiven, 0, 5, 20, 30},
     commercial : BOOLEAN],
    [kind : {"damages"}, medical : {5}, property : {7}, caretaker : {0, 2}, lost : {0, 9},
     months : {0, 2}, salary : {100}],
    [kind : {"court"}, claim : Claims, commercial : BOOLEAN, monetary : BOOLEAN],
    [kind : {"land"}, value : {10000, 10001}, family : BOOLEAN, onlyHome : BOOLEAN],
    [kind : {"unreadable", "unknown"}]}

(* Four documents of any lengths, named apart from their places. *)
SomeDocuments ==
    UNION {{[i \in 1 .. n |-> [name |-> 10 - i, size |-> sizes[i], origin |-> "corpus"]] :
              sizes \in [1 .. n -> {"empty", "short", "long"}]} : n \in 0 .. 4}

Paragraphs  == [score : {0, 1}, chars : {2, 5}]
SomeResults ==
    UNION {{[i \in 1 .. n |-> [name |-> 10 - i, trusted |-> good[i], matches |-> TRUE, page |-> layout]] :
              good \in [1 .. n -> BOOLEAN], layout \in UNION {[1 .. k -> Paragraphs] : k \in {0, 3}}} : n \in 0 .. 3}

AmountsRest ==
    /\ problem = [kind |-> "unknown"]
    /\ ruleReply = NoReply /\ formReply = NoReply

TextsRest ==
    /\ writing = [task |-> "chitchat", model |-> FALSE]
    /\ documents = << >> /\ written = "done" /\ text = NoAnswer

LoopRests ==
    /\ settings = [legal |-> TRUE, limit |-> 1, substantive |-> TRUE]
    /\ cancelled = FALSE /\ pc = "done" /\ step = 1 /\ outcome = NoResult
    /\ pending = << >> /\ asked = 0 /\ answered = 0 /\ trajectory = << >>
    /\ evidence = << >> /\ cited = {} /\ cacheHit = FALSE

(* A run that needs no legal evidence, or need not insist on a search, does *)
(* nothing that another cannot do in its next step: the first is left out,  *)
(* and the second has one step only.                                        *)
LoopStarts ==
    /\ LoopInit
    /\ settings.legal
    /\ settings.limit > 1 => settings.substantive

Init ==
    /\ part \in {"limiter", "cache", "data", "pages", "keys", "amounts", "texts", "index", "loop"}
    /\ LimiterInit /\ CacheInit /\ DataInit /\ PagesInit /\ PoolInit /\ IndexInit
    /\ part # "index" => which = "article" /\ pages = 0
    /\ part # "cache" => review_manifest.digest = "d1"
    /\ IF part = "amounts" THEN AmountsInit ELSE AmountsRest
    /\ IF part = "texts" THEN TextInit ELSE TextsRest
    /\ IF part = "loop" THEN LoopStarts ELSE LoopRests
    /\ part # "pages" => shown = {} /\ page.limit = 1

LimiterStep ==
    /\ part = "limiter" /\ LimiterNext
    /\ UNCHANGED <<part, cacheVars, dataVars, poolVars, pageVars, amountVars, textVars, indexVars, loopVars>>

CacheStep ==
    /\ part = "cache" /\ CacheNext
    /\ UNCHANGED <<part, limiterVars, dataVars, poolVars, pageVars, amountVars, textVars, indexVars, loopVars>>

DataStep ==
    /\ part = "data" /\ DataNext
    /\ UNCHANGED <<part, limiterVars, cacheVars, poolVars, pageVars, amountVars, textVars, indexVars, loopVars>>

PoolStep ==
    /\ part = "keys" /\ PoolNext
    /\ UNCHANGED <<part, limiterVars, cacheVars, dataVars, pageVars, amountVars, textVars, indexVars, loopVars>>

PagesStep ==
    /\ part = "pages" /\ PagesNext
    /\ UNCHANGED <<part, limiterVars, cacheVars, dataVars, poolVars, amountVars, textVars, indexVars, loopVars>>

AmountsStep ==
    /\ part = "amounts" /\ AmountsNext
    /\ UNCHANGED <<part, limiterVars, cacheVars, dataVars, pageVars, poolVars, textVars, indexVars, loopVars>>

TextStep ==
    /\ part = "texts" /\ TextNext
    /\ UNCHANGED <<part, limiterVars, cacheVars, dataVars, pageVars, poolVars, amountVars, indexVars, loopVars>>

IndexStep ==
    /\ part = "index" /\ IndexNext
    /\ UNCHANGED <<part, limiterVars, cacheVars, dataVars, pageVars, poolVars, amountVars, textVars, loopVars>>

LoopStep ==
    /\ part = "loop" /\ LoopNext
    /\ UNCHANGED <<part, limiterVars, cacheVars, dataVars, pageVars, poolVars, amountVars, textVars,
                   indexVars>>

Next == LimiterStep \/ CacheStep \/ DataStep \/ PagesStep \/ PoolStep
        \/ AmountsStep \/ TextStep \/ IndexStep \/ LoopStep

Spec == Init /\ [][Next]_<<part, limiterVars, cacheVars, dataVars, pageVars, poolVars,
                          amountVars, textVars, indexVars, loopVars>>
===============================================================================
