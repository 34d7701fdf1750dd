-------------------------------- MODULE History --------------------------------
(***************************************************************************)
(* What the pipelines are told of a conversation: get_recent_history of    *)
(* infra/persistence.py and latest_conversation_turn of domain/tasks.py,   *)
(* as functions of the rows of TurnStore.                                  *)
(***************************************************************************)
EXTENDS TurnStore, FiniteSets

(* Messages of settled exchanges: the message and its turn are complete. *)
Told(c) ==
    {m \in MessageIds : /\ messages[m].scope = c /\ messages[m].status = "complete"
                        /\ turns[messages[m].turn].status = "complete"}

Newest(ids, n) == {m \in ids : Cardinality({k \in ids : k >= m}) <= n}

After(ids, m) == {k \in ids : k > m}

(* Of neighbours with one role the last is kept, and a question at the end *)
(* is dropped.                                                             *)
Alternating(ids) ==
    {m \in ids : IF After(ids, m) = {} THEN messages[m].role = "assistant"
                 ELSE LET next == CHOOSE k \in After(ids, m) : \A j \in After(ids, m) : k <= j
                      IN  messages[next].role # messages[m].role}

RecentHistory(c, n) == Alternating(Newest(Told(c), n))

(* The exchange a follow-up is about: the last question and what follows   *)
(* it, as latest_conversation_turn finds them.                             *)
Exchanges(history) ==
    {pair \in history \X history :
        /\ messages[pair[1]].role = "user" /\ messages[pair[2]].role = "assistant"
        /\ pair[2] \in After(history, pair[1])
        /\ \A k \in After(history, pair[1]) : pair[2] <= k}

LatestExchange(history) ==
    {pair \in Exchanges(history) : \A other \in Exchanges(history) : other[1] <= pair[1]}

(* tasks.py, latest_conversation_turn: "the latest user/assistant          *)
(* exchange": the answer that a follow-up is read with is the answer to    *)
(* the question that it is read with.                                      *)
FollowUpsReadOneExchange ==
    \A c \in Scopes : \A n \in 2 .. MaxMessages :
        \A pair \in LatestExchange(RecentHistory(c, n)) :
            turns[messages[pair[2]].turn].user = pair[1]
===============================================================================
