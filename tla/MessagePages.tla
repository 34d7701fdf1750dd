------------------------------ MODULE MessagePages ------------------------------
(***************************************************************************)
(* list_messages of infra/persistence.py: a client reads a conversation    *)
(* page by page while turns insert messages, in an order of commits that   *)
(* is not that of the ids, and replays supersede answers.  The client asks *)
(* for pages of any length: the route bounds its limit nowhere, and the    *)
(* store clamps it for the query only.                                     *)
(***************************************************************************)
EXTENDS Integers, Sequences, FiniteSets

CONSTANTS
    MaxRows,     \* bound: message ids
    LongestPage, \* what a limit is clamped to
    Limits       \* what clients ask for

ASSUME PageAssumption == MaxRows \in Nat /\ LongestPage \in Nat \ {0} /\ Limits \subseteq Int

VARIABLES
    shown,   \* ids of the messages that can be listed
    hidden,  \* ids of superseded messages
    page,    \* the request: limit, cursor, whether there is more
    listed,  \* ids in the order the client got them
    stayed   \* ghost: ids that could be listed ever since the first page

pageVars == <<shown, hidden, page, listed, stayed>>

PagesInit ==
    /\ shown \in SUBSET (1 .. MaxRows)
    /\ hidden = {}
    /\ page \in [limit : Limits, cursor : {0}, more : {TRUE}]
    /\ listed = << >>
    /\ stayed = shown

Clamped(limit) == IF limit < 1 THEN 1 ELSE IF limit > LongestPage THEN LongestPage ELSE limit

(* The rows after the cursor, one more of them than the page shall have. *)
First(ids, n) == {m \in ids : Cardinality({k \in ids : k <= m}) <= n}
Fetched == First({m \in shown : m > page.cursor}, Clamped(page.limit) + 1)

Ascending(ids) == [i \in 1 .. Cardinality(ids) |->
                     CHOOSE m \in ids : Cardinality({k \in ids : k <= m}) = i]

(* Fault: the next page begins after the row that was fetched to look ahead. *)
CursorAfterAll(fetched, part) == fetched[Len(fetched)]

NextCursor(fetched, part) == part[Len(part)]

(* How many of n rows the slice [:limit] keeps: a negative limit counts    *)
(* from the end.                                                           *)
Sliced(n, limit) == IF limit >= n THEN n ELSE IF limit >= 0 THEN limit
                    ELSE IF n + limit > 0 THEN n + limit ELSE 0

(* There is a next cursor if there are more rows than the limit that was   *)
(* asked for, and any on this page.                                        *)
NextPage ==
    LET fetched == Ascending(Fetched)
        part    == SubSeq(fetched, 1, Sliced(Len(fetched), page.limit))
        more    == Len(fetched) > page.limit /\ part # << >>
    IN  /\ page.more
        /\ listed' = listed \o part
        /\ page' = [page EXCEPT !.more = more,
                                !.cursor = IF more THEN NextCursor(fetched, part) ELSE @]
        /\ UNCHANGED <<shown, hidden, stayed>>

MessageCommits ==
    \E m \in (1 .. MaxRows) \ (shown \cup hidden) :
        /\ shown' = shown \cup {m}
        /\ UNCHANGED <<hidden, page, listed, stayed>>

AnswerIsSuperseded ==
    \E m \in shown :
        /\ shown' = shown \ {m} /\ hidden' = hidden \cup {m} /\ stayed' = stayed \ {m}
        /\ UNCHANGED <<page, listed>>

PagesNext == NextPage \/ MessageCommits \/ AnswerIsSuperseded

PagesSpec == PagesInit /\ [][PagesNext]_pageVars

-------------------------------------------------------------------------------
(* A client that follows the cursors gets messages in order, none twice,   *)
(* and leaves no gap: before the last message it got, it got every one     *)
(* that could be listed all the while, whatever was inserted or superseded *)
(* between two pages.  If the limit it asks for is one that the store does *)
(* not clamp, it gets them all; with any other limit, the last cursor may  *)
(* come before the last messages.                                          *)
PagesMissNothing ==
    /\ \A i, j \in DOMAIN listed : i < j => listed[i] < listed[j]
    /\ \A m \in stayed :
          \/ \E i \in DOMAIN listed : m <= listed[i]
          \/ ~page.more /\ page.limit \in 1 .. LongestPage
          => \E i \in DOMAIN listed : listed[i] = m
===============================================================================
