--------------------------- MODULE ConversationData ---------------------------
(***************************************************************************)
(* What PersistenceStore keeps about a conversation beside its turns: the  *)
(* ratings of answers, their reviews, and the case under discussion.       *)
(*                                                                         *)
(* save_feedback, save_case and complete_case read their rows first and    *)
(* write later. An UPDATE names the columns that differ from what was      *)
(* read, so two calls can mix their columns in one row. Every call is made *)
(* by the owner of the conversation; anyone else's finds nothing.          *)
(***************************************************************************)
EXTENDS Integers, FiniteSets

CONSTANTS
    DataSessions,   \* calls that can be under way at once
    Conversations,
    Database,       \* "postgresql" or "sqlite"
    Ratings,        \* what users give: a rating and a comment
    CaseStates,     \* what turns save: facts, and whether some are missing
    MaxAnswers, MaxRatings, MaxCalls  \* bounds

ASSUME DataAssumption ==
    /\ Database \in {"postgresql", "sqlite"}
    /\ Ratings \subseteq [rating : {1, 2}, comment : STRING]
    /\ CaseStates \subseteq [facts : STRING, missing : BOOLEAN]
    /\ MaxAnswers \in Nat /\ MaxRatings \in Nat

VARIABLES
    known,      \* conversations that have a row
    answers,    \* complete answers: their conversation, and the rating in their metadata
    ratings,    \* message_feedback, by id
    reviews,    \* quality_feedback, by the feedback_id of the row
    cases,      \* case_states
    given,      \* ids handed out so far, as a sequence of PostgreSQL counts them
    dataCalls,  \* per session: the call under way and what it has read
    callsMade,  \* number of calls, for the bound
    mixed       \* history: conversations whose case was last written by a call that
                \* another call had overtaken

dataVars == <<known, answers, ratings, reviews, cases, given, dataCalls, callsMade, mixed>>

NoRow     == [absent |-> TRUE]
Unrated   == [rating |-> 0, comment |-> "none"]
NoCall    == [op |-> "none"]
Exists(row) == row # NoRow
AnswerIds == 1..MaxAnswers
RatingIds == 1..MaxRatings

DataInit ==
    /\ known     = {}
    /\ answers   = [a \in AnswerIds |-> NoRow]
    /\ ratings   = [f \in RatingIds |-> NoRow]
    /\ reviews   = [f \in RatingIds |-> NoRow]
    /\ cases     = [c \in Conversations |-> NoRow]
    /\ given     = [answer |-> 0, rating |-> 0]
    /\ dataCalls = [s \in DataSessions |-> NoCall]
    /\ callsMade = 0
    /\ mixed     = {}

(* SQLite hands out one more than the largest id that is left. *)
NextId(rows, counted) ==
    IF Database = "postgresql" THEN counted + 1
    ELSE CHOOSE n \in 1..Cardinality(DOMAIN rows) + 1 :
           /\ \A i \in DOMAIN rows : Exists(rows[i]) => i < n
           /\ n = 1 \/ (n - 1 \in DOMAIN rows /\ Exists(rows[n - 1]))

Open(s, call) ==
    /\ dataCalls[s] = NoCall /\ callsMade < MaxCalls
    /\ callsMade' = callsMade + 1
    /\ dataCalls' = [dataCalls EXCEPT ![s] = call]

(* A commit overtakes the calls that have read the row it writes.  That    *)
(* keeps none of them from committing: the isolation level is PostgreSQL's *)
(* read committed, and no SELECT locks.                                    *)
Closed(s, Touches(_)) ==
    dataCalls' = [t \in DataSessions |->
                    IF t = s THEN NoCall
                    ELSE IF dataCalls[t] # NoCall /\ Touches(dataCalls[t])
                    THEN [dataCalls[t] EXCEPT !.overtaken = TRUE] ELSE dataCalls[t]]

(* The new value of a column: written only if it differs from what was read. *)
Column(read, new, current) == IF new = read THEN current ELSE new

(* A call that cannot commit, or whose connection fails, changes nothing. *)
DataCallFails(s) ==
    /\ dataCalls[s] # NoCall
    /\ dataCalls' = [dataCalls EXCEPT ![s] = NoCall]
    /\ UNCHANGED <<known, answers, ratings, reviews, cases, given, callsMade, mixed>>

-------------------------------------------------------------------------------
(* append_exchange: the answer to a question is stored. *)
AppendExchange(c) ==
    LET a == NextId(answers, given.answer) IN
    /\ a \in AnswerIds
    /\ answers' = [answers EXCEPT ![a] = [conv |-> c, shown |-> Unrated]]
    /\ given' = [given EXCEPT !.answer = a]
    /\ known' = known \cup {c}
    /\ UNCHANGED <<ratings, reviews, cases, dataCalls, callsMade, mixed>>

RatingsOf(a) == {f \in RatingIds : Exists(ratings[f]) /\ ratings[f].message = a}

(* The reads of save_feedback; two rows for one answer make it raise. *)
BeginFeedback(s, a, rating) ==
    /\ Exists(answers[a]) /\ Cardinality(RatingsOf(a)) <= 1
    /\ LET row == IF RatingsOf(a) = {} THEN 0 ELSE CHOOSE f \in RatingsOf(a) : TRUE
       IN  Open(s, [op |-> "rate", answer |-> a, conv |-> answers[a].conv, rating |-> rating,
                    row |-> row, was |-> IF row = 0 THEN Unrated ELSE ratings[row].given,
                    shown |-> answers[a].shown, overtaken |-> FALSE])
    /\ UNCHANGED <<known, answers, ratings, reviews, cases, given, mixed>>

(* An insert takes a new id; the migrations, but not create_all, have made *)
(* the pair of user and message unique. An update needs its row.           *)
RatingRow(call) ==
    IF call.row # 0 THEN call.row ELSE NextId(ratings, given.rating)

CanSaveRating(call) ==
    /\ Exists(answers[call.answer]) /\ answers[call.answer].conv = call.conv
    /\ RatingRow(call) \in RatingIds
    /\ IF call.row # 0 THEN Exists(ratings[call.row]) /\ ratings[call.row].message = call.answer
                       ELSE Database = "postgresql" => RatingsOf(call.answer) = {}

ShownAfter(call) == Column(call.shown, call.rating, answers[call.answer].shown)

SaveFeedback(s) ==
    LET call == dataCalls[s]
        f    == RatingRow(call)
        old  == IF call.row = 0 THEN call.rating ELSE ratings[f].given
    IN  /\ call # NoCall /\ call.op = "rate" /\ CanSaveRating(call)
        /\ ratings' = [ratings EXCEPT ![f] =
             [conv |-> call.conv, message |-> call.answer,
              given |-> [rating  |-> Column(call.was.rating, call.rating.rating, old.rating),
                         comment |-> Column(call.was.comment, call.rating.comment, old.comment)]]]
        /\ answers' = [answers EXCEPT ![call.answer].shown = ShownAfter(call)]
        /\ reviews' = [reviews EXCEPT ![f] =
             IF Exists(@) THEN @ ELSE [conv |-> call.conv, message |-> call.answer, status |-> "new"]]
        /\ given' = IF call.row = 0 THEN [given EXCEPT !.rating = f] ELSE given
        /\ Closed(s, LAMBDA other : other.op = "rate" /\ other.answer = call.answer)
        /\ UNCHANGED <<known, cases, callsMade, mixed>>

(* update_quality_feedback needs the feedback and the message to exist. *)
UpdateQualityFeedback(f) ==
    /\ Exists(reviews[f]) /\ reviews[f].status = "new"
    /\ Exists(ratings[f]) /\ Exists(answers[reviews[f].message])
    /\ reviews' = [reviews EXCEPT ![f].status = "accepted"]
    /\ UNCHANGED <<known, answers, ratings, cases, given, dataCalls, callsMade, mixed>>

-------------------------------------------------------------------------------
Status(missing) == IF missing THEN "collecting" ELSE "ready"

(* save_case after ensure_conversation, and complete_case: the read. *)
BeginCase(s, c, op, state) ==
    /\ Open(s, [op |-> op, conv |-> c, state |-> state, was |-> cases[c], overtaken |-> FALSE])
    /\ known' = IF op = "save" THEN known \cup {c} ELSE known
    /\ UNCHANGED <<answers, ratings, reviews, cases, given, mixed>>

CaseClosed(s, c) == Closed(s, LAMBDA other : other.op \in {"save", "complete"} /\ other.conv = c)

(* The row that was read must be there, or still be missing; an insert    *)
(* needs its conversation where foreign keys are enforced.                 *)
CanSaveCase(call) ==
    /\ Exists(cases[call.conv]) <=> Exists(call.was)
    /\ Database = "postgresql" => call.conv \in known

(* A save or a completion that nothing overtook puts the columns of the    *)
(* row together again.                                                     *)
MixedBy(call) == IF call.overtaken THEN mixed \cup {call.conv} ELSE mixed \ {call.conv}

SaveCase(s) ==
    LET call == dataCalls[s]
        new  == [status |-> Status(call.state.missing), facts |-> call.state.facts,
                 missing |-> call.state.missing]
        now  == cases[call.conv]
    IN  /\ call # NoCall /\ call.op = "save" /\ CanSaveCase(call)
        /\ cases' = [cases EXCEPT ![call.conv] =
             IF ~Exists(now) THEN new
             ELSE [col \in DOMAIN new |-> Column(call.was[col], new[col], now[col])]]
        /\ CaseClosed(s, call.conv)
        /\ mixed' = MixedBy(call)
        /\ UNCHANGED <<known, answers, ratings, reviews, given, callsMade>>

(* Fault: what was missing stays so. *)
KeepsMissing(was, now) == [now EXCEPT !.status = Column(was.status, "completed", @)]

Completed(was, now) ==
    [now EXCEPT !.status  = Column(was.status, "completed", @),
                !.missing = Column(was.missing, FALSE, @)]

CompleteCase(s) ==
    LET call == dataCalls[s] IN
    /\ call # NoCall /\ call.op = "complete" /\ CanSaveCase(call)
    /\ cases' = [cases EXCEPT ![call.conv] = IF Exists(@) THEN Completed(call.was, @) ELSE @]
    /\ CaseClosed(s, call.conv)
    /\ mixed' = MixedBy(call)
    /\ UNCHANGED <<known, answers, ratings, reviews, given, callsMade>>

-------------------------------------------------------------------------------
(* Fault: reviews are not deleted with what they review. *)
NothingCascades(c) == reviews

(* The declared foreign keys, which SQLite does not enforce here. *)
Cascaded(c) ==
    [f \in RatingIds |-> IF Database = "postgresql" /\ Exists(reviews[f]) /\ reviews[f].conv = c
                         THEN NoRow ELSE reviews[f]]

DeleteConversationData(c) ==
    /\ c \in known
    /\ known' = known \ {c}
    /\ answers' = [a \in AnswerIds |-> IF Exists(answers[a]) /\ answers[a].conv = c
                                       THEN NoRow ELSE answers[a]]
    /\ ratings' = [f \in RatingIds |-> IF Exists(ratings[f]) /\ ratings[f].conv = c
                                       THEN NoRow ELSE ratings[f]]
    /\ cases' = [cases EXCEPT ![c] = NoRow]
    /\ reviews' = Cascaded(c)
    /\ dataCalls' = [t \in DataSessions |->
                       IF dataCalls[t] # NoCall /\ dataCalls[t].conv = c
                       THEN [dataCalls[t] EXCEPT !.overtaken = TRUE] ELSE dataCalls[t]]
    /\ mixed' = mixed \ {c}
    /\ UNCHANGED <<given, callsMade>>

DataNext ==
    \/ \E c \in Conversations : AppendExchange(c) \/ DeleteConversationData(c)
    \/ \E f \in RatingIds : UpdateQualityFeedback(f)
    \/ \E s \in DataSessions :
         \/ \E a \in AnswerIds, rating \in Ratings : BeginFeedback(s, a, rating)
         \/ \E c \in Conversations, state \in CaseStates :
              BeginCase(s, c, "save", state) \/ BeginCase(s, c, "complete", state)
         \/ SaveFeedback(s) \/ SaveCase(s) \/ CompleteCase(s) \/ DataCallFails(s)

DataSpec == DataInit /\ [][DataNext]_dataVars

-------------------------------------------------------------------------------
(* A review is of the feedback that it names: the decision of a reviewer   *)
(* about one user's answer never passes to the answer of another           *)
(* conversation, however deletions and new ratings follow on each other.   *)
ReviewsStayWithTheirFeedback ==
    \A f \in RatingIds : Exists(reviews[f]) =>
        /\ Exists(ratings[f])
        /\ ratings[f].conv = reviews[f].conv /\ ratings[f].message = reviews[f].message

(* The columns of a case row belong together: they are what one turn has   *)
(* saved, or that completed.  They come apart only when a save or a        *)
(* completion commits over a row that another call wrote since it was      *)
(* read, and the next one that nothing overtakes puts them right; even     *)
(* then the facts are those of one save.                                   *)
CasesAreWhole ==
    \A c \in Conversations : Exists(cases[c]) =>
        \E state \in CaseStates :
            /\ cases[c].facts = state.facts
            /\ \/ c \in mixed
               \/ cases[c].missing = state.missing /\ cases[c].status = Status(state.missing)
               \/ ~cases[c].missing /\ cases[c].status = "completed"
===============================================================================
