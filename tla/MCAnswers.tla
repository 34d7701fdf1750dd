------------------------------- MODULE MCAnswers -------------------------------
(***************************************************************************)
(* What makes an answer: the conversation it is given in, the evidence it  *)
(* is given on, and the checks of the two runtimes.  The parts share no    *)
(* state with each other; each behaviour is one of one part, and the       *)
(* others rest.                                                            *)
(***************************************************************************)
EXTENDS Conversation, EnsembleRetrieval, Retrieval, RetrievalQueries, EvidenceGate,
        OutputGuard, LegalWorkflow

VARIABLE part

restVars == <<part, talkVars, ensembleVars, retrievalVars, queriesVars, gateVars,
              guardVars, workflowVars>>

-------------------------------------------------------------------------------
(* Values of the constants *)

(* One turn may be asked anything; the other is asked of a case, or takes  *)
(* its route from its words.                                               *)
TwoQuestioners(t) ==
    {q \in AllQuestions \cup {EmptyCase} :
        IF t = "t1" THEN /\ q.hint = "case" => q.cues = {}
                         /\ q.cues \in {{}, {"dispute"}, {"missing"}}
                    ELSE /\ ~q.dependent /\ ~q.empty
                         /\ <<q.hint, q.cues>> \in {<<"case", {}>>, <<"auto", {"missing"}>>}}

FourChunks == {[article |-> 10, no |-> 1], [article |-> 10, no |-> 2],
               [article |-> 2,  no |-> 1], [article |-> 1,  no |-> 1]}

NamedInOrder(s) == s \in {<< >>, <<2>>, <<10>>, <<1, 2>>, <<10, 1>>}

SomeSupplements == {<< >>, <<101>>, <<101, 102>>}

TwoPassages == {[articles |-> {1}, no |-> 1], [articles |-> {1, 10}, no |-> 2]}

Asked(c) ==
    [lookup : IF c = "workflow" THEN BOOLEAN ELSE {TRUE}, current : BOOLEAN,
     articles : {{}, {1}, {1, 2}}, instruments : {{}, {5}, {5, 7}},
     related : IF c = "web" THEN {FALSE} ELSE BOOLEAN, caller : {c}]

SomeInquiries == UNION {Asked(c) : c \in {"workflow", "tool", "tool_anchored", "web"}}

Page(k, i, a, m, s) ==
    [kind |-> k, instrument |-> i, article |-> a, heading |-> {}, mentions |-> m, standing |-> s,
     complete |-> TRUE, chars |-> 1, exact |-> FALSE, scored |-> TRUE, similar |-> TRUE]

(* Of each kind one that passes and some that fail one test. *)
SomeSources == {
    Page("universal", 5, 1, {2}, "active"),
    Page("universal", 5, 1, {2}, "superseded"),
    Page("universal", 5, 2, {}, "unresolved"),
    [Page("universal", 5, 1, {}, "active") EXCEPT !.heading = {2}],
    Page("qdrant", 5, 2, {1}, "active"),
    Page("qdrant", 45, 1, {}, "repealed"),
    [Page("qdrant", 7, 1, {}, "unverified") EXCEPT !.exact = TRUE],
    [Page("universal", 7, 2, {}, "active") EXCEPT !.scored = FALSE, !.similar = FALSE],
    [Page("qdrant", 7, 2, {}, "active") EXCEPT !.complete = FALSE],
    Page("web", 5, 10, {}, "active"),
    [Page("web", 5, 0, {1, 2}, "active") EXCEPT !.chars = 2],
    [Page("web", 0, 0, {}, "active") EXCEPT !.similar = FALSE]}

-------------------------------------------------------------------------------
(* Initial states, narrowed where all of them are too many *)

TalkRests ==
    /\ asked = [t \in ConversationTurns |-> EmptyCase]
    /\ at = [t \in ConversationTurns |-> "done"]
    /\ seen = [t \in ConversationTurns |-> Unread]
    /\ ending = [t \in ConversationTurns |-> NoEnding]
    /\ turnStatus = [t \in ConversationTurns |-> "none"]
    /\ statusRead = turnStatus /\ witnessed = turnStatus
    /\ stopping = {} /\ answered = {} /\ touched = {} /\ case = "none"

EnsembleRests ==
    /\ lookup = CHOOSE l \in Lookups : TRUE
    /\ stage = "fuse" /\ ranked = << >>

PlainCorpus == [r \in Rows |-> [focused |-> 0, broad |-> 1, titled |-> FALSE]]

(* Only an unnamed question outside the delta is asked of every corpus. *)
RetrievalStarts ==
    /\ RetrievalInit
    /\ gatewayCall.named \/ gatewayCall.delta # "foreign" => corpus = PlainCorpus

RetrievalRests ==
    /\ gatewayCall = [limit |-> 1, named |-> FALSE, exact |-> {}, mode |-> "off", delta |-> "foreign"]
    /\ corpus = PlainCorpus
    /\ phase = "delta" /\ universal = << >> /\ records = << >>
    /\ said = [search |-> << >>, cross |-> << >>]

(* A question either names articles, which its rewritings may lose, or     *)
(* names none, and its standalone form does.  No question is itself longer *)
(* than a query may be.                                                    *)
QueriesStart ==
    /\ QueriesInit
    /\ question.original.words = "v" /\ ~question.original.long
    /\ \/ /\ question.original.names = {2, 10}
          /\ question.standalone.words = "v"
          /\ question.proposed # << >> /\ question.proposed[1].words = "v"
       \/ /\ question.original.names = {}
          /\ question.standalone.words = "w" /\ question.standalone.names \in {{1}, {10}}
          /\ question.proposed = << >>

NoQuery == [words |-> "v", names |-> {}, long |-> FALSE]

QueriesRest ==
    /\ question = [original |-> NoQuery, standalone |-> NoQuery, proposed |-> << >>]
    /\ queries = << >> /\ replies = << >>
    /\ evidence = [state |-> "none", passages |-> << >>]

GateRests ==
    /\ inquiry = CHOOSE q \in Inquiries : TRUE
    /\ gate = "search" /\ sources = {} /\ assessment = [reason |-> "", versionOnly |-> FALSE]

GuardRests ==
    /\ guarded = CHOOSE g \in GuardRequests : TRUE
    /\ check = "done" /\ candidate = "draft" /\ released = "none" /\ verdict = NoVerdict
    /\ flagged = FALSE /\ supported = FALSE /\ keep = FALSE /\ trusted = {}

(* An invalid request whose run has ended. *)
WorkflowRests ==
    /\ request = CHOOSE r \in Requests : ~r.valid
    /\ manifest = "ready" /\ pc = "raised" /\ review = NoReview
    /\ state = [answer |-> NoText, evidence |-> FALSE, sufficient |-> FALSE, reason |-> "",
                valid |-> FALSE, error |-> "", source |-> "", termination |-> "",
                retrievals |-> 0, repairs |-> 0, iteration |-> 0]

Init ==
    /\ part \in {"talk", "ensemble", "gateway", "queries", "gate", "guard", "workflow"}
    /\ IF part = "talk"     THEN TalkInit        ELSE TalkRests
    /\ IF part = "ensemble" THEN EnsembleInit    ELSE EnsembleRests
    /\ IF part = "gateway"  THEN RetrievalStarts ELSE RetrievalRests
    /\ IF part = "queries"  THEN QueriesStart    ELSE QueriesRest
    /\ IF part = "gate"     THEN GateInit        ELSE GateRests
    /\ IF part = "guard"    THEN GuardInit       ELSE GuardRests
    /\ IF part = "workflow" THEN WorkflowInit    ELSE WorkflowRests

-------------------------------------------------------------------------------
TalkStep ==
    /\ part = "talk" /\ TalkNext
    /\ UNCHANGED <<part, ensembleVars, retrievalVars, queriesVars, gateVars, guardVars, workflowVars>>

EnsembleStep ==
    /\ part = "ensemble" /\ EnsembleNext
    /\ UNCHANGED <<part, talkVars, retrievalVars, queriesVars, gateVars, guardVars, workflowVars>>

RetrievalStep ==
    /\ part = "gateway" /\ RetrievalNext
    /\ UNCHANGED <<part, talkVars, ensembleVars, queriesVars, gateVars, guardVars, workflowVars>>

QueriesStep ==
    /\ part = "queries" /\ QueriesNext
    /\ UNCHANGED <<part, talkVars, ensembleVars, retrievalVars, gateVars, guardVars, workflowVars>>

GateStep ==
    /\ part = "gate" /\ GateNext
    /\ UNCHANGED <<part, talkVars, ensembleVars, retrievalVars, queriesVars, guardVars, workflowVars>>

GuardStep ==
    /\ part = "guard" /\ GuardNext
    /\ UNCHANGED <<part, talkVars, ensembleVars, retrievalVars, queriesVars, gateVars, workflowVars>>

WorkflowStep ==
    /\ part = "workflow" /\ WorkflowNext
    /\ UNCHANGED <<part, talkVars, ensembleVars, retrievalVars, queriesVars, gateVars, guardVars>>

Next ==
    \/ TalkStep \/ EnsembleStep \/ RetrievalStep \/ QueriesStep \/ GateStep
    \/ GuardStep \/ WorkflowStep

(* The fairness of WorkflowSpec: the nodes of a run go on. *)
NodeStep == part = "workflow" /\ Node
            /\ UNCHANGED <<part, talkVars, ensembleVars, retrievalVars, queriesVars, gateVars, guardVars>>

Spec == Init /\ [][Next]_restVars /\ WF_restVars(NodeStep)
===============================================================================
