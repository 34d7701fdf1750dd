------------------------------ MODULE Conversation ------------------------------
(***************************************************************************)
(* The turns of one conversation as pipeline v4 decides them (agent/v4.py, *)
(* v4_support.py, domain/tasks.py, agent/understanding.py): what a turn    *)
(* reads of the conversation, whether it asks back, which route it takes,  *)
(* and what its end does to the case the next turns read.                  *)
(* Stop and the end of a turn each read its row and write it in another    *)
(* step, with no lock in between.  What a stream shows meanwhile is        *)
(* V4Stream's, the workflow's own nodes are LegalWorkflow's.  Which        *)
(* exchange is the last one depends on replays and deletions as well       *)
(* (TurnStore, History): here a turn may find any.                         *)
(***************************************************************************)
EXTENDS Naturals

CONSTANTS
    ConversationTurns,  \* turns that run at the same time
    QuestionsOf(_)      \* what a turn may be asked

(* What the program looks for in the words of a question: that it leans on *)
(* an earlier one, asks for the web, is foreign to the law, tells of a     *)
(* dispute, or says that there is no document; hint: the intent the client *)
(* sends along.                                                            *)
Cues        == {"web", "foreign", "dispute", "missing"}
AllQuestions == [dependent : BOOLEAN, cues : SUBSET Cues, hint : {"auto", "case"}, empty : {FALSE}]
EmptyCase   == [dependent |-> FALSE, cues |-> {}, hint |-> "case", empty |-> TRUE]

(* chitchat, lookup and comparison go the same way here; so do assessments *)
(* and checklists.                                                         *)
TurnRoutes == {"web", "out_of_scope", "case", "lookup"}

VARIABLES
    asked,      \* request of every turn
    at,         \* where it is
    seen,       \* ContextSnapshot: the last exchange, and the active case
    ending,     \* whether it ends in a safe stop, and what becomes of the case
    turnStatus, \* status of the stored turn
    statusRead, \* the status that finish_turn has read
    stopping,   \* turns that a cancel_turn in flight has read as pending
    case,       \* CaseStateRecord: none, open or completed
    witnessed,  \* ghost: what the case was when a turn last read it
    answered,   \* ghost: turns whose answer was stored as complete
    touched     \* ghost: turns that wrote the case

turnRows == <<turnStatus, statusRead, stopping, answered>>
caseRow  == <<case, witnessed, touched>>
talkVars == <<asked, at, seen, ending, turnRows, caseRow>>

Unread   == [last |-> "none", case |-> FALSE, again |-> FALSE]
NoEnding == [safeStop |-> FALSE, case |-> "kept"]

TalkInit ==
    /\ \E q \in [ConversationTurns -> AllQuestions \cup {EmptyCase}] :
         /\ \A t \in ConversationTurns : q[t] \in QuestionsOf(t)
         /\ asked = q
    /\ at = [t \in ConversationTurns |-> "begin"]
    /\ seen = [t \in ConversationTurns |-> Unread]
    /\ ending = [t \in ConversationTurns |-> NoEnding]
    /\ turnStatus = [t \in ConversationTurns |-> "none"]
    /\ statusRead = turnStatus
    /\ stopping = {} /\ answered = {} /\ touched = {}
    /\ case \in {"none", "open", "completed"}
    /\ witnessed = turnStatus

Goes(t, place) == at' = [at EXCEPT ![t] = place]

(* A turn that has its ending needs no more what it has read. *)
Ends(t, how, place) ==
    /\ ending' = [ending EXCEPT ![t] = how]
    /\ seen' = [seen EXCEPT ![t] = Unread]
    /\ Goes(t, place)

(* finish_turn returns; a turn that is over has no local variables. *)
GoesOver(t, place) ==
    /\ Goes(t, place)
    /\ ending' = IF place = "done" THEN [ending EXCEPT ![t] = NoEnding] ELSE ending
    /\ statusRead' = [statusRead EXCEPT ![t] = "none"]

-------------------------------------------------------------------------------
(* domain/tasks.py *)

(* classify_route *)
ClassifyRoute(q) ==
    CASE "web" \in q.cues     -> "web"
      [] q.cues \cap {"web", "foreign"} = {"foreign"} -> "out_of_scope"
      [] q.cues \cap {"web", "foreign"} = {} /\ "dispute" \in q.cues -> "case"
      [] OTHER -> "lookup"

(* latest_conversation_turn, latest_turn_requires_context: there is no     *)
(* earlier exchange, or its answer left the question open, or it did not.  *)
LastExchanges == {"none", "open", "closed"}

-------------------------------------------------------------------------------
(* agent/understanding.py *)

(* The routes that understanding may give: those of a model, which is      *)
(* overruled when it makes a case of a question that tells of none and no  *)
(* case is active; without a model, what the words say.                    *)
UnderstoodRoutes(q, active) ==
    {r \in TurnRoutes : r = "case" /\ ~active => ClassifyRoute(q) = "case"} \cup {ClassifyRoute(q)}

(* A standalone query is written by the model, or by rewrite_follow_up     *)
(* from the last exchange; its words may then say anything.                *)
RouteOfRewritten(q, last, understood) ==
    IF understood \/ (q.dependent /\ last # "none") THEN TurnRoutes ELSE {ClassifyRoute(q)}

-------------------------------------------------------------------------------
(* _terminal_safe_stop *)
Declined(becomes) == [safeStop |-> TRUE, case |-> becomes]

(* The question and its placeholder are stored; a case request without     *)
(* words ends here.                                                        *)
Begin(t) ==
    /\ at[t] = "begin"
    /\ turnStatus' = [turnStatus EXCEPT ![t] = "pending"]
    /\ IF asked[t].empty
         THEN Ends(t, Declined("kept"), "persist")
         ELSE Goes(t, "history") /\ UNCHANGED <<seen, ending>>
    /\ UNCHANGED <<asked, statusRead, stopping, answered, caseRow>>

(* load: the exchanges and the case are read in two transactions. *)
LoadHistory(t) ==
    /\ at[t] = "history"
    /\ \E last \in LastExchanges : seen' = [seen EXCEPT ![t].last = last]
    /\ Goes(t, "load_case")
    /\ UNCHANGED <<asked, ending, turnRows, caseRow>>

(* Fault: a completed case is shown like any other. *)
ShownAlways(state) == state # "none"

(* load_case shows no completed case. *)
ShownCase(state) == state \notin {"none", "completed"}

LoadCase(t) ==
    /\ at[t] = "load_case"
    /\ seen' = [seen EXCEPT ![t].case = ShownCase(case)]
    /\ witnessed' = [witnessed EXCEPT ![t] = case]
    /\ Goes(t, "clarify")
    /\ UNCHANGED <<asked, ending, turnRows, case, touched>>

(* _clarify_unresolved_follow_up *)
Unresolved(q, context) == q.dependent /\ ~context.case /\ context.last \in {"none", "open"}

Clarify(t) ==
    /\ at[t] = "clarify"
    /\ IF Unresolved(asked[t], seen[t])
         THEN Ends(t, Declined("kept"), "persist")
         ELSE /\ Goes(t, IF seen[t].again \/ asked[t].hint = "case" THEN "case" ELSE "route")
              /\ UNCHANGED <<seen, ending>>
    /\ UNCHANGED <<asked, turnRows, caseRow>>

(* _execute: a turn that is understood as a case reads everything again. *)
TakeTurnRoute(t) ==
    /\ at[t] = "route"
    /\ \E r \in UnderstoodRoutes(asked[t], seen[t].case) :
         \/ /\ r = "case"
            /\ seen' = [seen EXCEPT ![t] = [Unread EXCEPT !.again = TRUE]]
            /\ Goes(t, "history") /\ UNCHANGED ending
         \/ r = "out_of_scope" /\ Ends(t, Declined("kept"), "persist")
         \/ /\ r = "lookup" /\ "missing" \in asked[t].cues
            /\ Ends(t, Declined(IF seen[t].case THEN "saved" ELSE "kept"), "persist")
         \/ /\ r = "web" \/ (r = "lookup" /\ "missing" \notin asked[t].cues)
            /\ Goes(t, "ordinary") /\ UNCHANGED <<seen, ending>>
    /\ UNCHANGED <<asked, turnRows, caseRow>>

(* _execute_case: the words decide once more, unless the client does. *)
TakeCaseRoute(t) ==
    /\ at[t] = "case"
    /\ \E understood \in BOOLEAN : \E r \in RouteOfRewritten(asked[t], seen[t].last, understood) :
         Goes(t, IF asked[t].hint = "case" \/ r = "case" THEN "general" ELSE "ordinary")
    /\ UNCHANGED <<asked, seen, ending, turnRows, caseRow>>

(* The legal workflow gives an answer or stops safely; it forgets the case *)
(* it read.  Only a turn of a case takes the facts with it, and puts the   *)
(* case away.                                                              *)
RunWorkflow(t) ==
    /\ at[t] \in {"ordinary", "general"}
    /\ \/ \E safeStop \in BOOLEAN :
            Ends(t, [safeStop |-> safeStop,
                     case |-> IF at[t] = "general" /\ seen[t].case THEN "cleared" ELSE "kept"], "persist")
       \/ Ends(t, NoEnding, "fail")
    /\ UNCHANGED <<asked, turnRows, caseRow>>

-------------------------------------------------------------------------------
(* finish_turn: a turn that it finds stopped keeps its status. *)
Finished(status, requested) == IF status = "stopped" THEN "stopped" ELSE requested

(* Fault: the case is written whatever became of the turn. *)
AfterFinishing(status) == "save"

AfterFinish(status) == IF status = "complete" THEN "save" ELSE "done"

FindTurn(t) ==
    /\ at[t] \in {"persist", "fail"}
    /\ statusRead' = [statusRead EXCEPT ![t] = turnStatus[t]]
    /\ Goes(t, IF at[t] = "persist" THEN "answer" ELSE "failure")
    /\ UNCHANGED <<asked, seen, ending, turnStatus, stopping, answered, caseRow>>

StoreAnswer(t) ==
    /\ at[t] = "answer"
    /\ LET status == Finished(statusRead[t], "complete")
       IN  /\ turnStatus' = [turnStatus EXCEPT ![t] = status]
           /\ answered' = IF status = "complete" THEN answered \cup {t} ELSE answered
           /\ GoesOver(t, AfterFinish(status))
    /\ UNCHANGED <<asked, seen, stopping, caseRow>>

(* clear_case, or save_case of the case as it was read. *)
WriteCase(t) ==
    /\ at[t] = "save"
    /\ case' = CASE ending[t].case = "cleared" /\ case # "none" -> "completed"
                 [] ending[t].case = "saved" -> "open"
                 [] OTHER -> case
    /\ touched' = IF ending[t].case # "kept" THEN touched \cup {t} ELSE touched
    /\ GoesOver(t, "done")
    /\ UNCHANGED <<asked, seen, turnStatus, stopping, answered, witnessed>>

(* An exception before or while the answer is stored. *)
AnswerFails(t) ==
    /\ at[t] \in {"persist", "answer"}
    /\ Goes(t, "fail")
    /\ UNCHANGED <<asked, seen, ending, turnRows, caseRow>>

StoreFailure(t) ==
    /\ at[t] = "failure"
    /\ turnStatus' = [turnStatus EXCEPT ![t] = Finished(statusRead[t], "failed")]
    /\ GoesOver(t, "done")
    /\ UNCHANGED <<asked, seen, stopping, answered, caseRow>>

CaseWriteFails(t) ==
    /\ at[t] = "save"
    /\ GoesOver(t, "done")
    /\ UNCHANGED <<asked, seen, turnStatus, stopping, answered, caseRow>>

(* cancel_turn: what it has read as pending it stops, whatever has become  *)
(* of the turn by then.                                                    *)
ReadStop(t) ==
    /\ turnStatus[t] = "pending"
    /\ stopping' = stopping \cup {t}
    /\ UNCHANGED <<asked, at, seen, ending, turnStatus, statusRead, answered, caseRow>>

StopTurn(t) ==
    /\ t \in stopping
    /\ turnStatus' = [turnStatus EXCEPT ![t] = "stopped"]
    /\ stopping' = stopping \ {t}
    /\ UNCHANGED <<asked, at, seen, ending, statusRead, answered, caseRow>>

TalkNext ==
    \E t \in ConversationTurns :
        \/ Begin(t) \/ LoadHistory(t) \/ LoadCase(t) \/ Clarify(t) \/ TakeTurnRoute(t)
        \/ TakeCaseRoute(t) \/ RunWorkflow(t) \/ FindTurn(t) \/ StoreAnswer(t) \/ WriteCase(t)
        \/ AnswerFails(t) \/ StoreFailure(t) \/ CaseWriteFails(t) \/ ReadStop(t) \/ StopTurn(t)

TalkSpec == TalkInit /\ [][TalkNext]_talkVars

-------------------------------------------------------------------------------
(* A case is written without completing those of a safe stop (docstring of *)
(* _persist): a turn that gave no answer leaves the case where the user    *)
(* can return to it.                                                       *)
SafeStopsKeepTheCase ==
    [][case # "completed" /\ case' = "completed" =>
          \E t \in ConversationTurns : at[t] = "save" /\ ~ending[t].safeStop]_talkVars

(* The answer of a turn that wrote the case had been stored as complete    *)
(* before, and only a Stop that had read the turn while it was pending has *)
(* undone it since: no turn writes the case that failed, or that was       *)
(* stopped while it was answered.                                          *)
CaseFollowsAnAnswer ==
    \A t \in touched : t \in answered /\ turnStatus[t] \in {"complete", "stopped"}

(* A completed case is hidden from the turns that come after: it is opened *)
(* again only by a turn that read it while it was open, and read nothing   *)
(* newer when it was routed anew.                                          *)
CompletedCasesStayHidden ==
    [][case = "completed" /\ case' # "completed" =>
          \E t \in ConversationTurns : at[t] = "save" /\ witnessed[t] = "open"]_talkVars
===============================================================================
