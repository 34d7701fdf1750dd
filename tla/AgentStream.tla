----------------------------- MODULE AgentStream -----------------------------
(***************************************************************************)
(* One streamed chat turn of agent/runtime/react.py (AgentWorkflowRuntime  *)
(* .stream with _AgentTurnLifecycle) over the durable rows of TurnStore:   *)
(* the fast paths, the reasoning loop or the two-step retrieval chain, the *)
(* verification of the answer with its one recovery pass, the delivery and *)
(* the persistence, under Stop, deletion, failures, disconnections and the *)
(* death of the process.                                                   *)
(*                                                                         *)
(* The loop and the guardrail are the sets of what they may return         *)
(* (AgentResults).  Unlike V4Stream nothing is written while the answer is *)
(* shown: a turn keeps its whole answer, <<w, Chunks>>, or the empty text  *)
(* <<w, 0>>.                                                               *)
(***************************************************************************)
EXTENDS TurnStore, AgentResults

CONSTANTS
    Workers,    \* requests to POST /chat/stream, each answered by a session
    TurnOf,     \* the turn id of a request
    ScopeOf,    \* the user and conversation of a request
    Chunks,     \* number of chunks of an answer
    MaxFaults,  \* bound: failures and disconnections in a behaviour
    CanCrash    \* whether a process may die

ASSUME WorkersAssumption == Workers \subseteq Sessions
ASSUME RequestAssumption == TurnOf \in [Workers -> Turns] /\ ScopeOf \in [Workers -> Scopes]
ASSUME ChunksAssumption  == Chunks \in Nat \ {0}
ASSUME TextsAssumption   == Workers \X {0, Chunks} \subseteq Texts
ASSUME FaultsAssumption  == MaxFaults \in Nat /\ CanCrash \in BOOLEAN

VARIABLES
    phase,      \* where a worker is in stream()
    route,      \* how it answers: policy of the route, and the chain or the loop
    answer,     \* the result it has in hand, whether the guardrail returned its
                \* text, and whether it let pass a text that was empty then
    shown,      \* how many chunks it has yielded
    finalized,  \* finalized of _AgentTurnLifecycle
    farewell,   \* the last event of the stream
    faults      \* failures and disconnections so far

local   == <<route, answer, shown, finalized, farewell>>
streams == <<phase, local, faults>>
allVars == <<vars, streams>>

Replied == {"begin", "stopping", "fast_stopping", "late_stopping", "fast_completing",
            "completing", "marking", "failing", "interrupting", "leaving", "giving_up"}
Working == {"loaded", "check", "route", "fast", "agent", "decide", "verify", "recover",
            "reverify", "compose", "deliver", "persist", "save", "record"}
Closing == {"unsaved", "failed", "interrupted", "left", "given_up"}
Phases  == Replied \cup Working \cup Closing \cup {"waiting", "ended", "crashed"}

Events == {"none", "response_stopped", "response_complete", "storage_unavailable",
           "pipeline_error"}

Routes   == [legal : BOOLEAN, chain : BOOLEAN]
NoAnswer == [result |-> Result("none", "none", "none", FALSE), verified |-> FALSE, emptied |-> FALSE]

Settles(r) == r \in Settled

AgentInit ==
    /\ Init
    /\ phase = [w \in Workers |-> "waiting"]
    /\ route = [w \in Workers |-> [legal |-> FALSE, chain |-> FALSE]]
    /\ answer = [w \in Workers |-> NoAnswer]
    /\ shown = [w \in Workers |-> 0]
    /\ finalized = [w \in Workers |-> FALSE]
    /\ farewell = [w \in Workers |-> "none"]
    /\ faults = 0

(***************************************************************************)
(* Steps of a worker                                                       *)
(***************************************************************************)
GoTo(w, next) == phase' = [phase EXCEPT ![w] = next]

Proceeding(w, next) == GoTo(w, next) /\ UNCHANGED <<vars, local>>

Fault == faults < MaxFaults /\ faults' = faults + 1

(* The reply to the call of phase p; the database may have committed and   *)
(* the connection be lost before the worker hears of it.                   *)
Reply(w, p, r) ==
    /\ phase[w] = p
    /\ Idle(w)
    /\ \/ r = result[w] /\ UNCHANGED faults
       \/ r = "error" /\ result[w] \in TurnStatus /\ Fault

(* lifecycle.finish: content is the whole answer or empty. *)
Finish(w, size, status, next) ==
    /\ Open(w, FinishTurn(ScopeOf[w], TurnOf[w], <<w, size>>, status))
    /\ GoTo(w, next)
    /\ UNCHANGED local

(* The answer of finish_turn makes the turn final, whatever its status. *)
Finalize(w, event, next) ==
    /\ finalized' = [finalized EXCEPT ![w] = TRUE]
    /\ farewell' = [farewell EXCEPT ![w] = event]
    /\ GoTo(w, next)
    /\ UNCHANGED <<vars, route, answer, shown>>

Farewell(w, event, next) ==
    /\ farewell' = [farewell EXCEPT ![w] = event]
    /\ GoTo(w, next)
    /\ UNCHANGED <<vars, route, answer, shown, finalized>>

(* Fault: an exit leaves the turn as it is. *)
LeavesAsItIs(w) == TRUE

(* lifecycle.finish does nothing for a turn that is finalized. *)
NothingToSettle(w) == finalized[w]

(* is_turn_cancelled *)
Cancelled(w) ==
    /\ turns[TurnOf[w]].status = "stopped"
    /\ turns[TurnOf[w]].scope = ScopeOf[w]

(* history.load *)
LoadHistory(w) ==
    /\ phase[w] = "waiting"
    /\ MakeConversation(ScopeOf[w])
    /\ GoTo(w, "loaded")
    /\ UNCHANGED <<local, faults>>

Begin(w) ==
    /\ phase[w] = "loaded"
    /\ \/ \E q \in Questions : Open(w, BeginMessage(ScopeOf[w], TurnOf[w], q))
       \/ \E m \in MessageIds : Open(w, BeginReplay(ScopeOf[w], TurnOf[w], m))
    /\ GoTo(w, "begin")
    /\ UNCHANGED <<local, faults>>

(* started is set only when begin_turn returns. *)
Begun(w) ==
    \E r \in Results :
        /\ Reply(w, "begin", r)
        /\ IF r \in TurnStatus THEN Proceeding(w, "check")
                               ELSE Farewell(w, "storage_unavailable", "ended")

FirstCheck(w) ==
    /\ phase[w] = "check"
    /\ IF Cancelled(w) THEN Finish(w, 0, "stopped", "stopping")
                       ELSE Proceeding(w, "route")
    /\ UNCHANGED faults

(* An event of stored state could not be read or written: the stream ends  *)
(* with an error event, and the finally of stream() sees to the turn.      *)
FirstCheckFails(w) ==
    /\ phase[w] = "check"
    /\ Fault
    /\ Farewell(w, "storage_unavailable", "left")

Hold(w, x) == answer' = [answer EXCEPT ![w] = [result |-> x, verified |-> FALSE, emptied |-> FALSE]]

Canned(reason, source) == Result(reason, source, "canned", FALSE)

(* Invalid input, an elliptical follow-up and a question out of scope,     *)
(* which only differ in their words; small talk; else the chain or the     *)
(* loop under the policy of the route.                                     *)
TakeRoute(w) ==
    /\ phase[w] = "route"
    /\ \/ /\ Hold(w, Canned("fast_path", "error"))
          /\ GoTo(w, "fast")
          /\ UNCHANGED route
       \/ /\ Hold(w, Result("answer_complete", "chitchat", "chitchat", FALSE))
          /\ GoTo(w, "deliver")
          /\ UNCHANGED route
       \/ /\ \E legal \in BOOLEAN, chain \in BOOLEAN :
                /\ chain => legal
                /\ route' = [route EXCEPT ![w] = [legal |-> legal, chain |-> chain]]
          /\ GoTo(w, "agent")
          /\ UNCHANGED answer
    /\ UNCHANGED <<vars, shown, finalized, farewell, faults>>

Chatting(w) == answer[w].result.text = "chitchat"

(***************************************************************************)
(* The fast paths                                                          *)
(***************************************************************************)
FinishFastPath(w) ==
    /\ phase[w] = "fast"
    /\ IF Cancelled(w) THEN Finish(w, 0, "stopped", "fast_stopping")
                       ELSE Finish(w, Chunks, "complete", "fast_completing")
    /\ UNCHANGED faults

FastPathFails(w) ==
    /\ phase[w] = "fast"
    /\ Fault
    /\ Farewell(w, "storage_unavailable", "left")

(* Only a complete turn is checked for how it ended. *)
AfterFastPath(w) ==
    \E p \in {"fast_stopping", "fast_completing"}, r \in Results :
        /\ Reply(w, p, r)
        /\ \/ r = "stopped" /\ Finalize(w, "response_stopped", "ended")
           \/ r = "complete" /\ Finalize(w, "response_complete", "ended")
           \/ r = "failed" /\ p = "fast_stopping" /\ Finalize(w, "response_complete", "ended")
           \/ r = "failed" /\ p = "fast_completing" /\ Finalize(w, "storage_unavailable", "ended")
           \/ r \notin Settled /\ Farewell(w, "storage_unavailable", "left")

(***************************************************************************)
(* The answer and its verification                                         *)
(***************************************************************************)
(* The loop says that it was cancelled only of a turn that was. *)
PassResults(w) == {x \in LoopResults : x.reason = "user_cancelled" => Cancelled(w)}

RunAgent(w) ==
    /\ phase[w] = "agent"
    /\ \E x \in IF route[w].chain THEN StandardResults ELSE PassResults(w) : Hold(w, x)
    /\ GoTo(w, "decide")
    /\ UNCHANGED <<vars, route, shown, finalized, farewell, faults>>

(* An exception that no handler in _stream catches. *)
PassFails(w) ==
    /\ phase[w] \in {"loaded", "route", "agent", "decide", "verify", "recover", "reverify"}
    /\ Fault
    /\ IF phase[w] = "loaded" THEN Farewell(w, "pipeline_error", "ended")
                              ELSE Proceeding(w, "failed")

(* Fault: cached answers count as verified when they were stored. *)
VerifiesFreshOnly(x, legal) ==
    /\ x.reason \in {"answer_complete", "research_complete", "insufficient_evidence"}
    /\ x.source \notin {"error", "follow_up"}

(* Which results the output guardrail checks before they are delivered. *)
NeedsVerification(x, legal) ==
    /\ x.reason \in {"answer_complete", "cache_hit", "research_complete", "insufficient_evidence"}
    /\ \/ x.source \notin {"error", "follow_up"}
       \/ legal /\ x.evidence /\ x.reason = "insufficient_evidence"

Decide(w) ==
    /\ phase[w] = "decide"
    /\ IF answer[w].result.reason = "user_cancelled" \/ Cancelled(w)
         THEN Finish(w, 0, "stopped", "stopping")
         ELSE Proceeding(w, IF NeedsVerification(answer[w].result, route[w].legal)
                              THEN "verify" ELSE "deliver")
    /\ UNCHANGED faults

AfterStopping(w) ==
    \E r \in Results :
        /\ Reply(w, "stopping", r)
        /\ IF Settles(r) THEN Finalize(w, "response_stopped", "ended")
                         ELSE Farewell(w, "storage_unavailable", "left")

(* The readiness gate of the sources refuses with a reason that is not     *)
(* retried; only legal routes have it.                                     *)
Gated(legal) == IF legal THEN {Verdict(FALSE, "readiness", "canned")} ELSE {}

Held(w) == answer[w].result

Checked(w, legal) == Gated(legal) \cup VerdictsOn(Held(w).text, Held(w).evidence, legal)

(* The answer is held back: a canned text takes its place. *)
Fallback(w) == Hold(w, Canned("citation_verification_failed", "error"))

(* verified_or_fallback; the result keeps the text that it has when the    *)
(* guardrail passes one and returns nothing.                               *)
Release(w, text) ==
    LET kept == IF text = "empty" THEN Held(w).text ELSE text
    IN  answer' = [answer EXCEPT ![w] = [result   |-> [Held(w) EXCEPT !.text = kept],
                                         verified |-> text # "empty",
                                         emptied  |-> text = "empty"]]

Retryable(reason) == reason \in {"unsupported_claim", "insufficient_evidence"}

Verify(w) ==
    /\ phase[w] = "verify"
    /\ \E v \in Checked(w, route[w].legal) :
          \/ v.passed /\ Release(w, v.text) /\ GoTo(w, "deliver")
          \/ ~v.passed /\ Fallback(w) /\ GoTo(w, "deliver")
          \/ /\ ~v.passed /\ Retryable(v.reason)
             /\ route[w].legal /\ ~route[w].chain /\ ~Cancelled(w)
             /\ Fallback(w) /\ GoTo(w, "recover")
    /\ UNCHANGED <<vars, route, shown, finalized, farewell, faults>>

(* The recovery pass with the steps that are left. *)
Recover(w) ==
    /\ phase[w] = "recover"
    /\ \E x \in PassResults(w) :
          IF x.reason \in {"answer_complete", "cache_hit"}
            THEN Hold(w, x) /\ GoTo(w, "reverify")
            ELSE GoTo(w, "deliver") /\ UNCHANGED answer
    /\ UNCHANGED <<vars, route, shown, finalized, farewell, faults>>

Reverify(w) ==
    /\ phase[w] = "reverify"
    /\ \E v \in Checked(w, TRUE) :
          \/ v.passed /\ Release(w, v.text) /\ GoTo(w, "deliver")
          \/ /\ ~v.passed
             /\ IF Held(w).evidence /\ v.reason = "unsupported_claim"
                  THEN GoTo(w, "compose") /\ UNCHANGED answer
                  ELSE Fallback(w) /\ GoTo(w, "deliver")
    /\ UNCHANGED <<vars, route, shown, finalized, farewell, faults>>

(* generation.answer over the evidence of the recovery pass; whatever goes *)
(* wrong leaves the canned text.  In hand is still the draft of that pass. *)
Compose(w) ==
    /\ phase[w] = "compose"
    /\ \/ \E x \in {"composed", "placeholders"} : \E v \in VerdictsOn(x, TRUE, TRUE) :
             IF v.passed THEN Release(w, v.text) ELSE Fallback(w)
       \/ Fallback(w)
    /\ GoTo(w, "deliver")
    /\ UNCHANGED <<vars, route, shown, finalized, farewell, faults>>

(***************************************************************************)
(* Delivery and persistence                                                *)
(***************************************************************************)
Size(w) == IF Held(w).text \in {"empty", "none"} THEN 0 ELSE Chunks

(* Small talk is shown before its fast path finishes. *)
ShowChunk(w) ==
    /\ phase[w] = "deliver"
    /\ shown[w] < Size(w)
    /\ shown' = [shown EXCEPT ![w] = @ + 1]
    /\ UNCHANGED <<vars, phase, route, answer, finalized, farewell, faults>>

Delivered(w) ==
    /\ phase[w] = "deliver"
    /\ shown[w] = Size(w)
    /\ Proceeding(w, IF Chatting(w) THEN "fast" ELSE "persist")
    /\ UNCHANGED faults

(* A case is saved only with a question of the loop. *)
Persist(w) ==
    /\ phase[w] = "persist"
    /\ IF Cancelled(w)
         THEN Finish(w, 0, "stopped", "late_stopping")
         ELSE \/ Held(w).awaiting /\ Proceeding(w, "save")
              \/ Finish(w, Size(w), "complete", "completing")
    /\ UNCHANGED faults

SaveCase(w) ==
    /\ phase[w] = "save"
    /\ Open(w, FinishTurn(ScopeOf[w], TurnOf[w], <<w, Size(w)>>, "complete"))
    /\ GoTo(w, "completing")
    /\ UNCHANGED <<local, faults>>

AfterLateStopping(w) ==
    \E r \in Results :
        /\ Reply(w, "late_stopping", r)
        /\ IF Settles(r) THEN Finalize(w, "response_stopped", "ended")
                         ELSE Proceeding(w, "unsaved")

(* Fault: any reply of finish_turn counts as completion. *)
RecordsAny(r) == "record"

(* What follows the reply of finish_turn. *)
AfterReply(r) == IF r = "stopped" THEN "ended" ELSE IF r = "complete" THEN "record" ELSE "unsaved"

AfterCompleting(w) ==
    \E r \in Results :
        /\ Reply(w, "completing", r)
        /\ IF Settles(r)
             THEN Finalize(w, IF AfterReply(r) = "ended" THEN "response_stopped" ELSE "none",
                           AfterReply(r))
             ELSE Proceeding(w, "unsaved")

RecordRun(w) ==
    /\ phase[w] = "record"
    /\ MakeConversation(ScopeOf[w])
    /\ farewell' = [farewell EXCEPT ![w] = "response_complete"]
    /\ GoTo(w, "ended")
    /\ UNCHANGED <<route, answer, shown, finalized, faults>>

PersistenceFails(w) ==
    /\ phase[w] \in {"persist", "save", "record"}
    /\ Fault
    /\ Proceeding(w, "unsaved")

(* except Exception: finish does nothing once the turn is finalized. *)
Unsaved(w) ==
    /\ phase[w] = "unsaved"
    /\ IF NothingToSettle(w) THEN Farewell(w, "storage_unavailable", "ended")
                       ELSE Finish(w, 0, "failed", "marking")
    /\ UNCHANGED faults

AfterMarking(w) ==
    \E r \in Results :
        /\ Reply(w, "marking", r)
        /\ IF Settles(r) THEN Finalize(w, "storage_unavailable", "ended")
                         ELSE Farewell(w, "storage_unavailable", "left")

(***************************************************************************)
(* The exits of stream()                                                   *)
(***************************************************************************)
(* except Exception; the route reports what is raised. *)
Failed(w) ==
    /\ phase[w] = "failed"
    /\ IF NothingToSettle(w) THEN Farewell(w, "pipeline_error", "ended")
                       ELSE Finish(w, 0, "failed", "failing")
    /\ UNCHANGED faults

AfterFailing(w) ==
    \E r \in Results :
        /\ Reply(w, "failing", r)
        /\ IF Settles(r) THEN Finalize(w, "pipeline_error", "ended")
                         ELSE Proceeding(w, "given_up")

GivenUp(w) ==
    /\ phase[w] = "given_up"
    /\ Finish(w, 0, "failed", "giving_up")
    /\ UNCHANGED faults

AfterGivingUp(w) ==
    \E r \in Results : Reply(w, "giving_up", r) /\ Farewell(w, "pipeline_error", "ended")

(* except CancelledError *)
Interrupted(w) ==
    /\ phase[w] = "interrupted"
    /\ IF NothingToSettle(w) THEN Proceeding(w, "ended")
                       ELSE Finish(w, 0, "stopped", "interrupting")
    /\ UNCHANGED faults

AfterInterrupting(w) ==
    \E r \in Results :
        /\ Reply(w, "interrupting", r)
        /\ IF Settles(r) THEN Finalize(w, farewell[w], "ended") ELSE Proceeding(w, "left")

Left(w) ==
    /\ phase[w] = "left"
    /\ IF NothingToSettle(w) THEN Proceeding(w, "ended")
                             ELSE Finish(w, 0, "stopped", "leaving")
    /\ UNCHANGED faults

AfterLeaving(w) == \E r \in Results : Reply(w, "leaving", r) /\ Proceeding(w, "ended")

(***************************************************************************)
(* The environment                                                         *)
(***************************************************************************)
AbandonCall(w) == IF Idle(w) THEN UNCHANGED vars ELSE Fail(w)

(* Where a CancelledError raised at an await of phase p leads. *)
AfterCancellation(p) ==
    CASE p \in {"loaded", "begin", "leaving", "giving_up"} -> "ended"
      [] p = "interrupting" -> "left"
      [] p = "failing" -> "given_up"
      [] OTHER -> "interrupted"

Disconnect(w) ==
    /\ phase[w] \in Replied \cup Working
    /\ Fault
    /\ AbandonCall(w)
    /\ GoTo(w, AfterCancellation(phase[w]))
    /\ UNCHANGED local

(* The route stops iterating: GeneratorExit at a yield. *)
StopIterating(w) ==
    /\ phase[w] \in {"check", "route", "agent", "verify", "recover", "reverify", "compose", "deliver"}
    /\ Fault
    /\ Proceeding(w, "left")

Crash(w) ==
    /\ CanCrash
    /\ phase[w] \notin {"waiting", "ended", "crashed"}
    /\ AbandonCall(w)
    /\ GoTo(w, "crashed")
    /\ UNCHANGED <<local, faults>>

DatabaseFails(s) == Fault /\ Fail(s) /\ UNCHANGED <<phase, local>>

(* PUT .../turns/{turn_id}/cancel *)
PressStop(s) ==
    /\ \E w \in Workers : Open(s, CancelTurn(ScopeOf[w], TurnOf[w]))
    /\ UNCHANGED streams

DeleteSession(c) == DeleteConversation(c) /\ UNCHANGED streams

DatabaseStep(s) == CallStep(s) /\ UNCHANGED streams

WorkerStep(w) ==
    \/ Begin(w) \/ Begun(w) \/ FirstCheck(w) \/ TakeRoute(w)
    \/ FinishFastPath(w) \/ AfterFastPath(w)
    \/ RunAgent(w) \/ Decide(w) \/ AfterStopping(w)
    \/ Verify(w) \/ Recover(w) \/ Reverify(w) \/ Compose(w)
    \/ ShowChunk(w) \/ Delivered(w) \/ Persist(w) \/ SaveCase(w)
    \/ AfterLateStopping(w) \/ AfterCompleting(w) \/ RecordRun(w)
    \/ Unsaved(w) \/ AfterMarking(w)
    \/ Failed(w) \/ AfterFailing(w) \/ GivenUp(w) \/ AfterGivingUp(w)
    \/ Interrupted(w) \/ AfterInterrupting(w) \/ Left(w) \/ AfterLeaving(w)

FaultStep(w) ==
    \/ FirstCheckFails(w)
    \/ FastPathFails(w)
    \/ PassFails(w)
    \/ PersistenceFails(w)
    \/ Disconnect(w)
    \/ StopIterating(w)
    \/ Crash(w)

AgentNext ==
    \/ \E w \in Workers : LoadHistory(w) \/ WorkerStep(w) \/ FaultStep(w)
    \/ \E s \in Sessions : DatabaseStep(s) \/ DatabaseFails(s)
    \/ \E s \in Sessions \ Workers : PressStop(s)
    \/ \E c \in Scopes : DeleteSession(c)

AgentSpec == AgentInit /\ [][AgentNext]_allVars

(* A task that can run does run, the loop and the guardrail return, and    *)
(* the database answers.                                                   *)
AgentFairness == \A w \in Workers : WF_allVars(WorkerStep(w)) /\ WF_allVars(DatabaseStep(w))

FairAgentSpec == AgentSpec /\ AgentFairness
-----------------------------------------------------------------------------
(***************************************************************************)
(* Properties                                                              *)
(***************************************************************************)
Turn(w)    == turns[TurnOf[w]]
HasTurn(w) == TurnExists(TurnOf[w]) /\ Turn(w).scope = ScopeOf[w]
Stored(w)  == Message(Turn(w).assistant).content

(* The history never keeps part of an answer: a complete turn, and one     *)
(* announced as complete, has the whole of it even if Stop is recorded     *)
(* later, and a turn that the client saw stopped keeps nothing, whatever   *)
(* the client had been shown.                                              *)
AnswersAreKeptWhole ==
    \A w \in Workers : HasTurn(w) =>
        /\ Stored(w) \in {None, <<w, 0>>, <<w, Chunks>>}
        /\ Turn(w).status = "complete" \/ farewell[w] = "response_complete"
              => Stored(w) = <<w, Chunks>>
        /\ farewell[w] = "response_stopped"
              => Turn(w).status = "stopped" /\ Stored(w) # <<w, Chunks>>

Drafts == {"draft", "placeholders", "composed", "corrected"}

(* Run through the stream, callers are kept "from receiving an unverified  *)
(* autonomous answer": no draft of the model that says anything is shown   *)
(* unless the guardrail returned it.                                       *)
OnlyCheckedDraftsAreShown ==
    \A w \in Workers :
        shown[w] > 0 /\ Held(w).text \in {"draft", "composed", "corrected"} => answer[w].verified

(* What is shown without that has one cause: a text was stripped of its    *)
(* placeholders, passed although nothing was left, and the result kept the *)
(* text it had.  That is the placeholders themselves, or, where a recovery *)
(* pass and the composition follow a rejection, the draft of that pass.    *)
(* Every other text shown is one that the guardrail returned, written by   *)
(* the program, small talk or a question to the user.                      *)
DraftsPassTheGuardrail ==
    \A w \in Workers :
        shown[w] > 0 /\ Held(w).text \in Drafts =>
            \/ answer[w].verified
            \/ answer[w].emptied /\ Held(w).text = "placeholders"
            \/ /\ answer[w].emptied /\ Held(w).text = "draft"
               /\ route[w].legal /\ ~route[w].chain

(* A turn whose begin_turn has returned is settled in the end and stays    *)
(* so unless its conversation is deleted, if the process lives and no more *)
(* than one thing goes wrong.                                              *)
AgentTurnsSettle ==
    \A w \in Workers :
        [](phase[w] = "check" =>
             <>[](\/ faults > 1
                  \/ phase[w] = "crashed"
                  \/ HasTurn(w) => Turn(w).status \in Settled))
=============================================================================
