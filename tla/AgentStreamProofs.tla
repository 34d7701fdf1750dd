--------------------------- MODULE AgentStreamProofs ---------------------------
(***************************************************************************)
(* A streamed turn of pipeline-agent implements TurnStore too; it shows no *)
(* draft that the guardrail has not passed, and the history keeps its      *)
(* answer whole or not at all.                                             *)
(***************************************************************************)
EXTENDS AgentStream, TurnStoreProofs, TLAPS

(***************************************************************************)
(* Every step is a step of TurnStore                                       *)
(***************************************************************************)
LEMMA RequestTypes ==
    ASSUME NEW w \in Workers
    PROVE  /\ w \in Sessions /\ TurnOf[w] \in Turns /\ ScopeOf[w] \in Scopes
           /\ <<w, 0>> \in Texts /\ <<w, Chunks>> \in Texts
  BY WorkersAssumption, RequestAssumption, TextsAssumption

LEMMA FinishIsCall ==
    ASSUME NEW w \in Workers, NEW size \in {0, Chunks}, NEW st \in Settled,
           Open(w, FinishTurn(ScopeOf[w], TurnOf[w], <<w, size>>, st))
    PROVE  Next
  <1>1. ClientCall(w)
    BY RequestTypes DEF ClientCall
  <1>. QED  BY <1>1, RequestTypes DEF Next

LEMMA AbandonIsStep ==
    ASSUME NEW w \in Workers, AbandonCall(w)
    PROVE  [Next]_vars
  BY WorkersAssumption DEF AbandonCall, SessionStep, Next

LEMMA WorkerStepIsStep ==
    ASSUME NEW w \in Workers, LoadHistory(w) \/ WorkerStep(w) \/ FaultStep(w)
    PROVE  [Next]_vars
  <1>1. {"complete", "stopped", "failed"} \subseteq Settled /\ Size(w) \in {0, Chunks}
    BY DEF Settled, Size
  <1>2. ASSUME NEW size \in {0, Chunks}, NEW st \in Settled, NEW next,
               Finish(w, size, st, next)
        PROVE  Next
    BY <1>2, FinishIsCall DEF Finish
  <1>3. ASSUME NEW next, Proceeding(w, next) PROVE UNCHANGED vars
    BY <1>3 DEF Proceeding
  <1>4. ASSUME NEW event, NEW next, Farewell(w, event, next) \/ Finalize(w, event, next)
        PROVE  UNCHANGED vars
    BY <1>4 DEF Farewell, Finalize
  <1>5. CASE LoadHistory(w) \/ RecordRun(w)
    BY <1>5, RequestTypes DEF LoadHistory, RecordRun, Next
  <1>6. CASE Begin(w)
    <2>1. ClientCall(w)
      BY <1>6, RequestTypes DEF Begin, ClientCall
    <2>. QED  BY <2>1, RequestTypes DEF Next
  <1>7. CASE FirstCheck(w) \/ FinishFastPath(w) \/ Decide(w) \/ Persist(w) \/ Unsaved(w)
             \/ Failed(w) \/ GivenUp(w) \/ Interrupted(w) \/ Left(w)
    BY <1>1, <1>2, <1>3, <1>4, <1>7
       DEF FirstCheck, FinishFastPath, Decide, Persist, Unsaved, Failed, GivenUp, Interrupted,
           Left
  <1>8. CASE SaveCase(w)
    BY <1>1, <1>8, FinishIsCall DEF SaveCase
  <1>9. CASE Begun(w) \/ AfterFastPath(w) \/ AfterStopping(w) \/ AfterLateStopping(w)
             \/ AfterCompleting(w) \/ AfterMarking(w) \/ AfterFailing(w) \/ AfterGivingUp(w)
             \/ AfterInterrupting(w) \/ AfterLeaving(w)
    BY <1>3, <1>4, <1>9
       DEF Begun, AfterFastPath, AfterStopping, AfterLateStopping, AfterCompleting,
           AfterMarking, AfterFailing, AfterGivingUp, AfterInterrupting, AfterLeaving
  <1>10. CASE TakeRoute(w) \/ RunAgent(w) \/ Verify(w) \/ Recover(w) \/ Reverify(w)
              \/ Compose(w) \/ ShowChunk(w) \/ Delivered(w)
    BY <1>3, <1>10 DEF TakeRoute, RunAgent, Verify, Recover, Reverify, Compose, ShowChunk,
                       Delivered
  <1>11. CASE FirstCheckFails(w) \/ FastPathFails(w) \/ PassFails(w) \/ PersistenceFails(w)
              \/ StopIterating(w)
    BY <1>3, <1>4, <1>11
       DEF FirstCheckFails, FastPathFails, PassFails, PersistenceFails, StopIterating
  <1>12. CASE Disconnect(w) \/ Crash(w)
    BY <1>12, AbandonIsStep DEF Disconnect, Crash
  <1>. QED  BY <1>5, <1>6, <1>7, <1>8, <1>9, <1>10, <1>11, <1>12 DEF WorkerStep, FaultStep

LEMMA AgentStepIsStep == [AgentNext]_allVars => [Next]_vars
  <1>. SUFFICES ASSUME [AgentNext]_allVars PROVE [Next]_vars
    OBVIOUS
  <1>1. ASSUME NEW s \in Sessions, DatabaseStep(s) \/ DatabaseFails(s)
        PROVE  Next
    BY <1>1 DEF DatabaseStep, DatabaseFails, SessionStep, Next
  <1>2. ASSUME NEW s \in Sessions, PressStop(s)
        PROVE  Next
    <2>1. ClientCall(s)
      BY <1>2, RequestAssumption DEF PressStop, ClientCall
    <2>. QED  BY <2>1 DEF Next
  <1>3. ASSUME NEW c \in Scopes, DeleteSession(c)
        PROVE  Next
    BY <1>3 DEF DeleteSession, Next
  <1>4. CASE UNCHANGED allVars
    BY <1>4 DEF allVars
  <1>. QED  BY <1>1, <1>2, <1>3, <1>4, WorkerStepIsStep DEF AgentNext

(* Whatever the loop, the guardrail and the exits of stream() do, the rows *)
(* change only as TurnStore says, so what is proved of it holds here.      *)
THEOREM AgentImplementsTurnStore == AgentSpec => Spec
  <1>1. AgentInit => Init
    BY DEF AgentInit
  <1>. QED  BY <1>1, AgentStepIsStep, PTL DEF AgentSpec, Spec

(* One exchange per turn id, and no row without its conversation, for the *)
(* turns of pipeline-agent.                                               *)
THEOREM AgentKeepsRows == AgentSpec => [](OneExchangePerTurn /\ NoOrphanRows)
  <1>. QED  BY AgentImplementsTurnStore, OneExchange, NoOrphans, PTL

(***************************************************************************)
(* The type of a stream                                                    *)
(***************************************************************************)
Reasons == {"none", "fast_path", "awaiting_user_input", "answer_complete", "cache_hit",
            "insufficient_evidence", "user_cancelled", "error",
            "citation_verification_failed"}
Sources == {"none", "error", "follow_up", "chitchat", "cache", "legal"}
Kinds   == {"none", "empty", "canned", "chitchat", "question"} \cup Drafts

AnswerResults == [reason : Reasons, source : Sources, text : Kinds, evidence : BOOLEAN,
                  awaiting : BOOLEAN]
AgentAnswers  == [result : AnswerResults, verified : BOOLEAN, emptied : BOOLEAN]

AgentTypes ==
    /\ phase \in [Workers -> Phases]
    /\ route \in [Workers -> Routes]
    /\ answer \in [Workers -> AgentAnswers]
    /\ shown \in [Workers -> 0 .. Chunks]
    /\ finalized \in [Workers -> BOOLEAN]
    /\ farewell \in [Workers -> Events]
    /\ faults \in 0 .. MaxFaults

LEMMA ResultTyped ==
    ASSUME NEW reason \in Reasons, NEW source \in Sources, NEW text \in Kinds,
           NEW evidence \in BOOLEAN
    PROVE  LET x == Result(reason, source, text, evidence)
           IN  /\ x \in AnswerResults /\ x.text = text /\ x.reason = reason
               /\ x.source = source /\ x.evidence = evidence
  BY DEF Result, AnswerResults

(* What the loop and the chain may return: an error and a question are     *)
(* written by the program or asked of the user, and whatever else has a    *)
(* text is checked.                                                        *)
Judged(x) ==
    /\ x \in AnswerResults
    /\ x.reason # "user_cancelled" => x.text # "none"
    /\ x.reason \in {"answer_complete", "cache_hit"}
          => x.text \in {"draft", "placeholders", "empty"}
    /\ \/ x.reason = "user_cancelled"
       \/ x.text \in {"question", "canned"}
       \/ \A legal : NeedsVerification(x, legal)

LEMMA ResultsJudged == \A x \in LoopResults \cup StandardResults : Judged(x)
  <1>1. /\ {"user_cancelled", "error", "insufficient_evidence", "awaiting_user_input",
            "cache_hit", "answer_complete"} \subseteq Reasons
        /\ {"error", "follow_up", "cache", "legal"} \subseteq Sources
        /\ {"none", "canned", "question", "draft", "placeholders", "empty"} \subseteq Kinds
    BY DEF Reasons, Sources, Kinds, Drafts
  <1>2. ASSUME NEW e \in BOOLEAN, NEW x,
               x \in {CancelledResult(e), ErrorResult(e), ExhaustedResult(e), QuestionResult}
        PROVE  Judged(x)
    <2>1. CASE x = Result("user_cancelled", "error", "none", e)
      BY <1>1, <2>1, ResultTyped DEF Judged
    <2>2. CASE x = Result("error", "error", "canned", e)
      BY <1>1, <2>2, ResultTyped DEF Judged
    <2>3. CASE x = Result("insufficient_evidence", "error", "canned", e)
      BY <1>1, <2>3, ResultTyped DEF Judged
    <2>4. CASE x = Result("awaiting_user_input", "follow_up", "question", FALSE)
      <3>1. PICK f \in BOOLEAN : f = FALSE
        OBVIOUS
      <3>2. x = Result("awaiting_user_input", "follow_up", "question", f)
        BY <2>4, <3>1
      <3>. QED  BY <1>1, <3>2, ResultTyped DEF Judged
    <2>. QED  BY <1>2, <2>1, <2>2, <2>3, <2>4
              DEF CancelledResult, ErrorResult, ExhaustedResult, QuestionResult
  <1>3. ASSUME NEW e \in BOOLEAN, NEW text \in {"draft", "placeholders", "empty"}, NEW x,
               \/ x = Result("cache_hit", "cache", text, e)
               \/ x = Result("answer_complete", "legal", text, e)
               \/ x = Result("insufficient_evidence", "legal", text, e)
        PROVE  Judged(x)
    <2>1. CASE x = Result("cache_hit", "cache", text, e)
      BY <1>1, <2>1, ResultTyped DEF Judged, NeedsVerification
    <2>2. CASE x = Result("answer_complete", "legal", text, e)
      BY <1>1, <2>2, ResultTyped DEF Judged, NeedsVerification
    <2>3. CASE x = Result("insufficient_evidence", "legal", text, e)
      BY <1>1, <2>3, ResultTyped DEF Judged, NeedsVerification
    <2>. QED  BY <1>3, <2>1, <2>2, <2>3
  <1>4. ASSUME NEW x \in LoopResults
        PROVE  Judged(x)
    <2>1. PICK e \in BOOLEAN :
             x \in {QuestionResult, CancelledResult(e), ErrorResult(e), ExhaustedResult(e)} \cup
                   {AnswerResult(h, text, e) : h \in BOOLEAN, text \in {"draft", "placeholders", "empty"}}
      BY <1>4 DEF LoopResults
    <2>2. CASE x \in {QuestionResult, CancelledResult(e), ErrorResult(e), ExhaustedResult(e)}
      BY <1>2, <2>2
    <2>3. CASE \E h \in BOOLEAN, text \in {"draft", "placeholders", "empty"} :
                  x = AnswerResult(h, text, e)
      BY <1>3, <2>3 DEF AnswerResult
    <2>. QED  BY <2>1, <2>2, <2>3
  <1>5. ASSUME NEW x \in StandardResults
        PROVE  Judged(x)
    <2>1. PICK e \in BOOLEAN, text \in {"draft", "placeholders", "empty"} :
             x = Result(IF e /\ text # "empty" THEN "answer_complete" ELSE "insufficient_evidence",
                        "legal", text, e)
      BY <1>5 DEF StandardResults
    <2>2. \/ x = Result("answer_complete", "legal", text, e)
          \/ x = Result("insufficient_evidence", "legal", text, e)
      BY <2>1
    <2>. QED  BY <1>3, <2>2
  <1>. QED  BY <1>4, <1>5

LEMMA CannedTyped ==
    ASSUME NEW reason \in Reasons, NEW source \in Sources
    PROVE  Canned(reason, source) \in AnswerResults /\ Canned(reason, source).text = "canned"
  <1>1. "canned" \in Kinds /\ FALSE \in BOOLEAN
    BY DEF Kinds
  <1>. QED  BY <1>1, ResultTyped DEF Canned

LEMMA VerdictsTyped ==
    ASSUME NEW text \in Kinds, NEW evidence \in BOOLEAN, NEW legal \in BOOLEAN,
           NEW v \in VerdictsOn(text, evidence, legal)
    PROVE  /\ v.text \in Kinds
           /\ v.passed => text # "empty" /\ v.text \in {text, "empty", "corrected"}
           /\ v.passed /\ v.text = "empty" => text = "placeholders"
           /\ v.reason = "unsupported_claim" => text \notin {"empty", "placeholders"}
  <1>1. CASE \E r \in Refusals(text) : v = Verdict(FALSE, r, "canned")
    BY <1>1 DEF Verdict, Kinds, Refusals
  <1>2. CASE /\ text # "empty"
             /\ \E x \in Releases(text, evidence) : v = Verdict(TRUE, "ok", x)
    BY <1>2 DEF Verdict, Kinds, Drafts, Releases
  <1>. QED  BY <1>1, <1>2 DEF VerdictsOn

LEMMA FaultType == faults \in 0 .. MaxFaults /\ Fault => faults' \in 0 .. MaxFaults
  BY FaultsAssumption DEF Fault

LEMMA ReplyType ==
    ASSUME AgentTypes, NEW w \in Workers, NEW p, NEW r, Reply(w, p, r)
    PROVE  phase[w] = p /\ Idle(w) /\ (r # "error" => result[w] = r) /\ faults' \in 0 .. MaxFaults
  BY FaultType DEF Reply, AgentTypes

LEMMA GoToType ==
    ASSUME AgentTypes, NEW w \in Workers, NEW next \in Phases, GoTo(w, next)
    PROVE  /\ phase' \in [Workers -> Phases]
           /\ phase'[w] = next
           /\ \A z \in Workers \ {w} : phase'[z] = phase[z]
  BY DEF GoTo, AgentTypes

LEMMA HoldEffect ==
    ASSUME AgentTypes, NEW w \in Workers, NEW x \in AnswerResults, Hold(w, x)
    PROVE  /\ answer' \in [Workers -> AgentAnswers]
           /\ Held(w)' = x
           /\ \A z \in Workers \ {w} : answer'[z] = answer[z]
  <1>1. [result |-> x, verified |-> FALSE, emptied |-> FALSE] \in AgentAnswers
    BY DEF AgentAnswers
  <1>. QED  BY <1>1 DEF Hold, Held, AgentTypes

LEMMA ReleaseEffect ==
    ASSUME AgentTypes, NEW w \in Workers, NEW text \in Kinds, Release(w, text)
    PROVE  /\ answer' \in [Workers -> AgentAnswers]
           /\ answer'[w].verified = (text # "empty")
           /\ answer'[w].emptied = (text = "empty")
           /\ Held(w)'.text = IF text = "empty" THEN Held(w).text ELSE text
           /\ \A z \in Workers \ {w} : answer'[z] = answer[z]
  <1>1. answer[w] \in AgentAnswers
    BY DEF AgentTypes
  <1>. PICK kept : kept = IF text = "empty" THEN answer[w].result.text ELSE text
    OBVIOUS
  <1>2. kept \in Kinds
    BY <1>1 DEF AgentAnswers, AnswerResults
  <1>. PICK new : new = [result |-> [answer[w].result EXCEPT !.text = kept],
                         verified |-> text # "empty", emptied |-> text = "empty"]
    OBVIOUS
  <1>3. /\ new \in AgentAnswers /\ new.result.text = kept
        /\ new.verified = (text # "empty") /\ new.emptied = (text = "empty")
    BY <1>1, <1>2 DEF AgentAnswers, AnswerResults
  <1>4. answer' = [answer EXCEPT ![w] = new]
    BY DEF Release, Held
  <1>. QED  BY <1>3, <1>4 DEF Held, AgentTypes

(* What a step of a worker does to the state of stream().                  *)
LocalTypes(w) ==
    /\ phase' \in [Workers -> Phases]
    /\ route' \in [Workers -> Routes]
    /\ answer' \in [Workers -> AgentAnswers]
    /\ shown' \in [Workers -> 0 .. Chunks]
    /\ finalized' \in [Workers -> BOOLEAN]
    /\ farewell' \in [Workers -> Events]
    /\ \A z \in Workers \ {w} :
          /\ phase'[z] = phase[z] /\ route'[z] = route[z] /\ answer'[z] = answer[z]
          /\ shown'[z] = shown[z] /\ farewell'[z] = farewell[z]

LEMMA GoToLocals ==
    ASSUME AgentTypes, NEW w \in Workers, NEW next \in Phases, GoTo(w, next), UNCHANGED local
    PROVE  LocalTypes(w)
  BY GoToType DEF AgentTypes, LocalTypes, local

LEMMA ProceedingLocals ==
    ASSUME AgentTypes, NEW w \in Workers, NEW next \in Phases, Proceeding(w, next)
    PROVE  LocalTypes(w)
  BY GoToLocals DEF Proceeding

LEMMA FinishLocals ==
    ASSUME AgentTypes, NEW w \in Workers, NEW next \in Phases, NEW size, NEW st,
           Finish(w, size, st, next)
    PROVE  LocalTypes(w)
  BY GoToLocals DEF Finish

LEMMA FarewellLocals ==
    ASSUME AgentTypes, NEW w \in Workers, NEW next \in Phases, NEW event \in Events,
           Farewell(w, event, next) \/ Finalize(w, event, next)
    PROVE  LocalTypes(w)
  BY GoToType DEF Farewell, Finalize, AgentTypes, LocalTypes

LEMMA AnswerLocals ==
    ASSUME AgentTypes, NEW w \in Workers, NEW next \in Phases, GoTo(w, next),
           answer' \in [Workers -> AgentAnswers],
           \A z \in Workers \ {w} : answer'[z] = answer[z],
           UNCHANGED <<route, shown, finalized, farewell>>
    PROVE  LocalTypes(w)
  BY GoToType DEF AgentTypes, LocalTypes

LEMMA AnswerStepLocals ==
    ASSUME AgentTypes, NEW w \in Workers,
           \/ TakeRoute(w) \/ RunAgent(w) \/ Verify(w) \/ Recover(w) \/ Reverify(w)
           \/ Compose(w)
    PROVE  LocalTypes(w)
  <1>1. {"fast", "deliver", "agent", "decide", "recover", "reverify", "compose"} \subseteq Phases
    BY DEF Phases, Working
  <1>2. /\ {"fast_path", "answer_complete", "citation_verification_failed"} \subseteq Reasons
        /\ {"error", "chitchat"} \subseteq Sources /\ "chitchat" \in Kinds
    BY DEF Reasons, Sources, Kinds
  <1>3. ASSUME NEW x \in AnswerResults, Hold(w, x), NEW next \in Phases, GoTo(w, next),
               UNCHANGED <<route, shown, finalized, farewell>>
        PROVE  LocalTypes(w)
    BY <1>3, HoldEffect, AnswerLocals
  <1>4. ASSUME Fallback(w), NEW next \in Phases, GoTo(w, next),
               UNCHANGED <<route, shown, finalized, farewell>>
        PROVE  LocalTypes(w)
    BY <1>2, <1>3, <1>4, CannedTyped DEF Fallback
  <1>5. ASSUME NEW text \in Kinds, Release(w, text), NEW next \in Phases, GoTo(w, next),
               UNCHANGED <<route, shown, finalized, farewell>>
        PROVE  LocalTypes(w)
    BY <1>5, ReleaseEffect, AnswerLocals
  <1>6. ASSUME UNCHANGED answer, NEW next \in Phases, GoTo(w, next),
               UNCHANGED <<route, shown, finalized, farewell>>
        PROVE  LocalTypes(w)
    BY <1>6, GoToLocals DEF local
  <1>7. /\ Held(w).text \in Kinds /\ Held(w).evidence \in BOOLEAN
        /\ route[w].legal \in BOOLEAN
    BY DEF AgentTypes, AgentAnswers, AnswerResults, Held, Routes
  <1>8. ASSUME NEW legal \in BOOLEAN, NEW v \in Checked(w, legal), v.passed
        PROVE  v.text \in Kinds
    <2>1. ~Verdict(FALSE, "readiness", "canned").passed
      BY DEF Verdict
    <2>2. v \in VerdictsOn(Held(w).text, Held(w).evidence, legal)
      BY <1>8, <2>1 DEF Checked, Gated
    <2>. QED  BY <1>7, <2>2, VerdictsTyped
  <1>9. CASE TakeRoute(w)
    <2>1. CASE /\ Hold(w, Canned("fast_path", "error"))
               /\ GoTo(w, "fast") /\ UNCHANGED <<route, shown, finalized, farewell>>
      BY <1>1, <1>2, <1>3, <2>1, CannedTyped
    <2>2. CASE /\ Hold(w, Result("answer_complete", "chitchat", "chitchat", FALSE))
               /\ GoTo(w, "deliver") /\ UNCHANGED <<route, shown, finalized, farewell>>
      <3>1. Result("answer_complete", "chitchat", "chitchat", FALSE) \in AnswerResults
        BY <1>2, ResultTyped
      <3>. QED  BY <1>1, <1>3, <2>2, <3>1
    <2>3. ASSUME NEW legal \in BOOLEAN, NEW chain \in BOOLEAN,
                 route' = [route EXCEPT ![w] = [legal |-> legal, chain |-> chain]],
                 GoTo(w, "agent"), UNCHANGED <<answer, shown, finalized, farewell>>
          PROVE  LocalTypes(w)
      BY <1>1, <2>3, GoToType DEF AgentTypes, LocalTypes, Routes
    <2>. QED  BY <1>9, <2>1, <2>2, <2>3 DEF TakeRoute
  <1>10. CASE RunAgent(w)
    <2>1. PICK x \in LoopResults \cup StandardResults : Hold(w, x)
      BY <1>10 DEF RunAgent, PassResults
    <2>. QED  BY <1>1, <1>3, <1>10, <2>1, ResultsJudged DEF RunAgent, Judged
  <1>11. CASE Verify(w)
    BY <1>1, <1>4, <1>5, <1>7, <1>8, <1>11 DEF Verify
  <1>12. CASE Recover(w)
    BY <1>1, <1>3, <1>6, <1>12, ResultsJudged DEF Recover, Judged, PassResults
  <1>13. CASE Reverify(w)
    BY <1>1, <1>4, <1>5, <1>6, <1>7, <1>8, <1>13 DEF Reverify
  <1>14. CASE Compose(w)
    <2>1. {"composed", "placeholders"} \subseteq Kinds /\ TRUE \in BOOLEAN
      BY DEF Kinds, Drafts
    <2>2. ASSUME NEW x \in {"composed", "placeholders"}, NEW v \in VerdictsOn(x, TRUE, TRUE)
          PROVE  v.text \in Kinds
      BY <2>1, <2>2, VerdictsTyped
    <2>. QED  BY <1>1, <1>4, <1>5, <1>14, <2>2 DEF Compose
  <1>. QED  BY <1>9, <1>10, <1>11, <1>12, <1>13, <1>14

LEMMA OtherStepLocals ==
    ASSUME AgentTypes, NEW w \in Workers, LoadHistory(w) \/ WorkerStep(w) \/ FaultStep(w),
           ~(\/ TakeRoute(w) \/ RunAgent(w) \/ Verify(w) \/ Recover(w) \/ Reverify(w)
             \/ Compose(w))
    PROVE  LocalTypes(w)
  <1>. USE DEF Phases, Replied, Working, Closing
  <1>1. {"none", "response_stopped", "response_complete", "storage_unavailable",
         "pipeline_error"} \subseteq Events /\ farewell[w] \in Events
    BY DEF Events, AgentTypes
  <1>2. CASE LoadHistory(w) \/ Begin(w)
    BY <1>2, GoToLocals DEF LoadHistory, Begin
  <1>3. CASE FirstCheck(w) \/ FinishFastPath(w) \/ Decide(w) \/ Delivered(w) \/ Persist(w)
    BY <1>3, FinishLocals, ProceedingLocals
       DEF FirstCheck, FinishFastPath, Decide, Delivered, Persist
  <1>4. CASE Unsaved(w) \/ Failed(w) \/ GivenUp(w) \/ Interrupted(w) \/ Left(w)
    BY <1>1, <1>4, FinishLocals, FarewellLocals, ProceedingLocals
       DEF Unsaved, Failed, GivenUp, Interrupted, Left
  <1>5. CASE SaveCase(w)
    BY <1>5, GoToLocals DEF SaveCase
  <1>6. CASE ShowChunk(w)
    <2>1. shown[w] + 1 \in 0 .. Chunks
      BY <1>6, ChunksAssumption DEF ShowChunk, Size, AgentTypes
    <2>. QED  BY <1>6, <2>1 DEF ShowChunk, AgentTypes, LocalTypes
  <1>7. CASE Begun(w) \/ AfterFastPath(w) \/ AfterStopping(w) \/ AfterLateStopping(w)
    BY <1>1, <1>7, FarewellLocals, ProceedingLocals
       DEF Begun, AfterFastPath, AfterStopping, AfterLateStopping
  <1>8. CASE AfterCompleting(w)
    <2>1. PICK r : IF Settles(r)
                     THEN Finalize(w, IF AfterReply(r) = "ended" THEN "response_stopped"
                                                                 ELSE "none", AfterReply(r))
                     ELSE Proceeding(w, "unsaved")
      BY <1>8 DEF AfterCompleting
    <2>2. AfterReply(r) \in {"ended", "record", "unsaved"}
      BY DEF AfterReply
    <2>. QED  BY <1>1, <2>1, <2>2, FarewellLocals, ProceedingLocals
  <1>9. CASE AfterMarking(w) \/ AfterFailing(w) \/ AfterGivingUp(w) \/ AfterInterrupting(w)
             \/ AfterLeaving(w)
    BY <1>1, <1>9, FarewellLocals, ProceedingLocals
       DEF AfterMarking, AfterFailing, AfterGivingUp, AfterInterrupting, AfterLeaving
  <1>10. CASE RecordRun(w)
    BY <1>1, <1>10, GoToType DEF RecordRun, AgentTypes, LocalTypes
  <1>11. CASE FirstCheckFails(w) \/ FastPathFails(w) \/ PassFails(w) \/ PersistenceFails(w)
    BY <1>1, <1>11, FarewellLocals, ProceedingLocals
       DEF FirstCheckFails, FastPathFails, PassFails, PersistenceFails
  <1>12. CASE StopIterating(w) \/ Crash(w)
    BY <1>12, GoToLocals, ProceedingLocals DEF StopIterating, Crash
  <1>13. CASE Disconnect(w)
    <2>1. AfterCancellation(phase[w]) \in Phases
      BY DEF AfterCancellation
    <2>. QED  BY <1>13, <2>1, GoToLocals DEF Disconnect
  <1>. QED  BY <1>2, <1>3, <1>4, <1>5, <1>6, <1>7, <1>8, <1>9, <1>10, <1>11, <1>12, <1>13
            DEF WorkerStep, FaultStep

LEMMA WorkerLocals ==
    ASSUME AgentTypes, NEW w \in Workers, LoadHistory(w) \/ WorkerStep(w) \/ FaultStep(w)
    PROVE  LocalTypes(w)
  BY AnswerStepLocals, OtherStepLocals

LEMMA WorkerFaults ==
    ASSUME AgentTypes, NEW w \in Workers, LoadHistory(w) \/ WorkerStep(w) \/ FaultStep(w)
    PROVE  faults' \in 0 .. MaxFaults
  <1>1. faults \in 0 .. MaxFaults
    BY DEF AgentTypes
  <1>2. CASE FaultStep(w)
    BY <1>1, <1>2, FaultType
       DEF FaultStep, FirstCheckFails, FastPathFails, PassFails, PersistenceFails, Disconnect,
           StopIterating, Crash
  <1>3. CASE Begun(w) \/ AfterFastPath(w) \/ AfterStopping(w) \/ AfterLateStopping(w)
             \/ AfterCompleting(w) \/ AfterMarking(w) \/ AfterFailing(w) \/ AfterGivingUp(w)
             \/ AfterInterrupting(w) \/ AfterLeaving(w)
    <2>1. \E p, r : Reply(w, p, r)
      BY <1>3 DEF Begun, AfterFastPath, AfterStopping, AfterLateStopping, AfterCompleting,
                  AfterMarking, AfterFailing, AfterGivingUp, AfterInterrupting, AfterLeaving
    <2>. QED  BY <2>1, ReplyType
  <1>4. CASE \/ LoadHistory(w) \/ Begin(w) \/ FirstCheck(w) \/ TakeRoute(w) \/ FinishFastPath(w)
             \/ RunAgent(w) \/ Decide(w) \/ Verify(w) \/ Recover(w) \/ Reverify(w)
             \/ Compose(w) \/ ShowChunk(w) \/ Delivered(w) \/ Persist(w) \/ SaveCase(w)
             \/ RecordRun(w) \/ Unsaved(w) \/ Failed(w) \/ GivenUp(w) \/ Interrupted(w)
             \/ Left(w)
    <2>1. UNCHANGED faults
      BY <1>4 DEF LoadHistory, Begin, FirstCheck, TakeRoute, FinishFastPath, RunAgent, Decide,
                  Verify, Recover, Reverify, Compose, ShowChunk, Delivered, Persist, SaveCase,
                  RecordRun, Unsaved, Failed, GivenUp, Interrupted, Left
    <2>. QED  BY <1>1, <2>1
  <1>. QED  BY <1>2, <1>3, <1>4 DEF WorkerStep

LEMMA AgentTypesStep == AgentTypes /\ [AgentNext]_allVars => AgentTypes'
  <1>. SUFFICES ASSUME AgentTypes, [AgentNext]_allVars PROVE AgentTypes'
    OBVIOUS
  <1>1. ASSUME NEW w \in Workers, LoadHistory(w) \/ WorkerStep(w) \/ FaultStep(w)
        PROVE  AgentTypes'
    BY <1>1, WorkerLocals, WorkerFaults DEF AgentTypes, LocalTypes
  <1>2. ASSUME NEW s \in Sessions, DatabaseStep(s) \/ DatabaseFails(s) \/ PressStop(s)
        PROVE  AgentTypes'
    BY <1>2, FaultType DEF DatabaseStep, DatabaseFails, PressStop, streams, local, AgentTypes
  <1>3. ASSUME NEW c \in Scopes, DeleteSession(c)
        PROVE  AgentTypes'
    BY <1>3 DEF DeleteSession, streams, local, AgentTypes
  <1>4. CASE UNCHANGED allVars
    BY <1>4 DEF allVars, streams, local, AgentTypes
  <1>. QED  BY <1>1, <1>2, <1>3, <1>4 DEF AgentNext

LEMMA AgentTypesInit == AgentInit => AgentTypes
  <1>. SUFFICES ASSUME AgentInit PROVE AgentTypes
    OBVIOUS
  <1>1. NoAnswer \in AgentAnswers
    <2>1. Result("none", "none", "none", FALSE) \in AnswerResults
      <3>1. "none" \in Reasons /\ "none" \in Sources /\ "none" \in Kinds /\ FALSE \in BOOLEAN
        BY DEF Reasons, Sources, Kinds
      <3>. QED  BY <3>1, ResultTyped
    <2>. QED  BY <2>1 DEF NoAnswer, AgentAnswers
  <1>2. [legal |-> FALSE, chain |-> FALSE] \in Routes
    BY DEF Routes
  <1>3. "waiting" \in Phases /\ "none" \in Events /\ 0 \in 0 .. Chunks /\ 0 \in 0 .. MaxFaults
    BY ChunksAssumption, FaultsAssumption DEF Phases, Events
  <1>. QED  BY <1>1, <1>2, <1>3 DEF AgentInit, AgentTypes

(* Every variable of the stream has its type. *)
THEOREM AgentTypeCorrect == AgentSpec => []AgentTypes
  <1>. QED  BY AgentTypesInit, AgentTypesStep, PTL DEF AgentSpec

(***************************************************************************)
(* What is shown                                                           *)
(***************************************************************************)
(* DraftsPassTheGuardrail speaks of the answer in hand while chunks are    *)
(* out, but the answer changes on the way: the loop's result may be        *)
(* replaced by a canned text, by that of a recovery pass, by a composition *)
(* or by a correction.  The invariant follows it through these phases:     *)
(* nothing is shown before "deliver", and what gets there is not a draft,  *)
(* or is one that was released, or that an emptied text left in place; a   *)
(* recovery pass holds a draft, and composes only over one that the        *)
(* guardrail has read.                                                     *)
Unshown == {"waiting", "loaded", "begin", "check", "route", "agent", "decide", "verify",
            "recover", "reverify", "compose"}

Recovering == {"recover", "reverify", "compose"}

Releasable(w) ==
    Held(w).text \in Drafts =>
        \/ answer[w].verified
        \/ answer[w].emptied /\ Held(w).text = "placeholders"
        \/ /\ answer[w].emptied /\ Held(w).text = "draft"
           /\ route[w].legal /\ ~route[w].chain

HoldsChecked(w) ==
    /\ phase[w] \in Unshown => shown[w] = 0
    /\ phase[w] = "deliver" \/ shown[w] > 0 => Releasable(w)
    /\ phase[w] = "decide" => Judged(Held(w))
    /\ phase[w] \in {"verify", "reverify"} => Held(w).text # "none"
    /\ phase[w] = "recover" => Held(w).text = "canned"
    /\ phase[w] = "reverify" => Held(w).text \in {"draft", "placeholders", "empty"}
    /\ phase[w] = "compose" => Held(w).text = "draft"
    /\ phase[w] \in Recovering => route[w].legal /\ ~route[w].chain
    /\ phase[w] \in {"deliver", "persist", "save"} => Held(w).text \notin {"empty", "none"}

DraftInv == \A w \in Workers : HoldsChecked(w)

(* A step that leaves the answer and the chunks alone. *)
LEMMA GoesOnChecked ==
    ASSUME AgentTypes, NEW w \in Workers, HoldsChecked(w), NEW next \in Phases, GoTo(w, next),
           UNCHANGED <<route, answer, shown>>,
           next \in Unshown => phase[w] \in Unshown,
           next \notin {"decide", "verify", "deliver"} \cup Recovering,
           next \in {"persist", "save"} => phase[w] \in {"deliver", "persist"}
    PROVE  HoldsChecked(w)'
  <1>1. phase'[w] = next
    BY GoToType
  <1>2. Held(w)' = Held(w) /\ (Releasable(w)' <=> Releasable(w))
    BY DEF Releasable, Held
  <1>3. next \notin {"decide", "verify", "deliver", "recover", "reverify", "compose"}
    BY DEF Recovering
  <1>. QED  BY <1>1, <1>2, <1>3 DEF HoldsChecked, Recovering

(* A result in hand that may be delivered. *)
LEMMA DeliversChecked ==
    ASSUME AgentTypes, NEW w \in Workers, HoldsChecked(w), phase[w] \in Unshown,
           GoTo(w, "deliver"), UNCHANGED shown,
           Held(w)'.text \notin {"empty", "none"},
           Releasable(w)'
    PROVE  HoldsChecked(w)'
  <1>1. phase'[w] = "deliver"
    BY GoToType DEF Phases, Working
  <1>. QED  BY <1>1 DEF HoldsChecked, Held, Unshown, Recovering

LEMMA FallbackChecked ==
    ASSUME AgentTypes, NEW w \in Workers, HoldsChecked(w), phase[w] \in Unshown, Fallback(w),
           \/ GoTo(w, "deliver")
           \/ GoTo(w, "recover") /\ route[w].legal /\ ~route[w].chain,
           UNCHANGED <<route, shown>>
    PROVE  HoldsChecked(w)'
  <1>1. Held(w)'.text = "canned"
    <2>1. "citation_verification_failed" \in Reasons /\ "error" \in Sources
      BY DEF Reasons, Sources
    <2>. QED  BY <2>1, HoldEffect, CannedTyped DEF Fallback
  <1>2. CASE GoTo(w, "deliver")
    BY <1>1, <1>2, DeliversChecked DEF Drafts, Releasable, Held
  <1>3. CASE GoTo(w, "recover") /\ route[w].legal /\ ~route[w].chain
    <2>1. phase'[w] = "recover"
      BY <1>3, GoToType DEF Phases, Working
    <2>. QED  BY <1>1, <1>3, <2>1 DEF HoldsChecked, Releasable, Held, Unshown, Recovering
  <1>. QED  BY <1>2, <1>3

LEMMA ReleaseChecked ==
    ASSUME AgentTypes, NEW w \in Workers, HoldsChecked(w), phase[w] \in Unshown,
           NEW text \in Kinds, Release(w, text), text # "none",
           text = "empty" => \/ Held(w).text = "placeholders"
                             \/ Held(w).text = "draft" /\ route[w].legal /\ ~route[w].chain,
           GoTo(w, "deliver"), UNCHANGED <<route, shown>>
    PROVE  HoldsChecked(w)'
  <1>1. Releasable(w)' /\ Held(w)'.text \notin {"empty", "none"}
    BY ReleaseEffect DEF Releasable, Held
  <1>. QED  BY <1>1, DeliversChecked

(* A verdict that passes a text does so of a text that is there. *)
LEMMA PassedVerdict ==
    ASSUME AgentTypes, NEW w \in Workers, NEW legal \in BOOLEAN, NEW v \in Checked(w, legal),
           v.passed, Held(w).text # "none"
    PROVE  /\ v.text \in Kinds /\ v.text # "none"
           /\ v.text = "empty" => Held(w).text = "placeholders"
  <1>1. Held(w).text \in Kinds /\ Held(w).evidence \in BOOLEAN
    BY DEF AgentTypes, AgentAnswers, AnswerResults, Held
  <1>2. ~Verdict(FALSE, "readiness", "canned").passed
    BY DEF Verdict
  <1>3. v \in VerdictsOn(Held(w).text, Held(w).evidence, legal)
    BY <1>2 DEF Checked, Gated
  <1>. QED  BY <1>1, <1>3, VerdictsTyped

LEMMA AnswerStepChecked ==
    ASSUME AgentTypes, NEW w \in Workers, HoldsChecked(w),
           \/ TakeRoute(w) \/ RunAgent(w) \/ Verify(w) \/ Recover(w) \/ Reverify(w)
           \/ Compose(w)
    PROVE  HoldsChecked(w)'
  <1>1. /\ {"fast", "deliver", "agent", "decide", "recover", "reverify", "compose"} \subseteq Phases
        /\ phase[w] \in Unshown /\ shown[w] = 0 /\ shown' = shown
    BY DEF Phases, Working, Unshown, HoldsChecked, TakeRoute, RunAgent, Verify, Recover,
           Reverify, Compose
  <1>2. ASSUME NEW x \in AnswerResults, Hold(w, x), GoTo(w, "decide") \/ GoTo(w, "reverify"),
               Judged(x), route' = route,
               GoTo(w, "reverify") => /\ x.text \in {"draft", "placeholders", "empty"}
                                      /\ route[w].legal /\ ~route[w].chain
        PROVE  HoldsChecked(w)'
    <2>1. Held(w)' = x
      BY <1>2, HoldEffect
    <2>2. \/ phase'[w] = "decide"
          \/ /\ phase'[w] = "reverify" /\ x.text \in {"draft", "placeholders", "empty"}
             /\ route[w].legal /\ ~route[w].chain
      BY <1>1, <1>2, GoToType
    <2>. QED  BY <1>1, <1>2, <2>1, <2>2 DEF HoldsChecked, Unshown, Recovering
  <1>3. ASSUME NEW next \in {"fast", "agent"}, GoTo(w, next)
        PROVE  HoldsChecked(w)'
    <2>1. phase'[w] = next
      BY <1>1, <1>3, GoToType
    <2>. QED  BY <1>1, <2>1 DEF HoldsChecked, Unshown, Recovering
  <1>4. CASE TakeRoute(w)
    <2>1. CASE /\ Hold(w, Result("answer_complete", "chitchat", "chitchat", FALSE))
               /\ GoTo(w, "deliver") /\ UNCHANGED route
      <3>1. /\ Result("answer_complete", "chitchat", "chitchat", FALSE) \in AnswerResults
            /\ Result("answer_complete", "chitchat", "chitchat", FALSE).text = "chitchat"
        <4>1. /\ "answer_complete" \in Reasons /\ "chitchat" \in Sources
              /\ "chitchat" \in Kinds /\ FALSE \in BOOLEAN
          BY DEF Reasons, Sources, Kinds
        <4>. QED  BY <4>1, ResultTyped
      <3>2. Held(w)'.text = "chitchat"
        BY <2>1, <3>1, HoldEffect
      <3>. QED  BY <1>1, <2>1, <3>2, DeliversChecked DEF Drafts, Releasable, Held
    <2>. QED  BY <1>3, <1>4, <2>1 DEF TakeRoute
  <1>5. CASE RunAgent(w)
    <2>1. PICK x \in LoopResults \cup StandardResults : Hold(w, x)
      BY <1>5 DEF RunAgent, PassResults
    <2>2. GoTo(w, "decide") /\ phase' = [phase EXCEPT ![w] = "decide"]
      BY <1>5 DEF RunAgent, GoTo
    <2>3. ~GoTo(w, "reverify")
      BY <2>2 DEF GoTo, AgentTypes
    <2>. QED  BY <1>2, <1>5, <2>1, <2>2, <2>3, ResultsJudged DEF Judged, RunAgent
  <1>6. CASE Verify(w)
    <2>1. Held(w).text # "none" /\ route[w].legal \in BOOLEAN
      BY <1>6 DEF Verify, HoldsChecked, AgentTypes, Routes
    <2>2. PICK v \in Checked(w, route[w].legal) :
             \/ v.passed /\ Release(w, v.text) /\ GoTo(w, "deliver")
             \/ /\ Fallback(w)
                /\ \/ GoTo(w, "deliver")
                   \/ GoTo(w, "recover") /\ route[w].legal /\ ~route[w].chain
      BY <1>6 DEF Verify
    <2>3. CASE v.passed /\ Release(w, v.text) /\ GoTo(w, "deliver")
      BY <1>1, <1>6, <2>1, <2>3, PassedVerdict, ReleaseChecked DEF Verify
    <2>. QED  BY <1>1, <1>6, <2>2, <2>3, FallbackChecked DEF Verify
  <1>7. CASE Recover(w)
    <2>1. PICK x \in LoopResults :
             IF x.reason \in {"answer_complete", "cache_hit"}
               THEN Hold(w, x) /\ GoTo(w, "reverify")
               ELSE GoTo(w, "deliver") /\ UNCHANGED answer
      BY <1>7 DEF Recover, PassResults
    <2>2. CASE x.reason \in {"answer_complete", "cache_hit"}
      <3>1. route[w].legal /\ ~route[w].chain /\ route' = route
        BY <1>7 DEF Recover, HoldsChecked, Recovering
      <3>. QED  BY <1>2, <2>1, <2>2, <3>1, ResultsJudged DEF Judged
    <2>3. CASE x.reason \notin {"answer_complete", "cache_hit"}
      <3>1. Held(w)' = Held(w) /\ Held(w).text = "canned"
        BY <1>7, <2>1, <2>3 DEF Held, Recover, HoldsChecked
      <3>. QED  BY <1>1, <1>7, <2>1, <2>3, <3>1, DeliversChecked
                DEF Drafts, Releasable, Held, Recover
    <2>. QED  BY <2>2, <2>3
  <1>8. CASE Reverify(w)
    <2>1. /\ Held(w).text \in {"draft", "placeholders", "empty"} /\ Held(w).evidence \in BOOLEAN
          /\ route[w].legal /\ ~route[w].chain
          /\ TRUE \in BOOLEAN /\ UNCHANGED <<route, shown>>
      BY <1>8 DEF Reverify, HoldsChecked, Recovering, Held, AgentTypes, AgentAnswers,
                  AnswerResults
    <2>2. PICK v \in Checked(w, TRUE) :
             \/ v.passed /\ Release(w, v.text) /\ GoTo(w, "deliver")
             \/ /\ v.reason = "unsupported_claim"
                /\ GoTo(w, "compose") /\ UNCHANGED answer
             \/ Fallback(w) /\ GoTo(w, "deliver")
      BY <1>8 DEF Reverify
    <2>3. CASE v.passed /\ Release(w, v.text) /\ GoTo(w, "deliver")
      BY <1>1, <2>1, <2>3, PassedVerdict, ReleaseChecked
    <2>4. CASE v.reason = "unsupported_claim" /\ GoTo(w, "compose") /\ UNCHANGED answer
      <3>1. v \in VerdictsOn(Held(w).text, Held(w).evidence, TRUE)
        <4>1. v # Verdict(FALSE, "readiness", "canned")
          BY <2>4 DEF Verdict
        <4>. QED  BY <4>1 DEF Checked, Gated
      <3>2. Held(w).text \in Kinds
        BY DEF Held, AgentTypes, AgentAnswers, AnswerResults
      <3>3. Held(w).text = "draft"
        <4>. PICK text : text = Held(w).text
          OBVIOUS
        <4>. PICK evidence : evidence = Held(w).evidence
          OBVIOUS
        <4>1. text \notin {"empty", "placeholders"}
          BY <2>1, <2>4, <3>1, <3>2, VerdictsTyped
        <4>. QED  BY <2>1, <4>1
      <3>4. phase'[w] = "compose" /\ Held(w)' = Held(w)
        BY <1>1, <2>4, GoToType DEF Held
      <3>. QED  BY <1>1, <2>1, <3>3, <3>4 DEF HoldsChecked, Unshown, Recovering
    <2>. QED  BY <1>1, <2>1, <2>2, <2>3, <2>4, FallbackChecked
  <1>9. CASE Compose(w)
    <2>1. /\ Held(w).text = "draft" /\ route[w].legal /\ ~route[w].chain
          /\ GoTo(w, "deliver") /\ UNCHANGED <<route, shown>>
      BY <1>9 DEF Compose, HoldsChecked, Recovering
    <2>2. CASE Fallback(w)
      BY <1>1, <2>1, <2>2, FallbackChecked
    <2>3. ASSUME NEW x \in {"composed", "placeholders"}, NEW v \in VerdictsOn(x, TRUE, TRUE),
                 v.passed, Release(w, v.text)
          PROVE  HoldsChecked(w)'
      <3>1. x \in Kinds /\ TRUE \in BOOLEAN
        BY DEF Kinds, Drafts
      <3>2. v.text \in Kinds /\ v.text # "none"
        BY <2>3, <3>1, VerdictsTyped
      <3>. QED  BY <1>1, <2>1, <2>3, <3>2, ReleaseChecked
    <2>. QED  BY <1>9, <2>2, <2>3 DEF Compose
  <1>. QED  BY <1>4, <1>5, <1>6, <1>7, <1>8, <1>9

LEMMA OtherStepChecked ==
    ASSUME AgentTypes, NEW w \in Workers, HoldsChecked(w),
           LoadHistory(w) \/ WorkerStep(w) \/ FaultStep(w),
           ~(\/ TakeRoute(w) \/ RunAgent(w) \/ Verify(w) \/ Recover(w) \/ Reverify(w)
             \/ Compose(w))
    PROVE  HoldsChecked(w)'
  <1>. USE DEF Phases, Replied, Working, Closing, Unshown, Recovering
  <1>1. ASSUME NEW next \in Phases, Proceeding(w, next) \/ (\E size, st : Finish(w, size, st, next)),
               next \in Unshown => phase[w] \in Unshown,
               next \notin {"decide", "verify", "deliver"} \cup Recovering,
               next \in {"persist", "save"} => phase[w] \in {"deliver", "persist"}
        PROVE  HoldsChecked(w)'
    BY <1>1, GoesOnChecked DEF Proceeding, Finish, local
  <1>2. ASSUME NEW next \in {"ended", "left", "record", "unsaved"}, NEW event,
               Farewell(w, event, next) \/ Finalize(w, event, next)
        PROVE  HoldsChecked(w)'
    BY <1>2, GoesOnChecked DEF Farewell, Finalize
  <1>3. CASE LoadHistory(w) \/ Begin(w)
    BY <1>3, GoesOnChecked DEF LoadHistory, Begin, local
  <1>4. CASE FirstCheck(w) \/ FinishFastPath(w) \/ Delivered(w) \/ Persist(w)
    BY <1>1, <1>4 DEF FirstCheck, FinishFastPath, Delivered, Persist
  <1>5. CASE Unsaved(w) \/ Failed(w) \/ GivenUp(w) \/ Interrupted(w) \/ Left(w)
    BY <1>1, <1>2, <1>5 DEF Unsaved, Failed, GivenUp, Interrupted, Left
  <1>6. CASE SaveCase(w)
    BY <1>6, GoesOnChecked DEF SaveCase, local
  <1>7. CASE ShowChunk(w)
    <2>1. /\ phase' = phase /\ phase[w] = "deliver" /\ Held(w)' = Held(w)
          /\ answer' = answer /\ route' = route
      BY <1>7 DEF ShowChunk, Held
    <2>. QED  BY <2>1 DEF HoldsChecked, Releasable
  <1>8. CASE Begun(w)
    BY <1>1, <1>2, <1>8, ReplyType DEF Begun
  <1>9. CASE AfterFastPath(w) \/ AfterStopping(w) \/ AfterLateStopping(w)
    BY <1>1, <1>2, <1>9 DEF AfterFastPath, AfterStopping, AfterLateStopping
  <1>10. CASE AfterCompleting(w)
    <2>1. PICK r : \/ \E event : Finalize(w, event, AfterReply(r))
                   \/ Proceeding(w, "unsaved")
      BY <1>10 DEF AfterCompleting
    <2>2. AfterReply(r) \in {"ended", "record", "unsaved"}
      BY DEF AfterReply
    <2>. QED  BY <1>1, <1>2, <2>1, <2>2
  <1>11. CASE AfterMarking(w) \/ AfterFailing(w) \/ AfterGivingUp(w) \/ AfterInterrupting(w)
              \/ AfterLeaving(w)
    BY <1>1, <1>2, <1>11
       DEF AfterMarking, AfterFailing, AfterGivingUp, AfterInterrupting, AfterLeaving
  <1>12. CASE RecordRun(w)
    BY <1>12, GoesOnChecked DEF RecordRun
  <1>13. CASE FirstCheckFails(w) \/ FastPathFails(w) \/ PassFails(w) \/ PersistenceFails(w)
    BY <1>1, <1>2, <1>13 DEF FirstCheckFails, FastPathFails, PassFails, PersistenceFails
  <1>14. CASE StopIterating(w)
    BY <1>1, <1>14 DEF StopIterating
  <1>15. CASE Crash(w)
    BY <1>15, GoesOnChecked DEF Crash, local
  <1>16. CASE Disconnect(w)
    <2>1. AfterCancellation(phase[w]) \in {"ended", "left", "given_up", "interrupted"}
      BY DEF AfterCancellation
    <2>. QED  BY <1>16, <2>1, GoesOnChecked DEF Disconnect, local
  <1>17. CASE Decide(w)
    <2>1. CASE Finish(w, 0, "stopped", "stopping")
      BY <1>1, <2>1
    <2>2. CASE /\ Held(w).reason # "user_cancelled"
               /\ Proceeding(w, IF NeedsVerification(Held(w), route[w].legal)
                                  THEN "verify" ELSE "deliver")
      <3>1. /\ phase[w] = "decide" /\ UNCHANGED <<route, answer, shown>> /\ shown[w] = 0
            /\ Judged(Held(w)) /\ Held(w)' = Held(w)
        BY <1>17, <2>2 DEF Decide, HoldsChecked, Proceeding, local, Held
      <3>2. CASE NeedsVerification(Held(w), route[w].legal)
        <4>1. phase'[w] = "verify"
          BY <2>2, <3>2, GoToType DEF Proceeding
        <4>. QED  BY <2>2, <3>1, <4>1 DEF HoldsChecked, Judged
      <3>3. CASE ~NeedsVerification(Held(w), route[w].legal)
        <4>1. Held(w).text \in {"question", "canned"}
          BY <2>2, <3>1, <3>3 DEF Judged
        <4>. QED  BY <2>2, <3>1, <3>3, <4>1, DeliversChecked
                  DEF Proceeding, Drafts, Releasable, Held
      <3>. QED  BY <3>2, <3>3
    <2>. QED  BY <1>17, <2>1, <2>2 DEF Decide, Held
  <1>. QED  BY <1>3, <1>4, <1>5, <1>6, <1>7, <1>8, <1>9, <1>10, <1>11, <1>12, <1>13, <1>14,
               <1>15, <1>16, <1>17 DEF WorkerStep, FaultStep

LEMMA WorkerChecked ==
    ASSUME AgentTypes, NEW w \in Workers, HoldsChecked(w),
           LoadHistory(w) \/ WorkerStep(w) \/ FaultStep(w)
    PROVE  HoldsChecked(w)'
  BY AnswerStepChecked, OtherStepChecked

LEMMA DraftStep == AgentTypes /\ DraftInv /\ [AgentNext]_allVars => DraftInv'
  <1>. SUFFICES ASSUME AgentTypes, DraftInv, [AgentNext]_allVars PROVE DraftInv'
    OBVIOUS
  <1>1. ASSUME NEW w \in Workers, HoldsChecked(w), phase'[w] = phase[w],
               route'[w] = route[w], answer'[w] = answer[w], shown'[w] = shown[w]
        PROVE  HoldsChecked(w)'
    BY <1>1 DEF HoldsChecked, Releasable, Held
  <1>2. ASSUME NEW w \in Workers, LoadHistory(w) \/ WorkerStep(w) \/ FaultStep(w)
        PROVE  DraftInv'
    <2>1. HoldsChecked(w)'
      BY <1>2, WorkerChecked DEF DraftInv
    <2>2. ASSUME NEW z \in Workers \ {w}
          PROVE  HoldsChecked(z)'
      BY <1>1, <1>2, WorkerLocals DEF DraftInv, LocalTypes
    <2>. QED  BY <2>1, <2>2 DEF DraftInv
  <1>3. CASE UNCHANGED <<phase, route, answer, shown>>
    BY <1>1, <1>3 DEF DraftInv
  <1>4. ASSUME NEW s \in Sessions, DatabaseStep(s) \/ DatabaseFails(s) \/ PressStop(s)
        PROVE  UNCHANGED <<phase, route, answer, shown>>
    BY <1>4 DEF DatabaseStep, DatabaseFails, PressStop, streams, local
  <1>5. ASSUME NEW c \in Scopes, DeleteSession(c)
        PROVE  UNCHANGED <<phase, route, answer, shown>>
    BY <1>5 DEF DeleteSession, streams, local
  <1>6. CASE UNCHANGED allVars
    BY <1>3, <1>6 DEF allVars, streams, local
  <1>. QED  BY <1>2, <1>3, <1>4, <1>5, <1>6 DEF AgentNext

(* Whatever the loop, the chain, its recovery and the guardrail return,    *)
(* and whenever the stream fails or is left, a draft of the model is shown *)
(* without having been returned by the guardrail only where a text of      *)
(* placeholders passed as nothing: those placeholders, or the draft of the *)
(* recovery pass that a composition of placeholders was to replace         *)
(* (_recover_legal_answer of agent/runtime/react.py).                      *)
THEOREM DraftsAreChecked == AgentSpec => []DraftsPassTheGuardrail
  <1>1. AgentInit => DraftInv
    BY DEF AgentInit, DraftInv, HoldsChecked, Releasable, Held, NoAnswer, Result, Recovering,
           Drafts
  <1>2. DraftInv => DraftsPassTheGuardrail
    BY DEF DraftInv, HoldsChecked, Releasable, DraftsPassTheGuardrail
  <1>. QED  BY <1>1, <1>2, AgentTypesInit, AgentTypesStep, DraftStep, PTL DEF AgentSpec

(***************************************************************************)
(* What is kept                                                            *)
(***************************************************************************)

(* Every request has a turn id of its own, as the clients choose them.     *)
OwnTurns == \A v, w \in Workers : TurnOf[v] = TurnOf[w] => v = w

(* The text of a turn is written only by the request that asked for it.    *)
(* Until its finish_turn the turn is blank, and may have been stopped; a   *)
(* reply "complete" says that the whole answer was written, a reply        *)
(* "stopped" that nothing of it was.  The invariant follows the turn from  *)
(* its insert to the farewell: what each phase knows of the row, and what  *)
(* the call in progress has read of it.                                    *)
Halting    == {"stopping", "fast_stopping", "late_stopping"}
Completing == {"fast_completing", "completing"}
Fresh      == Unshown \cup {"fast", "deliver", "persist", "save"} \cup Halting

Blank(w)   == HasTurn(w) => /\ Stored(w) \in {None, <<w, 0>>}
                            /\ Turn(w).status \in Active \cup {"stopped"}
Whole(w)   == HasTurn(w) => Stored(w) = <<w, Chunks>>
Stopped(w) == HasTurn(w) => Turn(w).status = "stopped"

CallFits(w) ==
    ~Idle(w) =>
        /\ phase[w] \in Replied
        /\ call[w].scope = ScopeOf[w]
        /\ call[w].turn = TurnOf[w]
        /\ call[w].op = IF phase[w] = "begin" THEN "begin" ELSE "finish"
        /\ call[w].op = "finish" =>
              /\ call[w].status = "complete" <=> phase[w] \in Completing
              /\ call[w].content = IF phase[w] \in Completing THEN <<w, Chunks>> ELSE <<w, 0>>

OnlyStops == \A s \in Sessions \ Workers : ~Idle(s) => call[s].op = "cancel"

(* What a worker reads of its turn stands until it commits.                *)
ReadsOwn(w) ==
    stage[w] \in {"assistant", "commit"} =>
        /\ HasTurn(w) => Turn(w).assistant = loaded[w].turn.assistant
        /\ HasTurn(w) /\ stage[w] = "commit" => Stored(w) = loaded[w].message.content
        /\ loaded[w].turn.status = "stopped" => Stopped(w)
        /\ phase[w] \in Halting => loaded[w].turn.status = "stopped"
        /\ phase[w] \in Completing => loaded[w].turn.status \in Active \cup {"stopped"}

Wholesome(w) ==
    HasTurn(w) => /\ Stored(w) \in {None, <<w, 0>>, <<w, Chunks>>}
                  /\ Turn(w).status = "complete" => Stored(w) = <<w, Chunks>>

KeepsWhole(w) ==
    /\ Wholesome(w)
    /\ phase[w] \in Fresh => Blank(w)
    /\ phase[w] \in Completing /\ ~Idle(w) => Blank(w)
    /\ phase[w] \in Completing /\ Idle(w) /\ result[w] = "stopped" => Stopped(w) /\ Blank(w)
    /\ phase[w] \in Completing /\ Idle(w) /\ result[w] = "complete" => Whole(w)
    /\ phase[w] = "record" => Whole(w)
    /\ phase[w] \in Halting => Stopped(w)
    /\ phase[w] \in Halting /\ Idle(w) => result[w] \notin {"complete", "failed"}
    /\ phase[w] = "decide" /\ Held(w).reason = "user_cancelled" => Stopped(w)
    /\ ReadsOwn(w)
    /\ phase[w] # "ended" => farewell[w] \notin {"response_complete", "response_stopped"}
    /\ farewell[w] = "response_complete" => Whole(w)
    /\ farewell[w] = "response_stopped" => Stopped(w) /\ Blank(w)

AnswerInv == OnlyStops /\ \A w \in Workers : CallFits(w) /\ KeepsWhole(w)

(* What the steps of everybody else do to the turn of a worker: they may   *)
(* stop it or remove it.                                                   *)
RowsStill(w) ==
    HasTurn(w)' =>
        /\ HasTurn(w)
        /\ Turn(w)'.status \in {Turn(w).status, "stopped"}
        /\ Turn(w)'.assistant = Turn(w).assistant
        /\ Stored(w)' = Stored(w)

LEMMA UnchangedRowsStill ==
    ASSUME NEW w \in Workers, UNCHANGED <<turns, messages>>
    PROVE  RowsStill(w)
  BY DEF RowsStill, HasTurn, Turn, TurnExists, Stored, Message

LEMMA StillFacts ==
    ASSUME NEW w \in Workers, RowsStill(w)
    PROVE  /\ Blank(w) => Blank(w)'
           /\ Whole(w) => Whole(w)'
           /\ Stopped(w) => Stopped(w)'
           /\ Wholesome(w) => Wholesome(w)'
  BY DEF RowsStill, Blank, Whole, Stopped, Wholesome

LEMMA StoredIsAnswer ==
    ASSUME NEW w \in Workers
    PROVE  /\ Stored(w) = AnswerOf(TurnOf[w]) /\ Turn(w) = turns[TurnOf[w]]
           /\ Stored(w)' = AnswerOf(TurnOf[w])' /\ Turn(w)' = turns'[TurnOf[w]]
  BY DEF Stored, AnswerOf, Turn, Message

(* Another session inserts or commits: the turn is another one, or the     *)
(* session presses Stop.                                                   *)
LEMMA OthersKeepRows ==
    ASSUME OwnTurns, TypeOK, RowsInv, AnswerInv, NEW w \in Workers, NEW s \in Sessions,
           CallStep(s), s # w
    PROVE  RowsStill(w)
  <1>. PICK t \in Turns : t = TurnOf[w]
    BY RequestTypes
  <1>1. CASE InsertMessageTurn(s) \/ InsertReplayTurn(s)
    <2>1. call[s].op = "begin" /\ ~Idle(s)
      BY <1>1 DEF InsertMessageTurn, InsertReplayTurn, TypeOK, SessionOK, StepFits, Idle
    <2>2. call[s].turn # t
      BY <2>1 DEF OwnTurns, AnswerInv, OnlyStops, CallFits
    <2>3. turns'[t] = turns[t]
      BY <1>1, <2>2, InsertEffect
    <2>4. ASSUME TurnExists(t) PROVE AnswerOf(t)' = AnswerOf(t)
      <3>1. PICK b : b = turns[t].assistant
        OBVIOUS
      <3>2. b < nextMessage
        BY <2>4, <3>1, TurnHasAnswer
      <3>3. Message(b)' = Message(b)
        BY <1>1, <3>2, InsertEffect
      <3>. QED  BY <2>3, <3>1, <3>3 DEF AnswerOf, Message
    <2>. QED  BY <2>3, <2>4, StoredIsAnswer DEF RowsStill, HasTurn, TurnExists
  <1>2. CASE UpdateCommit(s) \/ CancelCommit(s) \/ FinishCommit(s)
    <2>1. PICK y, a : y = call[s].turn /\ a = loaded[s].turn.assistant
      OBVIOUS
    <2>2. /\ y \in Turns /\ a \in MessageIds /\ turns[y].assistant = a /\ messages[a].turn = y
          /\ \A z \in Turns \ {y} : turns'[z] = turns[z]
          /\ \A m \in MessageIds \ {a} : messages'[m].content = messages[m].content
          /\ CancelCommit(s) => /\ turns'[y].status = "stopped"
                                /\ messages'[a].content = messages[a].content
      BY <1>2, <2>1, CommitWrites
    <2>3. /\ turns'[t].scope = turns[t].scope
          /\ turns'[t].assistant = turns[t].assistant
          /\ TurnExists(t)' <=> TurnExists(t)
      BY <1>2, CommitKeepsIdentity
    <2>4. ~Idle(s) /\ (s \notin Workers => call[s].op = "cancel")
      BY <1>2 DEF UpdateCommit, CancelCommit, FinishCommit, Idle, AnswerInv, OnlyStops
    <2>5. y = t => CancelCommit(s)
      BY <1>2, <2>1, <2>4 DEF OwnTurns, AnswerInv, CallFits, UpdateCommit, FinishCommit
    <2>6. turns'[t].status \in {turns[t].status, "stopped"}
      BY <2>2, <2>5
    <2>7. ASSUME TurnExists(t) PROVE AnswerOf(t)' = AnswerOf(t)
      <3>1. PICK b \in MessageIds : b = turns[t].assistant /\ messages[b].turn = t
        BY <2>7, TurnHasAnswer
      <3>2. messages'[b].content = messages[b].content
        BY <2>2, <2>5, <3>1
      <3>. QED  BY <2>3, <3>1, <3>2 DEF AnswerOf, Message
    <2>. QED  BY <2>3, <2>6, <2>7, StoredIsAnswer DEF RowsStill, HasTurn
  <1>3. CASE UNCHANGED <<turns, messages>>
    BY <1>3, UnchangedRowsStill
  <1>. QED  BY <1>1, <1>2, <1>3
            DEF CallStep, EnsureConversation, BeginReadTurn, BeginReadTarget, InsertConflict,
                ReadTurn, UpdateReadAssistant, CancelReadAssistant, FinishReadAssistant,
                CommitConflict, rows

LEMMA DeleteKeepsRows ==
    ASSUME TypeOK, RowsInv, NEW w \in Workers, NEW c \in Scopes, DeleteConversation(c)
    PROVE  RowsStill(w)
  <1>. PICK t \in Turns : t = TurnOf[w]
    BY RequestTypes
  <1>1. /\ turns'[t] = IF turns[t].scope = c THEN AbsentTurn ELSE turns[t]
        /\ \A m \in MessageIds :
              messages'[m] = IF messages[m].scope = c THEN AbsentMessage ELSE messages[m]
        /\ AbsentTurn.status = "absent"
    BY DEF DeleteConversation, AbsentTurn
  <1>2. SUFFICES ASSUME TurnExists(t)', turns'[t].scope = ScopeOf[w] PROVE RowsStill(w)
    BY DEF RowsStill, HasTurn, Turn
  <1>3. turns'[t] = turns[t] /\ TurnExists(t) /\ turns[t].scope # c
    BY <1>1, <1>2 DEF TurnExists
  <1>4. PICK b \in MessageIds : b = turns[t].assistant /\ messages[b].scope = turns[t].scope
    BY <1>3, TurnHasAnswer
  <1>5. messages'[b] = messages[b]
    BY <1>1, <1>3, <1>4
  <1>6. AnswerOf(t)' = AnswerOf(t)
    BY <1>3, <1>4, <1>5 DEF AnswerOf, Message
  <1>. QED  BY <1>2, <1>3, <1>6, StoredIsAnswer DEF RowsStill, HasTurn

(* A worker that does not move keeps its promises when its rows stand.     *)
LEMMA StandsWhole ==
    ASSUME NEW w \in Workers, RowsStill(w), CallFits(w), KeepsWhole(w),
           phase'[w] = phase[w], answer'[w] = answer[w], farewell'[w] = farewell[w],
           call'[w] = call[w], stage'[w] = stage[w], loaded'[w] = loaded[w],
           result'[w] = result[w]
    PROVE  (CallFits(w) /\ KeepsWhole(w))'
  <1>1. CallFits(w)'
    BY DEF CallFits, Idle
  <1>2. ReadsOwn(w)'
    BY StillFacts DEF KeepsWhole, ReadsOwn, RowsStill
  <1>3. Idle(w)' = Idle(w) /\ Held(w)' = Held(w)
    BY DEF Idle, Held
  <1>. QED  BY <1>1, <1>2, <1>3, StillFacts DEF KeepsWhole

LEMMA TextsDiffer ==
    ASSUME NEW w \in Workers
    PROVE  <<w, 0>> # <<w, Chunks>> /\ <<w, 0>> # None /\ <<w, Chunks>> # None
  BY RequestTypes, NoneAssumption, ChunksAssumption

(* What a read of the worker finds, and what it returns with.              *)
LEMMA OwnReads ==
    ASSUME TypeOK, RowsInv, NEW w \in Workers, CallFits(w), KeepsWhole(w), UNCHANGED phase,
           \/ EnsureConversation(w) \/ BeginReadTurn(w) \/ BeginReadTarget(w)
           \/ InsertConflict(w) \/ ReadTurn(w) \/ UpdateReadAssistant(w)
           \/ CancelReadAssistant(w) \/ FinishReadAssistant(w) \/ CommitConflict(w)
    PROVE  /\ UNCHANGED <<turns, messages>>
           /\ ReadsOwn(w)'
           /\ Idle(w)' /\ phase[w] \in Halting \cup Completing =>
                 result'[w] \in {"missing", "error"}
  <1>. PICK t \in Turns : t = TurnOf[w]
    BY RequestTypes
  <1>1. w \in Sessions /\ ~Idle(w)
    BY RequestTypes
       DEF Idle, EnsureConversation, BeginReadTurn, BeginReadTarget, InsertConflict, ReadTurn,
           UpdateReadAssistant, CancelReadAssistant, FinishReadAssistant, CommitConflict
  <1>2. /\ call[w].scope = ScopeOf[w] /\ call[w].turn = t
        /\ call[w].op = IF phase[w] = "begin" THEN "begin" ELSE "finish"
    BY <1>1 DEF CallFits
  <1>3. loaded \in [Sessions -> LoadedRows] /\ SessionOK(w)
    BY <1>1 DEF TypeOK
  <1>4. UNCHANGED <<turns, messages>>
    BY DEF EnsureConversation, BeginReadTurn, BeginReadTarget, InsertConflict, ReadTurn,
           UpdateReadAssistant, CancelReadAssistant, FinishReadAssistant, CommitConflict, rows
  <1>5. /\ HasTurn(w)' <=> HasTurn(w)
        /\ Turn(w)' = Turn(w) /\ Turn(w) = turns[t]
        /\ Stored(w)' = Stored(w) /\ Stopped(w)' = Stopped(w)
    BY <1>4 DEF HasTurn, Turn, TurnExists, Stored, Stopped, Message
  <1>6. CASE EnsureConversation(w) \/ BeginReadTarget(w) \/ BeginReadTurn(w)
    <2>1. call[w].op = "begin"
      BY <1>1, <1>3, <1>6
         DEF EnsureConversation, BeginReadTarget, BeginReadTurn, SessionOK, StepFits
    <2>2. phase[w] = "begin"
      BY <1>2, <2>1
    <2>3. stage'[w] \notin {"assistant", "commit"}
      <3>1. \/ \E r : Return(w, r)
            \/ \E next \in {"turn", "insert", "target"} : \E read : Proceed(w, next, read)
        BY <1>6 DEF EnsureConversation, BeginReadTarget, BeginReadTurn
      <3>. QED  BY <1>1, <3>1, ReturnMoves, ProceedMoves
    <2>. QED  BY <1>4, <2>2, <2>3 DEF ReadsOwn, Halting, Completing
  <1>7. CASE InsertConflict(w) \/ CommitConflict(w)
    BY <1>1, <1>4, <1>7, ReturnMoves DEF InsertConflict, CommitConflict, ReadsOwn
  <1>8. CASE ReadTurn(w)
    <2>1. CASE HasTurn(w)
      <3>1. /\ stage'[w] = "assistant" /\ loaded'[w] = [loaded[w] EXCEPT !.turn = turns[t]]
        BY <1>1, <1>2, <1>5, <1>8, <2>1, ProceedMoves DEF ReadTurn, HasTurn, OpenTo
      <3>2. loaded'[w].turn = Turn(w)
        BY <1>1, <1>3, <1>5, <3>1 DEF LoadedRows
      <3>3. /\ phase[w] \in Halting => Turn(w).status = "stopped"
            /\ phase[w] \in Completing => Turn(w).status \in Active \cup {"stopped"}
        BY <1>1, <2>1 DEF KeepsWhole, Stopped, Blank
      <3>. QED  BY <1>4, <1>5, <3>1, <3>2, <3>3 DEF ReadsOwn, Idle, Stopped
    <2>2. CASE ~HasTurn(w)
      <3>1. stage'[w] = "idle" /\ result'[w] = "missing"
        BY <1>1, <1>2, <1>5, <1>8, <2>2, ReturnMoves DEF ReadTurn, HasTurn
      <3>. QED  BY <1>4, <3>1 DEF ReadsOwn
    <2>. QED  BY <2>1, <2>2
  <1>9. CASE UpdateReadAssistant(w) \/ CancelReadAssistant(w) \/ FinishReadAssistant(w)
    <2>1. FinishReadAssistant(w) /\ ReadsOwn(w) /\ stage[w] = "assistant"
      BY <1>2, <1>9
         DEF UpdateReadAssistant, CancelReadAssistant, FinishReadAssistant, KeepsWhole
    <2>2. PICK row : row = Message(loaded[w].turn.assistant)
      OBVIOUS
    <2>3. HasTurn(w) => row.content = Stored(w)
      BY <2>1, <2>2 DEF ReadsOwn, Stored
    <2>4. CASE Proceed(w, "commit", [loaded[w] EXCEPT !.message = row])
      <3>1. /\ stage'[w] = "commit" /\ loaded'[w] = [loaded[w] EXCEPT !.message = row]
        BY <1>1, <2>4, ProceedMoves
      <3>2. loaded'[w].turn = loaded[w].turn /\ loaded'[w].message = row
        BY <1>1, <1>3, <3>1 DEF LoadedRows
      <3>. QED  BY <1>4, <1>5, <2>1, <2>3, <3>1, <3>2 DEF ReadsOwn, Idle
    <2>5. ASSUME NEW r, Return(w, r), r \in {"missing", loaded[w].turn.status},
                 r # "missing" => r \in {"complete", "failed"}
          PROVE  ReadsOwn(w)' /\ (phase[w] \in Halting \cup Completing => result'[w] = "missing")
      <3>1. stage'[w] = "idle" /\ result'[w] = r
        BY <1>1, <2>5, ReturnMoves
      <3>. QED  BY <2>1, <2>5, <3>1 DEF ReadsOwn, Active
    <2>. QED  BY <1>4, <2>1, <2>2, <2>4, <2>5 DEF FinishReadAssistant
  <1>. QED  BY <1>6, <1>7, <1>8, <1>9

(* The worker's insert makes a blank turn.                                 *)
LEMMA OwnInsert ==
    ASSUME TypeOK, RowsInv, NEW w \in Workers, CallFits(w), ~Idle(w),
           InsertMessageTurn(w) \/ InsertReplayTurn(w)
    PROVE  phase[w] = "begin" /\ Blank(w)' /\ stage'[w] = "idle"
  <1>. PICK t \in Turns : t = TurnOf[w]
    BY RequestTypes
  <1>1. w \in Sessions /\ call[w].turn = t
    BY RequestTypes DEF CallFits
  <1>. PICK b : b = turns'[t].assistant
    OBVIOUS
  <1>2. /\ turns'[t].status = "pending" /\ stage'[w] = "idle"
        /\ b \in MessageIds /\ messages'[b].content = None
    BY <1>1, InsertEffect
  <1>3. call[w].op = "begin"
    BY <1>1 DEF InsertMessageTurn, InsertReplayTurn, TypeOK, SessionOK, StepFits
  <1>4. phase[w] = "begin"
    BY <1>3 DEF CallFits
  <1>5. AnswerOf(t)' = None
    BY <1>2 DEF AnswerOf, Message
  <1>. QED  BY <1>2, <1>4, <1>5, StoredIsAnswer DEF Blank, Active

(* finish_turn writes the whole answer of a completion that it found       *)
(* unstopped, and nothing otherwise.                                       *)
LEMMA OwnCommit ==
    ASSUME TypeOK, RowsInv, NEW w \in Workers, CallFits(w), KeepsWhole(w), ~Idle(w),
           UpdateCommit(w) \/ CancelCommit(w) \/ FinishCommit(w)
    PROVE  /\ stage'[w] = "idle" /\ phase[w] # "begin" /\ Wholesome(w)'
           /\ phase[w] \in Halting => Blank(w)' /\ Stopped(w)' /\ result'[w] = "stopped"
           /\ phase[w] \in Completing =>
                 \/ result'[w] = "stopped" /\ Stopped(w)' /\ Blank(w)'
                 \/ result'[w] = "complete" /\ Whole(w)'
  <1>. PICK t \in Turns : t = TurnOf[w]
    BY RequestTypes
  <1>1. PICK a : a = loaded[w].turn.assistant
    OBVIOUS
  <1>2. /\ w \in Sessions /\ t = call[w].turn
        /\ call[w].scope = ScopeOf[w]
        /\ call[w].op = IF phase[w] = "begin" THEN "begin" ELSE "finish"
    BY RequestTypes DEF CallFits
  <1>3. FinishCommit(w) /\ call[w].op = "finish" /\ phase[w] # "begin" /\ stage[w] = "commit"
    BY <1>2 DEF UpdateCommit, CancelCommit, FinishCommit
  <1>4. /\ call[w].status = "complete" <=> phase[w] \in Completing
        /\ call[w].content = IF phase[w] \in Completing THEN <<w, Chunks>> ELSE <<w, 0>>
    BY <1>3 DEF CallFits
  <1>5. /\ loaded[w].turn.status \in Active \cup {"stopped"} /\ call[w].status \in Settled
    <2>1. SessionOK(w)
      BY <1>2 DEF TypeOK
    <2>. QED  BY <1>3, <2>1 DEF SessionOK, StepFits
  <1>6. /\ a \in MessageIds /\ turns[t].assistant = a /\ TurnExists(t)
        /\ turns[t].scope = ScopeOf[w]
        /\ turns'[t].status =
              Written(loaded[w].turn.status, FinalStatus(w), turns[t].status)
        /\ messages'[a].content =
              Written(loaded[w].message.content, FinalContent(w), messages[a].content)
    BY <1>1, <1>2, <1>3, CommitWrites
  <1>7. HasTurn(w) /\ Stored(w) = messages[a].content /\ Turn(w) = turns[t]
    BY <1>6 DEF HasTurn, Turn, Stored, Message
  <1>8. /\ loaded[w].message.content = Stored(w)
        /\ loaded[w].turn.status = "stopped" => turns[t].status = "stopped"
    BY <1>3, <1>7 DEF KeepsWhole, ReadsOwn, Stopped
  <1>9. turns'[t].assistant = a /\ turns'[t].scope = turns[t].scope /\ TurnExists(t)'
    BY <1>2, <1>6, CommitKeepsIdentity
  <1>10. Stored(w)' = messages'[a].content /\ Turn(w)' = turns'[t] /\ HasTurn(w)'
    BY <1>6, <1>9 DEF Stored, Message, HasTurn, Turn
  <1>11. stage'[w] = "idle" /\ result'[w] = FinalStatus(w)
    BY <1>2, <1>3, ReturnMoves DEF FinishCommit
  <1>12. Stored(w)' = FinalContent(w)
    BY <1>6, <1>7, <1>8, <1>10 DEF Written
  <1>13. CASE loaded[w].turn.status = "stopped"
    <2>1. FinalStatus(w) = "stopped" /\ Turn(w)'.status = "stopped"
      BY <1>6, <1>8, <1>10, <1>13 DEF FinalStatus, Written
    <2>2. CASE phase[w] \in Completing
      <3>1. FinalContent(w) = Stored(w) /\ Blank(w)
        BY <1>3, <1>4, <1>8, <1>13, <2>2 DEF FinalContent, KeepsWhole
      <3>2. Stored(w)' \in {None, <<w, 0>>}
        BY <1>7, <1>12, <3>1 DEF Blank
      <3>. QED  BY <1>3, <1>11, <2>1, <2>2, <3>2
                DEF Wholesome, Blank, Stopped, Halting, Completing
    <2>3. CASE phase[w] \notin Completing
      <3>1. Stored(w)' = <<w, 0>>
        BY <1>4, <1>12, <2>3 DEF FinalContent
      <3>. QED  BY <1>3, <1>11, <2>1, <2>3, <3>1 DEF Wholesome, Blank, Stopped
    <2>. QED  BY <2>2, <2>3
  <1>14. CASE loaded[w].turn.status # "stopped"
    <2>1. /\ FinalStatus(w) = call[w].status /\ Stored(w)' = call[w].content
          /\ Turn(w)'.status = call[w].status
      BY <1>5, <1>6, <1>10, <1>12, <1>14
         DEF FinalStatus, FinalContent, Written, Active, Settled
    <2>2. phase[w] \notin Halting
      BY <1>3, <1>14 DEF KeepsWhole, ReadsOwn
    <2>. QED  BY <1>3, <1>4, <1>11, <2>1, <2>2 DEF Wholesome, Whole
  <1>. QED  BY <1>13, <1>14

LEMMA OwnCall ==
    ASSUME TypeOK, RowsInv, NEW w \in Workers, CallFits(w), KeepsWhole(w),
           CallStep(w) \/ Fail(w), UNCHANGED <<phase, answer, farewell>>
    PROVE  (CallFits(w) /\ KeepsWhole(w))'
  <1>1. /\ w \in Sessions /\ ~Idle(w) /\ phase[w] \in Replied
        /\ Idle(w)' \/ call'[w] = call[w]
    BY CallMoves, RequestTypes DEF CallFits
  <1>2. CallFits(w)'
    BY <1>1 DEF CallFits
  <1>3. /\ phase[w] \notin {"ended", "decide", "record"}
        /\ phase[w] \in Fresh => phase[w] \in {"begin"} \cup Halting
        /\ farewell[w] \notin {"response_complete", "response_stopped"}
        /\ phase[w] \in Completing => Blank(w) /\ phase[w] \notin Fresh
    BY <1>1 DEF Replied, KeepsWhole, Fresh, Unshown, Halting, Completing
  <1>4. CASE Fail(w)
    <2>1. stage'[w] = "idle" /\ result'[w] = "error" /\ RowsStill(w)
      BY <1>1, <1>4, ReturnMoves, UnchangedRowsStill DEF Fail, rows
    <2>2. ReadsOwn(w)'
      BY <2>1 DEF ReadsOwn
    <2>. QED  BY <1>2, <1>3, <2>1, <2>2, StillFacts DEF KeepsWhole, Idle
  <1>5. CASE \/ EnsureConversation(w) \/ BeginReadTurn(w) \/ BeginReadTarget(w)
             \/ InsertConflict(w) \/ ReadTurn(w) \/ UpdateReadAssistant(w)
             \/ CancelReadAssistant(w) \/ FinishReadAssistant(w) \/ CommitConflict(w)
    <2>1. /\ RowsStill(w) /\ ReadsOwn(w)'
          /\ Idle(w)' /\ phase[w] \in Halting \cup Completing =>
                result'[w] \in {"missing", "error"}
      BY <1>5, OwnReads, UnchangedRowsStill
    <2>. QED  BY <1>2, <1>3, <2>1, StillFacts DEF KeepsWhole
  <1>6. CASE InsertMessageTurn(w) \/ InsertReplayTurn(w)
    <2>1. phase[w] = "begin" /\ Blank(w)' /\ stage'[w] = "idle"
      BY <1>1, <1>6, OwnInsert
    <2>2. ReadsOwn(w)' /\ Wholesome(w)'
      BY <2>1 DEF ReadsOwn, Wholesome, Blank, Active
    <2>. QED  BY <1>2, <1>3, <2>1, <2>2 DEF KeepsWhole, Halting, Completing
  <1>7. CASE UpdateCommit(w) \/ CancelCommit(w) \/ FinishCommit(w)
    <2>1. /\ stage'[w] = "idle" /\ phase[w] # "begin" /\ Wholesome(w)'
          /\ phase[w] \in Halting => Blank(w)' /\ Stopped(w)' /\ result'[w] = "stopped"
          /\ phase[w] \in Completing =>
                \/ result'[w] = "stopped" /\ Stopped(w)' /\ Blank(w)'
                \/ result'[w] = "complete" /\ Whole(w)'
      BY <1>1, <1>7, OwnCommit
    <2>2. ReadsOwn(w)' /\ Idle(w)'
      BY <2>1 DEF ReadsOwn, Idle
    <2>. QED  BY <1>2, <1>3, <2>1, <2>2 DEF KeepsWhole
  <1>. QED  BY <1>4, <1>5, <1>6, <1>7 DEF CallStep

(* A worker opens its finish_turn: for the whole answer only of a blank    *)
(* turn, and to say that the turn was stopped only of a stopped one.       *)
LEMMA FinishKeeps ==
    ASSUME TypeOK, AgentTypes, NEW w \in Workers, KeepsWhole(w), phase[w] # "ended",
           NEW size, NEW st, NEW next \in Replied \ {"begin"},
           Open(w, FinishTurn(ScopeOf[w], TurnOf[w], <<w, size>>, st)), GoTo(w, next),
           UNCHANGED local,
           st = "complete" <=> next \in Completing,
           size = IF next \in Completing THEN Chunks ELSE 0,
           next \in Halting => Stopped(w),
           next \in Halting \cup Completing => Blank(w)
    PROVE  (CallFits(w) /\ KeepsWhole(w))'
  <1>. PICK c : c = FinishTurn(ScopeOf[w], TurnOf[w], <<w, size>>, st)
    OBVIOUS
  <1>1. /\ c.scope = ScopeOf[w] /\ c.turn = TurnOf[w] /\ c.op = "finish"
        /\ c.content = <<w, size>> /\ c.status = st
    BY DEF FinishTurn, NoCall
  <1>2. /\ phase'[w] = next /\ w \in Sessions
        /\ farewell' = farewell
    BY GoToType, RequestTypes DEF Phases, local
  <1>3. call'[w] = c /\ stage'[w] = "turn" /\ UNCHANGED <<turns, messages>>
    BY <1>1, <1>2 DEF Open, TypeOK, rows
  <1>4. /\ next \notin {"ended", "record", "decide"}
        /\ next \in Fresh => next \in Halting
    BY DEF Replied, Fresh, Unshown, Halting
  <1>5. CallFits(w)' /\ ~Idle(w)'
    BY <1>1, <1>2, <1>3 DEF CallFits, Idle
  <1>6. ReadsOwn(w)' /\ farewell[w] \notin {"response_complete", "response_stopped"}
    BY <1>3 DEF ReadsOwn, KeepsWhole
  <1>7. RowsStill(w)
    BY <1>3, UnchangedRowsStill
  <1>. QED  BY <1>2, <1>4, <1>5, <1>6, <1>7, StillFacts DEF KeepsWhole

(* The worker, with no call open, goes on to another phase or says         *)
(* farewell.                                                               *)
LEMMA GoesOnKeeps ==
    ASSUME AgentTypes, NEW w \in Workers, KeepsWhole(w), RowsStill(w), Idle(w)',
           phase[w] # "ended",
           NEW next \in Phases \ (Halting \cup Completing), GoTo(w, next),
           next \in Fresh => Blank(w),
           next = "record" => Whole(w),
           next = "decide" => (Held(w)'.reason = "user_cancelled" => Stopped(w)),
           \/ farewell'[w] \notin {"response_complete", "response_stopped"}
           \/ next = "ended" /\ farewell'[w] = "response_complete" /\ Whole(w)
           \/ next = "ended" /\ farewell'[w] = "response_stopped" /\ Stopped(w) /\ Blank(w)
    PROVE  (CallFits(w) /\ KeepsWhole(w))'
  <1>1. phase'[w] = next /\ CallFits(w)'
    BY GoToType DEF CallFits
  <1>2. ReadsOwn(w)' /\ Wholesome(w)'
    BY StillFacts DEF Idle, ReadsOwn, KeepsWhole
  <1>3. Fresh \cap {"ended", "record"} = {}
    BY DEF Fresh, Unshown, Halting
  <1>. QED  BY <1>1, <1>2, <1>3, StillFacts DEF KeepsWhole

LEMMA AbandonKeeps ==
    ASSUME TypeOK, NEW w \in Workers, AbandonCall(w)
    PROVE  RowsStill(w) /\ Idle(w)'
  <1>1. CASE Idle(w)
    BY <1>1, UnchangedRowsStill DEF AbandonCall, vars, rows, Idle
  <1>2. CASE ~Idle(w)
    BY <1>2, RequestTypes, ReturnMoves, UnchangedRowsStill DEF AbandonCall, Fail, rows, Idle
  <1>. QED  BY <1>1, <1>2

LEMMA ResultsUncancelled == \A x \in StandardResults : x.reason # "user_cancelled"
  BY DEF StandardResults, Result

(* A step that leaves the rows alone and says nothing of the outcome.      *)
LEMMA ProceedingKeeps ==
    ASSUME AgentTypes, NEW w \in Workers, CallFits(w), KeepsWhole(w), UNCHANGED vars, Idle(w),
           phase[w] # "ended", NEW next \in Phases \ (Halting \cup Completing), GoTo(w, next),
           next \in Fresh => Blank(w), next \notin {"record", "decide"},
           farewell'[w] \in {farewell[w], "storage_unavailable", "pipeline_error", "none"}
    PROVE  (CallFits(w) /\ KeepsWhole(w))'
  <1>1. RowsStill(w) /\ Idle(w)'
    BY UnchangedRowsStill DEF vars, rows, Idle
  <1>. QED  BY <1>1, GoesOnKeeps DEF KeepsWhole

LEMMA AnswerStepKeeps ==
    ASSUME TypeOK, AgentTypes, NEW w \in Workers, CallFits(w), KeepsWhole(w),
           \/ TakeRoute(w) \/ RunAgent(w) \/ Verify(w) \/ Recover(w) \/ Reverify(w)
           \/ Compose(w)
    PROVE  (CallFits(w) /\ KeepsWhole(w))'
  <1>1. /\ phase[w] \in {"route", "agent", "verify", "recover", "reverify", "compose"}
        /\ UNCHANGED <<vars, farewell>>
    BY DEF TakeRoute, RunAgent, Verify, Recover, Reverify, Compose
  <1>2. phase[w] \in Fresh \ (Replied \cup {"ended"})
    BY <1>1 DEF Fresh, Unshown, Replied
  <1>3. Blank(w) /\ Idle(w)
    BY <1>2 DEF KeepsWhole, CallFits
  <1>4. CASE RunAgent(w)
    <2>1. PICK x \in IF route[w].chain THEN StandardResults ELSE PassResults(w) : Hold(w, x)
      BY <1>4 DEF RunAgent
    <2>2. x.reason = "user_cancelled" => Stopped(w)
      BY <2>1, ResultsUncancelled DEF PassResults, Cancelled, Stopped, Turn
    <2>3. Held(w)' = x
      BY <2>1, ResultsJudged, HoldEffect DEF PassResults, Judged
    <2>4. RowsStill(w) /\ Idle(w)'
      BY <1>1, <1>3, UnchangedRowsStill DEF vars, rows, Idle
    <2>5. "decide" \in Phases \ (Halting \cup Completing)
      BY DEF Phases, Working, Halting, Completing
    <2>. QED  BY <1>1, <1>2, <1>3, <1>4, <2>2, <2>3, <2>4, <2>5, GoesOnKeeps
              DEF RunAgent, KeepsWhole
  <1>5. ASSUME NEW next \in {"fast", "deliver", "agent", "recover", "reverify", "compose"},
               GoTo(w, next)
        PROVE  (CallFits(w) /\ KeepsWhole(w))'
    <2>1. next \in Phases \ (Halting \cup Completing \cup {"record", "decide"})
      BY DEF Phases, Working, Halting, Completing
    <2>. QED  BY <1>1, <1>2, <1>3, <1>5, <2>1, ProceedingKeeps
  <1>6. CASE TakeRoute(w)
    BY <1>5, <1>6 DEF TakeRoute
  <1>7. CASE Verify(w) \/ Recover(w) \/ Reverify(w) \/ Compose(w)
    BY <1>5, <1>7 DEF Verify, Recover, Reverify, Compose
  <1>. QED  BY <1>4, <1>6, <1>7

LEMMA OtherStepKeeps ==
    ASSUME TypeOK, AgentTypes, NEW w \in Workers, HoldsChecked(w), CallFits(w), KeepsWhole(w),
           LoadHistory(w) \/ WorkerStep(w) \/ FaultStep(w),
           ~(\/ TakeRoute(w) \/ RunAgent(w) \/ Verify(w) \/ Recover(w) \/ Reverify(w)
             \/ Compose(w))
    PROVE  (CallFits(w) /\ KeepsWhole(w))'
  <1>. USE DEF Halting, Completing
  <1>1. /\ phase[w] \in Fresh => Blank(w)
        /\ phase[w] \notin Replied => Idle(w)
        /\ Cancelled(w) => Stopped(w)
    BY DEF KeepsWhole, CallFits, Cancelled, Stopped, Turn
  <1>2. ASSUME NEW p, NEW r, Reply(w, p, r)
        PROVE  phase[w] = p /\ Idle(w) /\ (r # "error" => result[w] = r)
    BY <1>2 DEF Reply
  <1>3. ASSUME NEW size, NEW st, phase[w] # "ended",
               NEW next \in Replied \ {"begin"}, Finish(w, size, st, next),
               st = "complete" <=> next \in Completing,
               size = IF next \in Completing THEN Chunks ELSE 0,
               next \in Halting => Stopped(w),
               next \in Halting \cup Completing => Blank(w)
        PROVE  (CallFits(w) /\ KeepsWhole(w))'
    BY <1>3, FinishKeeps DEF Finish
  <1>4. ASSUME NEW next \in Phases \ (Halting \cup Completing \cup {"record", "decide"}),
               Proceeding(w, next), Idle(w), phase[w] # "ended", next \in Fresh => Blank(w)
        PROVE  (CallFits(w) /\ KeepsWhole(w))'
    BY <1>4, ProceedingKeeps DEF Proceeding, local
  <1>5. ASSUME NEW next \in {"ended", "left", "unsaved"}, NEW event,
               Farewell(w, event, next) \/ Finalize(w, event, next), Idle(w),
               phase[w] # "ended",
               event \in {farewell[w], "storage_unavailable", "pipeline_error", "none"}
        PROVE  (CallFits(w) /\ KeepsWhole(w))'
    <2>1. next \in Phases \ (Halting \cup Completing) /\ next \notin Fresh
      BY DEF Phases, Closing, Fresh, Unshown
    <2>2. farewell'[w] = event
      BY <1>5 DEF Farewell, Finalize, AgentTypes
    <2>. QED  BY <1>5, <2>1, <2>2, ProceedingKeeps DEF Farewell, Finalize
  <1>6. ASSUME NEW event, Finalize(w, event, "ended"), Idle(w), phase[w] # "ended",
               \/ event = "response_stopped" /\ Stopped(w) /\ Blank(w)
               \/ event = "response_complete" /\ Whole(w)
        PROVE  (CallFits(w) /\ KeepsWhole(w))'
    <2>1. "ended" \in Phases \ (Halting \cup Completing) /\ "ended" \notin Fresh
      BY DEF Phases, Fresh, Unshown
    <2>2. farewell'[w] = event /\ RowsStill(w) /\ Idle(w)'
      BY <1>6, UnchangedRowsStill DEF Finalize, AgentTypes, vars, rows, Idle
    <2>. QED  BY <1>6, <2>1, <2>2, GoesOnKeeps DEF Finalize
  <1>7. CASE LoadHistory(w)
    <2>1. "loaded" \in Phases \ (Halting \cup Completing)
      BY DEF Phases, Working
    <2>2. phase[w] = "waiting" /\ Idle(w)
      BY <1>1, <1>7 DEF LoadHistory, Replied
    <2>3. Blank(w) /\ RowsStill(w) /\ Idle(w)'
      BY <1>1, <1>7, <2>2, UnchangedRowsStill
         DEF LoadHistory, MakeConversation, Fresh, Unshown, Idle
    <2>. QED  BY <1>7, <2>1, <2>2, <2>3, GoesOnKeeps DEF LoadHistory, KeepsWhole, local
  <1>8. CASE Begin(w)
    <2>1. /\ phase[w] = "loaded" /\ phase'[w] = "begin"
          /\ UNCHANGED <<answer, farewell>>
      BY <1>8, GoToType DEF Begin, local, Phases, Replied
    <2>2. PICK c : Open(w, c) /\ c.op = "begin" /\ c.scope = ScopeOf[w] /\ c.turn = TurnOf[w]
      <3>1. \A q : /\ BeginMessage(ScopeOf[w], TurnOf[w], q).op = "begin"
                   /\ BeginMessage(ScopeOf[w], TurnOf[w], q).scope = ScopeOf[w]
                   /\ BeginMessage(ScopeOf[w], TurnOf[w], q).turn = TurnOf[w]
        BY DEF BeginMessage, NoCall
      <3>2. \A m : /\ BeginReplay(ScopeOf[w], TurnOf[w], m).op = "begin"
                   /\ BeginReplay(ScopeOf[w], TurnOf[w], m).scope = ScopeOf[w]
                   /\ BeginReplay(ScopeOf[w], TurnOf[w], m).turn = TurnOf[w]
        BY DEF BeginReplay, NoCall
      <3>. QED  BY <1>8, <3>1, <3>2 DEF Begin
    <2>3. call'[w] = c /\ stage'[w] = "ensure" /\ UNCHANGED <<turns, messages>>
      BY <2>2, RequestTypes DEF Open, TypeOK, rows
    <2>4. CallFits(w)' /\ RowsStill(w) /\ ReadsOwn(w)'
      BY <2>1, <2>2, <2>3, UnchangedRowsStill DEF CallFits, ReadsOwn, Replied
    <2>5. Blank(w)
      BY <1>1, <2>1 DEF Fresh, Unshown
    <2>. QED  BY <2>1, <2>4, <2>5, StillFacts DEF KeepsWhole
  <1>9. CASE Begun(w)
    <2>1. phase[w] = "begin" /\ Idle(w)
      BY <1>2, <1>9 DEF Begun
    <2>. QED  BY <1>1, <1>4, <1>5, <1>9, <2>1 DEF Begun, Phases, Working, Fresh, Unshown
  <1>10. CASE FirstCheck(w) \/ Delivered(w)
    <2>1. phase[w] \in {"check", "deliver"}
      BY <1>10 DEF FirstCheck, Delivered
    <2>2. Blank(w) /\ Idle(w)
      BY <1>1, <2>1 DEF Fresh, Unshown, Replied
    <2>. QED  BY <1>1, <1>3, <1>4, <1>10, <2>1, <2>2
              DEF FirstCheck, Delivered, Phases, Working, Replied
  <1>11. CASE Decide(w)
    <2>1. phase[w] = "decide" /\ Blank(w) /\ Idle(w)
      BY <1>1, <1>11 DEF Decide, Fresh, Unshown, Replied
    <2>2. Held(w).reason = "user_cancelled" => Stopped(w)
      BY <2>1 DEF KeepsWhole
    <2>. QED  BY <1>1, <1>3, <1>4, <1>11, <2>1, <2>2 DEF Decide, Held, Phases, Working, Replied
  <1>12. CASE FinishFastPath(w)
    <2>1. phase[w] = "fast" /\ Blank(w)
      BY <1>1, <1>12 DEF FinishFastPath, Fresh
    <2>. QED  BY <1>1, <1>3, <1>12, <2>1 DEF FinishFastPath, Replied
  <1>13. CASE Persist(w) \/ SaveCase(w)
    <2>1. phase[w] \in {"persist", "save"}
      BY <1>13 DEF Persist, SaveCase
    <2>2. Blank(w) /\ Idle(w) /\ Size(w) = Chunks
      BY <1>1, <2>1 DEF Fresh, Replied, HoldsChecked, Size
    <2>3. CASE SaveCase(w)
      BY <2>1, <2>2, <2>3, FinishKeeps DEF SaveCase, Replied
    <2>. QED  BY <1>1, <1>3, <1>4, <1>13, <2>1, <2>2, <2>3 DEF Persist, Phases, Working, Replied
  <1>14. CASE ShowChunk(w)
    <2>1. RowsStill(w)
      BY <1>14, UnchangedRowsStill DEF ShowChunk, vars, rows
    <2>. QED  BY <1>14, <2>1, StandsWhole DEF ShowChunk, vars
  <1>15. CASE AfterFastPath(w)
    <2>1. PICK p \in {"fast_stopping", "fast_completing"}, r \in Results :
             /\ Reply(w, p, r)
             /\ \/ r = "stopped" /\ Finalize(w, "response_stopped", "ended")
                \/ r = "complete" /\ Finalize(w, "response_complete", "ended")
                \/ /\ r = "failed" /\ p = "fast_stopping"
                   /\ Finalize(w, "response_complete", "ended")
                \/ /\ r = "failed" /\ p = "fast_completing"
                   /\ Finalize(w, "storage_unavailable", "ended")
                \/ r \notin Settled /\ Farewell(w, "storage_unavailable", "left")
      BY <1>15 DEF AfterFastPath
    <2>2. phase[w] = p /\ Idle(w) /\ (r # "error" => result[w] = r)
      BY <1>2, <2>1
    <2>3. /\ p = "fast_stopping" => r \notin {"complete", "failed"} /\ Stopped(w) /\ Blank(w)
          /\ p = "fast_completing" => /\ r = "stopped" => Stopped(w) /\ Blank(w)
                                      /\ r = "complete" => Whole(w)
      BY <2>2 DEF KeepsWhole, Fresh
    <2>. QED  BY <1>5, <1>6, <2>1, <2>2, <2>3
  <1>16. CASE AfterStopping(w) \/ AfterLateStopping(w)
    <2>1. phase[w] \in {"stopping", "late_stopping"} /\ Idle(w)
      BY <1>2, <1>16 DEF AfterStopping, AfterLateStopping
    <2>2. Stopped(w) /\ Blank(w)
      BY <2>1 DEF KeepsWhole, Fresh
    <2>. QED  BY <1>4, <1>5, <1>6, <1>16, <2>1, <2>2
              DEF AfterStopping, AfterLateStopping, Phases, Closing, Fresh, Unshown
  <1>17. CASE AfterCompleting(w)
    <2>1. PICK r \in Results :
             /\ Reply(w, "completing", r)
             /\ IF Settles(r)
                  THEN Finalize(w, IF AfterReply(r) = "ended" THEN "response_stopped"
                                                              ELSE "none", AfterReply(r))
                  ELSE Proceeding(w, "unsaved")
      BY <1>17 DEF AfterCompleting
    <2>2. phase[w] = "completing" /\ Idle(w) /\ (r # "error" => result[w] = r)
      BY <1>2, <2>1
    <2>3. CASE r = "stopped"
      <3>1. Finalize(w, "response_stopped", "ended")
        BY <2>1, <2>3 DEF AfterReply, Settles, Settled
      <3>. QED  BY <1>6, <2>2, <2>3, <3>1 DEF KeepsWhole
    <2>4. CASE r = "complete"
      <3>1. Finalize(w, "none", "record")
        BY <2>1, <2>4 DEF AfterReply, Settles, Settled
      <3>2. Whole(w)
        BY <2>2, <2>4 DEF KeepsWhole
      <3>3. "record" \in Phases \ (Halting \cup Completing) /\ "record" \notin Fresh
        BY DEF Phases, Working, Fresh, Unshown
      <3>4. farewell'[w] = "none" /\ RowsStill(w) /\ Idle(w)'
        BY <2>2, <3>1, UnchangedRowsStill DEF Finalize, AgentTypes, vars, rows, Idle
      <3>. QED  BY <2>2, <3>1, <3>2, <3>3, <3>4, GoesOnKeeps DEF Finalize
    <2>5. CASE r \notin {"stopped", "complete"}
      <3>1. Finalize(w, "none", "unsaved") \/ Proceeding(w, "unsaved")
        BY <2>1, <2>5 DEF AfterReply
      <3>. QED  BY <1>4, <1>5, <2>2, <3>1 DEF Phases, Closing, Fresh, Unshown
    <2>. QED  BY <2>3, <2>4, <2>5
  <1>18. CASE RecordRun(w)
    <2>1. phase[w] = "record" /\ Idle(w)
      BY <1>1, <1>18 DEF RecordRun, Replied
    <2>2. /\ Whole(w) /\ RowsStill(w) /\ Idle(w)'
          /\ farewell'[w] = "response_complete"
      BY <1>18, <2>1, UnchangedRowsStill
         DEF RecordRun, MakeConversation, KeepsWhole, Idle, AgentTypes
    <2>3. "ended" \in Phases \ (Halting \cup Completing) /\ "ended" \notin Fresh
      BY DEF Phases, Fresh, Unshown
    <2>. QED  BY <1>18, <2>1, <2>2, <2>3, GoesOnKeeps DEF RecordRun
  <1>19. CASE Unsaved(w) \/ Failed(w) \/ GivenUp(w) \/ Interrupted(w) \/ Left(w)
    <2>1. /\ phase[w] \in {"unsaved", "failed", "given_up", "interrupted", "left"}
          /\ Idle(w)
      BY <1>1, <1>19 DEF Unsaved, Failed, GivenUp, Interrupted, Left, Replied
    <2>. QED  BY <1>3, <1>4, <1>5, <1>19, <2>1
              DEF Unsaved, Failed, GivenUp, Interrupted, Left, Phases, Replied, Fresh, Unshown
  <1>20. CASE AfterMarking(w) \/ AfterFailing(w) \/ AfterGivingUp(w) \/ AfterInterrupting(w)
              \/ AfterLeaving(w)
    <2>1. /\ phase[w] \in {"marking", "failing", "giving_up", "interrupting", "leaving"}
          /\ Idle(w)
      BY <1>2, <1>20
         DEF AfterMarking, AfterFailing, AfterGivingUp, AfterInterrupting, AfterLeaving
    <2>. QED  BY <1>4, <1>5, <1>20, <2>1
              DEF AfterMarking, AfterFailing, AfterGivingUp, AfterInterrupting, AfterLeaving,
                  Phases, Closing, Fresh, Unshown
  <1>21. CASE FirstCheckFails(w) \/ FastPathFails(w) \/ PassFails(w) \/ PersistenceFails(w)
    <2>1. phase[w] \notin Replied \cup {"ended"}
      BY <1>21 DEF FirstCheckFails, FastPathFails, PassFails, PersistenceFails, Replied
    <2>. QED  BY <1>1, <1>4, <1>5, <1>21, <2>1
              DEF FirstCheckFails, FastPathFails, PassFails, PersistenceFails, Phases, Closing,
                  Fresh, Unshown
  <1>22. CASE StopIterating(w)
    <2>1. phase[w] \notin Replied \cup {"ended"}
      BY <1>22 DEF StopIterating, Replied
    <2>. QED  BY <1>1, <1>4, <1>22, <2>1 DEF StopIterating, Phases, Closing, Fresh, Unshown
  <1>23. CASE Disconnect(w) \/ Crash(w)
    <2>. PICK next : next = IF Crash(w) THEN "crashed" ELSE AfterCancellation(phase[w])
      OBVIOUS
    <2>1. /\ next \in {"ended", "left", "given_up", "interrupted", "crashed"}
          /\ GoTo(w, next) /\ AbandonCall(w) /\ UNCHANGED local /\ phase[w] # "ended"
      BY <1>23 DEF Disconnect, Crash, AfterCancellation, Replied, Working
    <2>2. next \in Phases \ (Halting \cup Completing) /\ next \notin Fresh
      BY <2>1 DEF Phases, Closing, Fresh, Unshown
    <2>. QED  BY <2>1, <2>2, AbandonKeeps, GoesOnKeeps DEF local, KeepsWhole
  <1>. QED  BY <1>7, <1>8, <1>9, <1>10, <1>11, <1>12, <1>13, <1>14, <1>15, <1>16, <1>17,
               <1>18, <1>19, <1>20, <1>21, <1>22, <1>23 DEF WorkerStep, FaultStep

(* A step of a worker that is no step of its call touches no row, and no   *)
(* other session.                                                          *)
LEMMA WorkerMoves ==
    ASSUME TypeOK, NEW w \in Workers, LoadHistory(w) \/ WorkerStep(w) \/ FaultStep(w)
    PROVE  /\ UNCHANGED <<turns, messages>>
           /\ \A z \in Sessions \ {w} :
                 /\ call'[z] = call[z] /\ stage'[z] = stage[z]
                 /\ loaded'[z] = loaded[z] /\ result'[z] = result[z]
  <1>. DEFINE Alone == /\ UNCHANGED <<turns, messages>>
                      /\ \A z \in Sessions \ {w} :
                            /\ call'[z] = call[z] /\ stage'[z] = stage[z]
                            /\ loaded'[z] = loaded[z] /\ result'[z] = result[z]
  <1>1. ASSUME NEW c, Open(w, c) PROVE Alone
    BY <1>1, RequestTypes DEF Open, rows, TypeOK
  <1>2. ASSUME AbandonCall(w) PROVE Alone
    BY <1>2, RequestTypes, ReturnMoves DEF AbandonCall, Fail, vars, rows
  <1>3. ASSUME UNCHANGED vars \/ MakeConversation(ScopeOf[w]) PROVE Alone
    BY <1>3 DEF vars, rows, MakeConversation
  <1>4. ASSUME NEW event, NEW next, Farewell(w, event, next) \/ Finalize(w, event, next)
        PROVE  Alone
    BY <1>3, <1>4 DEF Farewell, Finalize
  <1>5. ASSUME NEW next, Proceeding(w, next) PROVE Alone
    BY <1>3, <1>5 DEF Proceeding
  <1>6. ASSUME NEW size, NEW st, NEW next, Finish(w, size, st, next) PROVE Alone
    BY <1>1, <1>6 DEF Finish
  <1>. SUFFICES Alone
    OBVIOUS
  <1>. HIDE DEF Alone
  <1>7. CASE LoadHistory(w) \/ RecordRun(w) \/ Begin(w) \/ SaveCase(w)
    BY <1>1, <1>3, <1>7 DEF LoadHistory, RecordRun, Begin, SaveCase
  <1>8. CASE FirstCheck(w) \/ FinishFastPath(w) \/ Decide(w) \/ Persist(w) \/ Unsaved(w)
             \/ Failed(w) \/ GivenUp(w) \/ Interrupted(w) \/ Left(w)
    BY <1>4, <1>5, <1>6, <1>8
       DEF FirstCheck, FinishFastPath, Decide, Persist, Unsaved, Failed, GivenUp, Interrupted,
           Left
  <1>9. CASE Begun(w) \/ AfterFastPath(w) \/ AfterStopping(w) \/ AfterLateStopping(w)
             \/ AfterCompleting(w) \/ AfterMarking(w) \/ AfterFailing(w) \/ AfterGivingUp(w)
             \/ AfterInterrupting(w) \/ AfterLeaving(w)
    BY <1>4, <1>5, <1>9
       DEF Begun, AfterFastPath, AfterStopping, AfterLateStopping, AfterCompleting,
           AfterMarking, AfterFailing, AfterGivingUp, AfterInterrupting, AfterLeaving
  <1>10. CASE TakeRoute(w) \/ RunAgent(w) \/ Verify(w) \/ Recover(w) \/ Reverify(w)
              \/ Compose(w) \/ ShowChunk(w) \/ Delivered(w)
    BY <1>3, <1>5, <1>10
       DEF TakeRoute, RunAgent, Verify, Recover, Reverify, Compose, ShowChunk, Delivered
  <1>11. CASE FirstCheckFails(w) \/ FastPathFails(w) \/ PassFails(w) \/ PersistenceFails(w)
              \/ StopIterating(w)
    BY <1>4, <1>5, <1>11
       DEF FirstCheckFails, FastPathFails, PassFails, PersistenceFails, StopIterating
  <1>12. CASE Disconnect(w) \/ Crash(w)
    BY <1>2, <1>12 DEF Disconnect, Crash
  <1>. QED  BY <1>7, <1>8, <1>9, <1>10, <1>11, <1>12 DEF WorkerStep, FaultStep

LEMMA AnswerStep ==
    ASSUME OwnTurns, TypeOK, RowsInv, AgentTypes, DraftInv, AnswerInv, [AgentNext]_allVars
    PROVE  AnswerInv'
  <1>1. ASSUME NEW w \in Workers, LoadHistory(w) \/ WorkerStep(w) \/ FaultStep(w)
        PROVE  AnswerInv'
    <2>1. (CallFits(w) /\ KeepsWhole(w))'
      BY <1>1, AnswerStepKeeps, OtherStepKeeps DEF AnswerInv, DraftInv
    <2>2. ASSUME NEW z \in Workers, z # w
          PROVE  (CallFits(z) /\ KeepsWhole(z))'
      <3>1. RowsStill(z)
        BY <1>1, WorkerMoves, UnchangedRowsStill
      <3>. QED  BY <1>1, <2>2, <3>1, WorkerMoves, WorkerLocals, StandsWhole, RequestTypes
                DEF AnswerInv, LocalTypes
    <2>3. OnlyStops'
      BY <1>1, WorkerMoves DEF AnswerInv, OnlyStops, Idle
    <2>. QED  BY <2>1, <2>2, <2>3 DEF AnswerInv
  <1>2. ASSUME NEW s \in Sessions, DatabaseStep(s) \/ DatabaseFails(s)
        PROVE  AnswerInv'
    <2>1. UNCHANGED <<phase, answer, farewell>> /\ (CallStep(s) \/ Fail(s))
      BY <1>2 DEF DatabaseStep, DatabaseFails, streams, local
    <2>2. ASSUME NEW w \in Workers, w # s
          PROVE  (CallFits(w) /\ KeepsWhole(w))'
      <3>1. RowsStill(w)
        BY <2>1, <2>2, OthersKeepRows, UnchangedRowsStill DEF Fail, rows
      <3>. QED  BY <2>1, <2>2, <3>1, CallMoves, StandsWhole, RequestTypes DEF AnswerInv
    <2>3. ASSUME NEW w \in Workers, w = s
          PROVE  (CallFits(w) /\ KeepsWhole(w))'
      BY <2>1, <2>3, OwnCall DEF AnswerInv
    <2>4. OnlyStops'
      BY <2>1, CallMoves DEF AnswerInv, OnlyStops, Idle
    <2>. QED  BY <2>2, <2>3, <2>4 DEF AnswerInv
  <1>3. ASSUME NEW s \in Sessions \ Workers, PressStop(s)
        PROVE  AnswerInv'
    <2>1. PICK c : Open(s, c) /\ c.op = "cancel"
      <3>1. \A w : CancelTurn(ScopeOf[w], TurnOf[w]).op = "cancel"
        BY DEF CancelTurn, NoCall
      <3>. QED  BY <1>3, <3>1 DEF PressStop
    <2>2. /\ UNCHANGED <<turns, messages, phase, answer, farewell>>
          /\ call'[s] = c
          /\ \A z \in Sessions \ {s} :
                 /\ call'[z] = call[z] /\ stage'[z] = stage[z]
                 /\ loaded'[z] = loaded[z] /\ result'[z] = result[z]
      BY <1>3, <2>1 DEF Open, rows, streams, local, PressStop, TypeOK
    <2>3. \A w \in Workers : (CallFits(w) /\ KeepsWhole(w))'
      BY <1>3, <2>2, UnchangedRowsStill, StandsWhole, RequestTypes DEF AnswerInv
    <2>4. OnlyStops'
      BY <2>1, <2>2 DEF AnswerInv, OnlyStops, Idle
    <2>. QED  BY <2>3, <2>4 DEF AnswerInv
  <1>4. ASSUME NEW c \in Scopes, DeleteSession(c)
        PROVE  AnswerInv'
    <2>1. UNCHANGED <<phase, answer, farewell, call, stage, loaded, result>>
      BY <1>4 DEF DeleteSession, DeleteConversation, streams, local
    <2>2. \A w \in Workers : (CallFits(w) /\ KeepsWhole(w))'
      BY <1>4, <2>1, DeleteKeepsRows, StandsWhole DEF AnswerInv, DeleteSession
    <2>3. OnlyStops'
      BY <2>1 DEF AnswerInv, OnlyStops, Idle
    <2>. QED  BY <2>2, <2>3 DEF AnswerInv
  <1>5. CASE UNCHANGED allVars
    <2>1. UNCHANGED <<turns, messages, phase, answer, farewell, call, stage, loaded, result>>
      BY <1>5 DEF allVars, vars, rows, streams, local
    <2>2. \A w \in Workers : (CallFits(w) /\ KeepsWhole(w))'
      BY <2>1, UnchangedRowsStill, StandsWhole DEF AnswerInv
    <2>3. OnlyStops'
      BY <2>1 DEF AnswerInv, OnlyStops, Idle
    <2>. QED  BY <2>2, <2>3 DEF AnswerInv
  <1>. QED  BY <1>1, <1>2, <1>3, <1>4, <1>5 DEF AgentNext

LEMMA AnswerInit == AgentInit => AnswerInv
  <1>. SUFFICES ASSUME AgentInit PROVE AnswerInv
    OBVIOUS
  <1>1. \A s \in Sessions : stage[s] = "idle" /\ Idle(s)
    BY DEF AgentInit, Init, Idle
  <1>2. \A w \in Workers : ~HasTurn(w)
    BY RequestTypes DEF AgentInit, Init, HasTurn, TurnExists, AbsentTurn
  <1>3. ASSUME NEW w \in Workers PROVE CallFits(w) /\ KeepsWhole(w)
    <2>1. phase[w] = "waiting" /\ farewell[w] = "none"
      BY DEF AgentInit
    <2>2. Blank(w) /\ Whole(w) /\ Stopped(w) /\ Wholesome(w)
      BY <1>2 DEF Blank, Whole, Stopped, Wholesome
    <2>. QED  BY <1>1, <2>1, <2>2, RequestTypes
              DEF CallFits, KeepsWhole, ReadsOwn, Halting
  <1>. QED  BY <1>1, <1>3 DEF AnswerInv, OnlyStops

(* However Stop, late completions, failures of the database, the recovery  *)
(* pass, disconnections and deletions follow each other, a turn of         *)
(* pipeline-agent keeps its whole answer or nothing of it, and what the    *)
(* farewell says agrees with that: for every request whose turn id no      *)
(* other request has.                                                      *)
THEOREM AnswersKeptWhole ==
    ASSUME OwnTurns
    PROVE  AgentSpec => []AnswersAreKeptWhole
  <1>1. AgentInit => DraftInv
    BY DEF AgentInit, DraftInv, HoldsChecked, Releasable, Held, NoAnswer, Result, Recovering,
           Drafts
  <1>2. AgentSpec => [](TypeOK /\ RowsInv)
    BY AgentImplementsTurnStore, TypeCorrect, RowsInvariant, PTL
  <1>3. AnswerInv => AnswersAreKeptWhole
    <2>. SUFFICES ASSUME AnswerInv, NEW w \in Workers, HasTurn(w)
                  PROVE  /\ Stored(w) \in {None, <<w, 0>>, <<w, Chunks>>}
                         /\ Turn(w).status = "complete" \/ farewell[w] = "response_complete"
                               => Stored(w) = <<w, Chunks>>
                         /\ farewell[w] = "response_stopped"
                               => Turn(w).status = "stopped" /\ Stored(w) # <<w, Chunks>>
      BY DEF AnswersAreKeptWhole
    <2>1. KeepsWhole(w)
      BY DEF AnswerInv
    <2>. QED  BY <2>1, TextsDiffer DEF KeepsWhole, Wholesome, Whole, Stopped, Blank
  <1>. QED  BY <1>1, <1>2, <1>3, AgentTypesInit, AgentTypesStep, DraftStep, AnswerInit,
               AnswerStep, PTL DEF AgentSpec
=============================================================================
