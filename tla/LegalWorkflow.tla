----------------------------- MODULE LegalWorkflow -----------------------------
(***************************************************************************)
(* One run of the bounded legal workflow (agent/workflow): the nodes of    *)
(* the graph, the routes between them, and the steps of the verify node,   *)
(* while the manifest of the legal review may be replaced at any time.     *)
(* The models, the retriever and the cache answer what they like; the run  *)
(* decides which text, if any, it delivers.                                *)
(***************************************************************************)
EXTENDS Verification

CONSTANTS
    MaxRetrievals, MaxRepairs, MaxIterations   \* budgets of BoundedPlanner

ASSUME BudgetAssumption ==
    MaxRetrievals \in Nat /\ MaxRepairs \in Nat /\ MaxIterations \in Nat

VARIABLES
    request,    \* what the run is asked, and the dependencies it runs with
    manifest,   \* what the legal review manifest says when it is read
    pc,         \* the node that runs next, or a step of the verify node
    state,      \* AgentState
    review      \* local variables of the verify node

workflowVars == <<request, manifest, pc, state, review>>

(* "case" stands for the other routes that need the legal corpus. *)
Routes == {"chitchat", "out_of_scope", "research_web", "legal_lookup", "case"}

Requests ==
    {r \in [route : Routes, valid : BOOLEAN, clarify : BOOLEAN, gated : BOOLEAN,
            enforce : BOOLEAN, verifier : BOOLEAN, critic : BOOLEAN] :
        ~r.valid => r.route = "legal_lookup" /\ ~r.clarify}

(* defective: a manifest whose first issue is neither of the two that are  *)
(* known by name; unreadable: the audit raises.                            *)
Manifests == {"ready", "pending", "defective", "unreadable"}

Legal == request.route \in {"legal_lookup", "case"}

(* A text, who wrote it, and a ghost: the checks it has gone through. *)
Marks      == {"gate", "structure", "claims", "critic", "fatal"}
Fresh(who) == [by |-> who, marks |-> {}]
NoText     == Fresh("nobody")

Marked(text, marks) == [text EXCEPT !.marks = @ \cup marks]

NoReview ==
    [supported |-> FALSE,   \* claim_support_passed
     corrected |-> FALSE,   \* critic_correction_passed
     draft     |-> NoText,  \* verified_answer
     lenient   |-> FALSE]   \* the critic's verdict lets the draft survive its rewrite

WorkflowInit ==
    /\ request \in Requests
    /\ manifest \in Manifests
    /\ pc = "validate_input"
    /\ state = [answer |-> NoText, evidence |-> FALSE, sufficient |-> FALSE, reason |-> "",
                valid |-> FALSE, error |-> "", source |-> "", termination |-> "",
                retrievals |-> 0, repairs |-> 0, iteration |-> 0]
    /\ review = NoReview

-------------------------------------------------------------------------------
(* Every node of the graph records its action first; the count is only     *)
(* compared with its budget, and stops there.                              *)
Enter(node)  == pc = node
Iterated     == [state EXCEPT !.iteration = IF @ < MaxIterations THEN @ + 1 ELSE @]
Goto(next)   == pc' = next /\ UNCHANGED <<request, manifest>>
Leave(next)  == Goto(next) /\ UNCHANGED review

(* An exception of a node ends the run; the stream reports pipeline_error. *)
Raise(node) ==
    /\ pc = node
    /\ pc' = "raised"
    /\ UNCHANGED <<request, manifest, state, review>>

NodesThatRaise == {"load_context", "understand_task", "compose", "repair"}

NodeRaises == \E node \in NodesThatRaise : Raise(node)

(* The review of the corpus is redone, or its record breaks. *)
ReplaceManifest ==
    /\ request.gated /\ pc \notin {"finished", "stopped", "asked", "raised"}
    /\ manifest' \in Manifests \ {manifest}
    /\ UNCHANGED <<request, pc, state, review>>

ValidateInput ==
    /\ Enter("validate_input")
    /\ state' = IF request.valid THEN Iterated
                                 ELSE [Iterated EXCEPT !.termination = "invalid_input"]
    /\ Leave(IF request.valid THEN "load_context" ELSE "safe_stop")

LoadContext ==
    /\ Enter("load_context")
    /\ state' = Iterated
    /\ Leave("understand_task")

(* BoundedPlanner.after_understanding *)
AfterUnderstanding ==
    CASE request.route = "chitchat"     -> "compose"
      [] request.route = "out_of_scope" -> "safe_stop"
      [] request.route = "research_web" -> "retrieve_web"
      [] OTHER -> IF request.clarify THEN "ask_user" ELSE "check_cache"

UnderstandTask ==
    /\ Enter("understand_task")
    /\ state' = Iterated
    /\ Leave(AfterUnderstanding)

AskUser ==
    /\ Enter("ask_user")
    /\ state' = [Iterated EXCEPT !.answer = Fresh("program"), !.source = "follow_up",
                                 !.termination = "awaiting_user_input"]
    /\ Leave("asked")

-------------------------------------------------------------------------------
(* A cached answer is a candidate if its citations hold and the manifest   *)
(* allows its documents; a cache that fails has nothing.                   *)
CacheMiss ==
    /\ Enter("check_cache")
    /\ state' = Iterated
    /\ Leave("retrieve_legal")

GateOpen == request.gated => manifest = "ready"

CacheHit ==
    /\ Enter("check_cache")
    /\ request.route = "legal_lookup" /\ GateOpen
    /\ state' = Iterated
    /\ Leave("answer_cache")

AnswerCache ==
    /\ Enter("answer_cache")
    /\ state' = [Iterated EXCEPT !.answer = Fresh("cache"), !.evidence = TRUE,
                                 !.source = "cache", !.termination = "cache_hit",
                                 !.valid = TRUE, !.error = "ok"]
    /\ Leave("verify")

(* Queries that fail are left out; when all of them fail there is nothing, *)
(* and an article number that cannot be read is kept as the reason.        *)
RetrieveLegal ==
    /\ Enter("retrieve_legal")
    /\ \E found, misread \in BOOLEAN :
         /\ misread => ~found
         /\ state.retrievals >= MaxRetrievals => ~found /\ ~misread
         /\ state' = [Iterated EXCEPT
                        !.evidence   = found,
                        !.source     = IF found THEN "legal" ELSE @,
                        !.reason     = IF misread THEN "parse_failed" ELSE "",
                        !.retrievals = IF state.retrievals < MaxRetrievals THEN @ + 1 ELSE @]
    /\ Leave("evaluate_evidence")

(* What the gate objects with. *)
GateReason == IF manifest = "defective" THEN "defective" ELSE "readiness"

(* The evidence is sufficient only if the gate is open, every anchor was   *)
(* read, and the documents pass the tests of EvidenceEvaluator.            *)
EvaluateEvidence ==
    /\ Enter("evaluate_evidence")
    /\ \E passes \in BOOLEAN :
         LET objection == CASE state.reason = "parse_failed" -> "parse_failed"
                            [] state.reason # "parse_failed" /\ ~GateOpen -> GateReason
                            [] OTHER -> IF passes THEN "ok" ELSE "weak"
         IN  /\ passes => state.evidence
             /\ state' = [Iterated EXCEPT
                            !.sufficient = (objection = "ok"),
                            !.reason     = objection,
                            !.error      = IF objection = "readiness" THEN "readiness" ELSE @]
             /\ Leave(IF objection = "ok" THEN "compose" ELSE "safe_stop")

(* Fault: the web is searched until it has something. *)
SearchesAgain(passes, written) == IF passes /\ written THEN "compose" ELSE "retrieve_web"

(* A web answer without a text is not used either. *)
AfterWeb(passes, written) == IF passes /\ written THEN "compose" ELSE "safe_stop"

RetrieveWeb ==
    /\ Enter("retrieve_web")
    /\ \E found, passes, written \in BOOLEAN :
         /\ passes => found
         /\ state.retrievals >= MaxRetrievals => ~found
         /\ state' = [Iterated EXCEPT
                        !.evidence   = found,
                        !.sufficient = passes,
                        !.reason     = IF passes THEN "ok" ELSE "weak",
                        !.source     = IF found THEN "web_search" ELSE @,
                        !.retrievals = IF state.retrievals < MaxRetrievals THEN @ + 1 ELSE @]
         /\ Leave(AfterWeb(passes, written))

ComposeAnswer ==
    /\ Enter("compose")
    /\ state' = [Iterated EXCEPT
                   !.answer = Fresh(IF state.source = "web_search" THEN "web" ELSE "model"),
                   !.source = IF request.route = "chitchat" THEN "chitchat" ELSE @]
    /\ Leave(IF request.route = "chitchat" THEN "finish" ELSE "verify")

-------------------------------------------------------------------------------
(* The verify node *)

Invalid(s, error) == [s EXCEPT !.valid = FALSE, !.error = error]
Validated(s)      == [s EXCEPT !.valid = TRUE,  !.error = "ok"]

(* The text that the checks of a step were made on. *)
Answered(text, marks) == [state EXCEPT !.answer = Marked(text, marks)]

(* A new text keeps the gate of the pass that it is checked in. *)
Rewritten(who) == [by |-> who, marks |-> {"gate"} \cap state.answer.marks]

Reject(error) ==
    /\ state' = Invalid(state, error)
    /\ review' = NoReview
    /\ Goto("decide")

Accept ==
    /\ state' = Validated(state)
    /\ review' = NoReview
    /\ Goto("decide")

MissingReviewer == Legal /\ request.enforce /\ ~(request.verifier /\ request.critic)

FinalGateOpen == Legal => GateOpen

(* The gate and the circuit breaker come first. *)
VerifyRefuses ==
    /\ Enter("verify")
    /\ ~FinalGateOpen \/ MissingReviewer
    /\ state' = Invalid(Iterated, IF ~FinalGateOpen /\ GateReason = "readiness"
                                    THEN "readiness" ELSE "other")
    /\ Leave("decide")

(* Then the citations of the answer, which need documents. *)
VerifyStructure ==
    /\ Enter("verify")
    /\ FinalGateOpen /\ ~MissingReviewer
    /\ LET gate == IF GateOpen THEN {"gate"} ELSE {}
       IN  \/ /\ state' = [Invalid(Iterated, "other") EXCEPT !.answer.marks = gate]
              /\ Leave("decide")
           \/ /\ state.evidence
              /\ state' = [Validated(Iterated) EXCEPT !.answer.marks = gate \cup {"structure"}]
              /\ Leave(IF Legal /\ request.verifier THEN "claims" ELSE "critic")

(* The verifier supports the claims of the draft, cannot say, or rejects   *)
(* them, with a correction of its own or without.                          *)
VerifyClaims ==
    /\ Enter("claims")
    /\ \E outcome \in SupportOutcomes :
         \/ /\ outcome.status = "verified"
            /\ state' = Answered(state.answer, {"claims"})
            /\ review' = [review EXCEPT !.supported = TRUE]
            /\ Goto("critic")
         \/ /\ outcome.status = "unsupported"
            /\ \/ Leave("verifier_correction")
               \/ Leave(IF request.critic THEN "critic_correction" ELSE "generation_repair")
            /\ UNCHANGED state
         \/ /\ outcome.status \notin {"verified", "unsupported"}
            /\ Reject("other")

VerifierRaises == Enter("claims") /\ Reject("other")

(* A correction counts when its citations hold and the verifier supports   *)
(* it; everything else that may happen to it loses it.                     *)
CorrectionHolds(who, corrected, next) ==
    /\ state' = [state EXCEPT !.answer = Marked(Rewritten(who),
                    {"structure", "claims"} \cup (IF corrected THEN {"critic"} ELSE {}))]
    /\ review' = [review EXCEPT !.supported = TRUE, !.corrected = corrected]
    /\ Goto(next)

VerifierCorrection ==
    /\ Enter("verifier_correction")
    /\ \/ CorrectionHolds("verifier", FALSE, "critic")
       \/ /\ Leave(IF request.critic THEN "critic_correction" ELSE "generation_repair")
          /\ UNCHANGED state

(* A correction by the critic is not read by the critic again. *)
CriticCorrection ==
    /\ Enter("critic_correction")
    /\ \/ CorrectionHolds("critic", TRUE, "critic")
       \/ Leave("generation_repair") /\ UNCHANGED state

(* A text that the model mended by itself is read by the critic. *)
GenerationRepair ==
    /\ Enter("generation_repair")
    /\ CorrectionHolds("repair", FALSE, "critic") \/ Reject("other")

-------------------------------------------------------------------------------
RunsCritic == Legal /\ request.critic /\ ~review.corrected

(* Whether the draft may survive a rewrite of the critic that fails. *)
LetsDraftLive(v) == ~v.nonresponsive /\ v.status = "verified"

(* What the critic has nothing to say about is accepted as it is. *)
PassCritic ==
    /\ Enter("critic") /\ ~RunsCritic
    /\ Accept

Blocks(v) ==
    \/ v.fatal
    \/ v.nonresponsive /\ v.corrected = "none"
    \/ v.corrected = "none" /\ ~v.approved /\ ~(review.supported /\ v.status = "verified")

(* A correction, even of the same words, is put in the place of the draft. *)
ReviewAnswer ==
    /\ Enter("critic") /\ RunsCritic
    /\ \E v \in CriticVerdicts :
         LET read == Marked(state.answer, {"critic"} \cup (IF v.fatal THEN {"fatal"} ELSE {}))
         IN  \/ /\ Blocks(v)
                /\ state' = Invalid([state EXCEPT !.answer = read], "other")
                /\ review' = NoReview
                /\ Goto("decide")
             \/ /\ ~Blocks(v) /\ v.corrected = "none"
                /\ state' = Validated([state EXCEPT !.answer = read])
                /\ review' = NoReview
                /\ Goto("decide")
             \/ /\ ~Blocks(v) /\ v.corrected # "none"
                /\ state' = [state EXCEPT !.answer = Marked(Rewritten("critic"), {"critic"})]
                /\ review' = [review EXCEPT !.draft = read, !.lenient = LetsDraftLive(v)]
                /\ Goto("recheck")

CriticRaises == Enter("critic") /\ RunsCritic /\ Reject("other")

(* A malformed rewrite gives the draft back; one that the verifier does    *)
(* not support does so only if the critic had nothing against the draft.   *)
KeepDraftIf(may) ==
    IF review.supported /\ may
      THEN /\ state' = Validated([state EXCEPT !.answer = review.draft])
           /\ review' = NoReview
           /\ Goto("decide")
      ELSE Reject("other")

AcceptRewrite(marks) ==
    /\ state' = Validated([state EXCEPT !.answer = Marked(@, marks)])
    /\ review' = NoReview
    /\ Goto("decide")

(* Fault: the claims of a rewrite are not verified again. *)
AcceptsRewrites == AcceptRewrite({"structure"})

(* The verifier may also raise. *)
RecheckClaims ==
    \/ \E outcome \in SupportOutcomes :
         IF outcome.status = "verified" THEN AcceptRewrite({"structure", "claims"})
                                        ELSE KeepDraftIf(review.lenient)
    \/ KeepDraftIf(review.lenient)

(* The citations of the rewrite are read first. *)
Recheck ==
    /\ Enter("recheck")
    /\ \/ KeepDraftIf(TRUE)
       \/ IF request.verifier THEN RecheckClaims ELSE AcceptRewrite({"structure"})

-------------------------------------------------------------------------------
CanRepair == state.repairs < MaxRepairs

(* route_after_verify *)
Decide ==
    /\ pc = "decide"
    /\ Leave(CASE state.iteration >= MaxIterations -> "safe_stop"
               [] state.iteration < MaxIterations /\ state.valid -> "finish"
               [] OTHER -> IF CanRepair THEN "repair" ELSE "safe_stop")
    /\ UNCHANGED state

RepairAnswer ==
    /\ Enter("repair")
    /\ state' = [Iterated EXCEPT !.repairs = @ + 1, !.answer = Fresh("repair")]
    /\ Leave("verify")

Finish ==
    /\ Enter("finish")
    /\ state' = [Iterated EXCEPT
                   !.termination = CASE @ # "" -> @
                                     [] @ = "" /\ state.source = "web_search" -> "research_complete"
                                     [] OTHER -> "answer_complete"]
    /\ Leave("finished")

(* Fault: the reason of the answer that did not hold is left in place. *)
TerminationKept == IF state.termination = "" THEN "insufficient_evidence" ELSE state.termination

(* What the user is told the run ended with. *)
StopReason ==
    CASE state.termination = "invalid_input" -> "invalid_input"
      [] state.termination # "invalid_input" /\ state.error \in {"", "ok", "readiness"} ->
           IF request.route = "out_of_scope" THEN "out_of_scope" ELSE "insufficient_evidence"
      [] OTHER -> IF request.route = "research_web" /\ ~state.evidence
                    THEN "insufficient_evidence" ELSE "citation_verification_failed"

(* Rejected evidence is not shown as a source. *)
SafeStop ==
    /\ Enter("safe_stop")
    /\ state' = [Iterated EXCEPT !.answer = Fresh("program"), !.termination = StopReason,
                                 !.source = "error", !.evidence = FALSE]
    /\ Leave("stopped")

-------------------------------------------------------------------------------
Node ==
    \/ ValidateInput \/ LoadContext \/ UnderstandTask \/ AskUser
    \/ CacheMiss \/ CacheHit \/ AnswerCache \/ RetrieveLegal \/ EvaluateEvidence \/ RetrieveWeb
    \/ ComposeAnswer \/ VerifyRefuses \/ VerifyStructure \/ VerifyClaims \/ VerifierRaises
    \/ VerifierCorrection \/ CriticCorrection \/ GenerationRepair
    \/ PassCritic \/ ReviewAnswer \/ CriticRaises \/ Recheck
    \/ Decide \/ RepairAnswer \/ Finish \/ SafeStop

Ended == {"finished", "stopped", "asked", "raised"}

Done == pc \in Ended /\ UNCHANGED workflowVars

WorkflowNext == Node \/ NodeRaises \/ ReplaceManifest \/ Done

(* Every call that a node awaits returns or raises. *)
WorkflowSpec == WorkflowInit /\ [][WorkflowNext]_workflowVars /\ WF_workflowVars(Node)

-------------------------------------------------------------------------------
(* What a text of this run has to go through. *)
Required ==
    {"structure"} \cup (IF Legal /\ request.gated    THEN {"gate"}   ELSE {})
                  \cup (IF Legal /\ request.verifier THEN {"claims"} ELSE {})
                  \cup (IF Legal /\ request.critic   THEN {"critic"} ELSE {})

(* The text that is delivered is, word for word, one whose citations were  *)
(* read, whose claims the verifier supported and which the critic read or  *)
(* wrote without calling it fatal, in a pass that the review manifest      *)
(* allowed, whether it came from the model, the cache, a correction or a   *)
(* repair.                                                                 *)
DeliveredIsChecked ==
    pc = "finished" /\ request.route # "chitchat" =>
        /\ Required \subseteq state.answer.marks
        /\ "fatal" \notin state.answer.marks

(* A run that is stopped shows no rejected text and no rejected source,    *)
(* and does not end with the reason of an answer, not even when a cached   *)
(* one was found on the way.                                               *)
StopsShowNothing ==
    /\ pc = "stopped" =>
          /\ state.answer.by = "program" /\ ~state.evidence /\ state.source = "error"
          /\ state.termination \in {"invalid_input", "insufficient_evidence", "out_of_scope",
                                    "citation_verification_failed"}
    /\ pc = "finished" =>
          /\ (state.termination = "cache_hit") = (state.source = "cache")
          /\ (state.termination = "research_complete") = (state.source = "web_search")

(* Every run ends, with its text, a question, a stop or an error. *)
WorkflowEnds == <>(pc \in Ended)
===============================================================================
