------------------------------ MODULE OutputGuard ------------------------------
(***************************************************************************)
(* check_output of agent/guardrails.py: the last gate of a drafted answer. *)
(* The draft is checked for its citations, then by the claim verifier,     *)
(* then by the critic, whose correction is a new answer and is checked     *)
(* again, with one bounded retry.  The function runs without sharing any   *)
(* state; each action is the stretch between two of its awaits.            *)
(***************************************************************************)
EXTENDS Verification, AgentResults

(* policy: what the route asks of an answer; enforce: the safety circuit   *)
(* breaker; verifier, critic: whether the dependency is configured.        *)
GuardRequests ==
    [text : {"draft", "empty", "placeholders"}, docs : BOOLEAN, require : BOOLEAN,
     policy : {"none", "legal", "web"}, enforce : BOOLEAN,
     verifier : BOOLEAN, critic : BOOLEAN]

(* Texts of a check: the draft, the critic's correction, its second one. *)
Candidates == {"draft", "corrected", "retried"}

VARIABLES
    guarded,
    check,       \* the check that comes next
    candidate,   \* final_answer
    flagged,     \* verifier_feedback is there
    supported,   \* claim_support_passed
    keep,        \* can_keep_verified_draft
    released,    \* the text that is let through, or "none"
    verdict,     \* what is returned
    trusted      \* ghost: texts that a reviewer stood behind

guardVars == <<guarded, check, candidate, flagged, supported, keep, released, verdict, trusted>>

NoVerdict == Verdict(FALSE, "none", "none")

GuardInit ==
    /\ guarded \in GuardRequests
    /\ check = "start"
    /\ candidate = "draft"
    /\ flagged = FALSE
    /\ supported = FALSE
    /\ keep = FALSE
    /\ released = "none"
    /\ verdict = NoVerdict
    /\ trusted = {}

-------------------------------------------------------------------------------
(* Legal answers are reviewed, all others only have their citations read.  *)
LegalPolicy    == guarded.policy = "legal"
MustBeReviewed == LegalPolicy /\ guarded.enforce
AsksVerifier   == LegalPolicy /\ guarded.verifier
AsksCritic     == LegalPolicy /\ guarded.critic

Proceed(next) == check' = next /\ UNCHANGED <<released, verdict>>

Stop(reason) ==
    /\ check' = "done"
    /\ verdict' = Verdict(FALSE, reason, "canned")
    /\ UNCHANGED released

(* A text of placeholders only is empty once they are stripped. *)
Release(text) ==
    /\ check' = "done"
    /\ released' = text
    /\ verdict' = Verdict(TRUE, "ok",
                          CASE text # "draft" -> "corrected"
                            [] guarded.text = "draft" -> "draft"
                            [] OTHER -> "empty")

(* The reason that a status of the verifier is reported with. *)
ReasonOf(status) ==
    CASE status = "insufficient" -> "insufficient_evidence"
      [] status = "unsupported"  -> "unsupported_claim"
      [] OTHER                   -> "unavailable"

-------------------------------------------------------------------------------
LacksEvidence == ~guarded.docs /\ guarded.require
ReviewerMissing == MustBeReviewed /\ ~(guarded.verifier /\ guarded.critic)

(* What can be said before any reviewer is asked.  With documents the      *)
(* citations of a draft are completed; one that still has none is let      *)
(* through, and only an empty one can have none then.                      *)
Start ==
    /\ check = "start"
    /\ \/ guarded.text = "empty" /\ Stop("rejected")
       \/ guarded.text # "empty" /\ ReviewerMissing /\ Stop("unavailable")
       \/ /\ guarded.text # "empty" /\ ~ReviewerMissing
          /\ \/ LacksEvidence /\ Stop("insufficient_evidence")
             \/ ~LacksEvidence /\ (~guarded.docs \/ guarded.text = "placeholders") /\ Release("draft")
             \/ guarded.docs /\ guarded.text # "placeholders" /\ Proceed("structure")
    /\ UNCHANGED <<guarded, candidate, flagged, supported, keep, trusted>>

(* verify_citations or verify_web_citations; a claim without a citation or *)
(* an article that is not in the evidence is waived.                       *)
CheckStructure ==
    /\ check = "structure"
    /\ \/ Stop("rejected")
       \/ Proceed("claims")
    /\ UNCHANGED <<guarded, candidate, flagged, supported, keep, trusted>>

-------------------------------------------------------------------------------
(* A rejected draft is left to the critic, unless there is no evidence to  *)
(* judge it by.                                                            *)
Delegated(outcome) ==
    /\ guarded.critic
    /\ \/ outcome.status = "unsupported"
       \/ outcome.status = "insufficient" /\ ~outcome.noEvidence

CheckClaims ==
    /\ check = "claims"
    /\ IF AsksVerifier
         THEN \E outcome \in SupportOutcomes :
                /\ IF outcome.status = "verified" \/ Delegated(outcome)
                     THEN Proceed("critic")
                     ELSE Stop(ReasonOf(outcome.status))
                /\ supported' = (outcome.status = "verified")
                /\ flagged'   = Delegated(outcome)
                /\ trusted'   = IF outcome.status = "verified" THEN {"draft"} ELSE {}
         ELSE Proceed("critic") /\ UNCHANGED <<supported, flagged, trusted>>
    /\ UNCHANGED <<guarded, candidate, keep>>

(* The verifier raises. *)
ClaimsCheckRaises ==
    /\ check = "claims" /\ AsksVerifier
    /\ Stop("unavailable")
    /\ UNCHANGED <<guarded, candidate, flagged, supported, keep, trusted>>

-------------------------------------------------------------------------------
(* A supported draft outlives a correction that fails, if the critic finds *)
(* no fatal error in it and it answers the question.                       *)
Keepable(v) == supported /\ ~v.fatal /\ ~v.nonresponsive

Refuses(v) ==
    \/ v.fatal
    \/ v.nonresponsive /\ v.corrected = "none"
    \/ ~v.approved /\ v.corrected = "none" /\ ~supported

(* A text is trusted when it is approved, or is the critic's correction of *)
(* itself.                                                                 *)
StandsBehindDraft(v) == v.approved \/ v.corrected = "same"

Review ==
    /\ check = "critic"
    /\ IF AsksCritic
         THEN \E v \in CriticVerdicts :
                /\ \/ v.status = "unavailable"  /\ Stop("unavailable")
                   \/ v.status = "insufficient" /\ Stop("insufficient_evidence")
                   \/ /\ v.status \notin {"unavailable", "insufficient"}
                      /\ \/ Refuses(v) /\ Stop("rejected")
                         \/ ~Refuses(v) /\ v.corrected = "new" /\ Proceed("recheck")
                         \/ ~Refuses(v) /\ v.corrected # "new" /\ Release("draft")
                /\ candidate' = IF v.corrected = "new" THEN "corrected" ELSE "draft"
                /\ keep'      = Keepable(v)
                /\ trusted'   = trusted \cup (IF StandsBehindDraft(v) THEN {"draft"} ELSE {})
         ELSE Release("draft") /\ UNCHANGED <<candidate, keep, trusted>>
    /\ UNCHANGED <<guarded, flagged, supported>>

(* The critic raises: without the circuit breaker the draft goes out. *)
ReviewRaises ==
    /\ check = "critic" /\ AsksCritic
    /\ IF MustBeReviewed THEN Stop("unavailable") ELSE Release("draft")
    /\ UNCHANGED <<guarded, candidate, flagged, supported, keep, trusted>>

-------------------------------------------------------------------------------
(* A correction that fails leaves the draft, if that may be kept. *)
KeepDraftOr(reason) == IF keep THEN Release("draft") ELSE Stop(reason)

(* Fault: a correction of a supported draft is let through as it is. *)
VerifiesFlagged == AsksVerifier /\ flagged

VerifiesCorrection == AsksVerifier

(* Only the correction of a flagged draft gets a second attempt. *)
MayRetry == flagged /\ guarded.critic /\ ~keep

(* The citations of the correction are read, and its claims verified. *)
RecheckStructureFails ==
    /\ check = "recheck"
    /\ KeepDraftOr("rejected")
    /\ UNCHANGED <<guarded, candidate, flagged, supported, keep, trusted>>

CheckCorrection ==
    /\ check = "recheck"
    /\ IF VerifiesCorrection
         THEN \E outcome \in SupportOutcomes :
                /\ \/ outcome.status = "verified" /\ Release("corrected")
                   \/ outcome.status = "unavailable" /\ KeepDraftOr("unavailable")
                   \/ /\ outcome.status \notin {"verified", "unavailable"}
                      /\ \/ ~MayRetry /\ KeepDraftOr(ReasonOf(outcome.status))
                         \/ MayRetry /\ Proceed("retry")
                         \* the critic raises or has no other text
                         \/ MayRetry /\ Stop(ReasonOf(outcome.status))
                /\ trusted' = IF outcome.status = "verified" THEN trusted \cup {"corrected"} ELSE trusted
         ELSE Release("corrected") /\ UNCHANGED trusted
    /\ UNCHANGED <<guarded, candidate, flagged, supported, keep>>

RecheckRaises ==
    /\ check = "recheck" /\ VerifiesCorrection
    /\ KeepDraftOr("unavailable")
    /\ UNCHANGED <<guarded, candidate, flagged, supported, keep, trusted>>

(* The second correction: whatever the critic says of it besides, it is    *)
(* released if its citations and its claims hold.                          *)
Retry ==
    /\ check = "retry"
    /\ candidate' = "retried"
    /\ \/ Stop("rejected") /\ UNCHANGED trusted
       \/ \E outcome \in SupportOutcomes :
            /\ IF outcome.status = "verified" THEN Release("retried")
                                              ELSE Stop(ReasonOf(outcome.status))
            /\ trusted' = IF outcome.status = "verified" THEN trusted \cup {"retried"} ELSE trusted
    /\ UNCHANGED <<guarded, flagged, supported, keep>>

RetryRaises ==
    /\ check = "retry"
    /\ candidate' = "retried"
    /\ Stop("unavailable")
    /\ UNCHANGED <<guarded, flagged, supported, keep, trusted>>

GuardNext ==
    \/ Start \/ CheckStructure \/ CheckClaims \/ ClaimsCheckRaises \/ Review \/ ReviewRaises
    \/ RecheckStructureFails \/ CheckCorrection \/ RecheckRaises \/ Retry \/ RetryRaises

GuardSpec == GuardInit /\ [][GuardNext]_guardVars

-------------------------------------------------------------------------------
GuardPhases == {"start", "structure", "claims", "critic", "recheck", "retry", "done"}

(* The verdict is one of those that the agent stream is checked against:   *)
(* nothing empty or without the evidence it needs is let through, and a    *)
(* correction only of an answer that had documents.                        *)
KeepsContract ==
    check = "done" => verdict \in VerdictsOn(guarded.text, guarded.docs, guarded.require)

(* With the circuit breaker on, a legal answer that is let through was     *)
(* stood behind by a reviewer in the very words that go out: the verifier  *)
(* supported it, the critic approved it or gave it back as its correction. *)
(* A draft that the verifier rejected never goes out because a step after  *)
(* it failed.                                                              *)
ReleasedIsTrusted ==
    released # "none" /\ MustBeReviewed /\ guarded.docs /\ guarded.text = "draft"
        => released \in trusted

(* A rewrite that fails does not cost the user a draft that had passed: if *)
(* the verifier supported the draft and the critic found neither a fatal   *)
(* error nor a missed question, something is let through in the end.       *)
RewritesCostNoDraft ==
    check = "done" /\ keep => verdict.passed
===============================================================================
