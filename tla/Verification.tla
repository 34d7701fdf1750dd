----------------------------- MODULE Verification -----------------------------
(***************************************************************************)
(* The replies of the two reviewers of an answer, as the program reads     *)
(* them: the claim verifier (StructuredClaimSupportVerifier.verify) and    *)
(* the legal critic (LegalCriticReviewer.review) of tools/verifier.py.     *)
(* Both ask a model for a structured reply, which may contradict itself,   *)
(* and put it in order before anyone acts on it.                           *)
(***************************************************************************)
EXTENDS Integers, FiniteSets, FiniteSetsExt

(* VerificationStatus, with its long names cut short. *)
Statuses == {"verified", "insufficient", "unsupported", "unavailable"}

(* What a reason code may say, as far as the program looks at it. *)
Reasons == {"ok", "outage", "no_evidence", "other"}

(* A status is never better than its reason; only "verified" is looked at. *)
CanonicalStatus(status, supported, reason) ==
    CASE status \notin Statuses  -> "unavailable"
      [] status \in Statuses \ {"verified"} -> status
      [] OTHER -> CASE reason = "outage"      -> "unavailable"
                    [] reason = "no_evidence" -> "insufficient"
                    [] OTHER -> IF supported THEN "verified" ELSE "unsupported"

-------------------------------------------------------------------------------
(* The claim verifier *)

(* A reply counts and lists the claims it rejects; "names" is the claim    *)
(* that its reason speaks of in words, 0 if it speaks of none.             *)
ClaimReplies(claims) ==
    [supported : BOOLEAN, count : 0 .. claims, indices : SUBSET (0 .. claims),
     names : 0 .. claims, status : Statuses, reason : Reasons]

(* A single index that is one less than the claim named in words is meant  *)
(* to count from zero.                                                     *)
RejectedIndices(reply, claims) ==
    IF reply.names \in 1 .. claims /\ reply.indices = {reply.names - 1}
      THEN {reply.names}
      ELSE reply.indices

(* The reply in order: a claim that a source states word for word is no    *)
(* longer rejected, and a reply that rejects any claim supports nothing.   *)
Support(reply, claims, explicit) ==
    LET rejected == RejectedIndices(reply, claims)
        removed  == rejected \cap explicit
        left     == rejected \ explicit
        fewer    == IF removed = {} THEN reply.count
                    ELSE Max({Cardinality(left), reply.count - Cardinality(removed)})
        cleared  == removed # {} /\ fewer = 0 /\ left = {}
        count    == IF fewer = 0 THEN Cardinality(left) ELSE fewer
        claimed  == reply.supported \/ cleared
        accepts  == claimed /\ count = 0
        reason   == CASE claimed /\ ~accepts -> "other"
                      [] cleared /\ accepts  -> "ok"
                      [] OTHER               -> reply.reason
    IN  [status  |-> CanonicalStatus(IF cleared THEN "verified" ELSE reply.status,
                                     accepts, reason),
         reason  |-> reason,
         count   |-> count,
         indices |-> left]

(* An exception counts as an outage; without documents nothing is asked,   *)
(* and there is no evidence.                                               *)
VerifierOutage == [status |-> "unavailable", reason |-> "outage", count |-> 1, indices |-> {}]

(* What those who call the verifier look at. *)
Outcome(support) == [status |-> support.status, noEvidence |-> support.reason = "no_evidence"]

SupportOutcomes ==
    {Outcome(VerifierOutage)} \cup
    {Outcome(Support(r, 1, e)) : r \in ClaimReplies(1), e \in SUBSET {1}}

-------------------------------------------------------------------------------
(* The critic *)

(* A corrected answer is absent, the reviewed text again, or a new text. *)
Corrections == {"none", "same", "new"}

CriticReplies ==
    [approved : BOOLEAN, fatal : BOOLEAN, nonresponsive : BOOLEAN,
     corrected : Corrections, status : Statuses, reason : Reasons]

Reviewed(reply) ==
    LET status == CanonicalStatus(reply.status, reply.approved /\ ~reply.fatal, reply.reason)
    IN  [approved      |-> reply.approved /\ status = "verified",
         fatal         |-> reply.fatal \/ status \in {"unavailable", "insufficient"},
         nonresponsive |-> reply.nonresponsive,
         corrected     |-> reply.corrected,
         status        |-> status]

(* The critic is switched off, has nothing to read, or fails. *)
CriticOutage ==
    [approved |-> FALSE, fatal |-> TRUE, nonresponsive |-> FALSE, corrected |-> "none",
     status |-> "unavailable"]

CriticVerdicts == {CriticOutage} \cup {Reviewed(r) : r \in CriticReplies}
===============================================================================
