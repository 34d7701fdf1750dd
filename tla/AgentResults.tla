---------------------------- MODULE AgentResults ----------------------------
(***************************************************************************)
(* What the parts of pipeline-agent hand to each other: the result of the  *)
(* reasoning loop (AgentRunResult of agent/agent_loop.py) and the verdict  *)
(* of the output guardrail (check_output of agent/guardrails.py).          *)
(* AgentLoop builds its outcome with these operators, OutputGuard is       *)
(* proved to give no other verdict, and AgentStream is checked against     *)
(* every result and verdict that they allow.                               *)
(***************************************************************************)
EXTENDS Naturals

(* Texts are told apart by who wrote them: "canned" by the program,        *)
(* "question" and "draft" by the model, "composed" and "corrected" by the  *)
(* model when it answers from evidence or mends a draft.  A text of        *)
(* "placeholders" has nothing but markers like [n], which are stripped.    *)
Result(reason, source, text, evidence) ==
    [reason |-> reason, source |-> source, text |-> text, evidence |-> evidence,
     awaiting |-> reason = "awaiting_user_input"]

CancelledResult(evidence) == Result("user_cancelled", "error", "none", evidence)
ErrorResult(evidence)     == Result("error", "error", "canned", evidence)
QuestionResult            == Result("awaiting_user_input", "follow_up", "question", FALSE)
ExhaustedResult(evidence) == Result("insufficient_evidence", "error", "canned", evidence)

AnswerResult(cacheHit, text, evidence) ==
    IF cacheHit THEN Result("cache_hit", "cache", text, evidence)
                ELSE Result("answer_complete", "legal", text, evidence)

(* Everything the reasoning loop may return, which does not tell drafts    *)
(* from placeholders; a cached answer comes with evidence or without.      *)
LoopResults ==
    UNION {{QuestionResult, CancelledResult(e), ErrorResult(e), ExhaustedResult(e)} \cup
           {AnswerResult(h, x, e) : h \in BOOLEAN, x \in {"draft", "placeholders", "empty"}} :
           e \in BOOLEAN}

(* The two-step retrieval chain: an answer counts as complete only with    *)
(* sources and text, and is of source "legal" either way.                  *)
StandardResults ==
    {Result(IF e /\ x # "empty" THEN "answer_complete" ELSE "insufficient_evidence", "legal", x, e) :
        e \in BOOLEAN, x \in {"draft", "placeholders", "empty"}}

Verdict(passed, reason, text) == [passed |-> passed, reason |-> reason, text |-> text]

(* Why check_output may hold a text back. *)
Refusals(text) ==
    CASE text = "empty"        -> {"rejected"}
      [] text = "placeholders" -> {"insufficient_evidence", "unavailable"}
      [] OTHER -> {"insufficient_evidence", "unsupported_claim", "unavailable", "rejected"}

(* What it may release of a text: that text or its correction, and of      *)
(* placeholders the nothing that is left of them.                          *)
Releases(text, evidence) ==
    IF text = "placeholders" THEN {"empty"} ELSE {text} \cup (IF evidence THEN {"corrected"} ELSE {})

(* What check_output may say of a text: released as it is or corrected, or *)
(* held back with a canned text and a reason.                              *)
VerdictsOn(text, evidence, requireEvidence) ==
    {Verdict(FALSE, r, "canned") : r \in Refusals(text)} \cup
    (IF text # "empty" /\ (evidence \/ ~requireEvidence)
       THEN {Verdict(TRUE, "ok", x) : x \in Releases(text, evidence)}
       ELSE {})
=============================================================================
