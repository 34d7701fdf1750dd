------------------------------ MODULE AgentLoop ------------------------------
(***************************************************************************)
(* The reasoning loop of pipeline-agent: stream of                         *)
(* VietnameseLegalAgentRunner (agent/agent_loop.py) with the budgets of    *)
(* AgentBudgetController (agent/planner.py) and the tools of               *)
(* agent/tool_registry.py.                                                 *)
(*                                                                         *)
(* The model is free: at every step it writes an answer or asks for any    *)
(* tool calls, with any arguments, the same call twice included.  A tool   *)
(* may succeed, find nothing, fail or time out.  The user may press Stop   *)
(* between any two steps.  A document is its identity (source and id), an  *)
(* argument the query that the model wrote.                                *)
(***************************************************************************)
EXTENDS AgentResults, Sequences, FiniteSets, SequencesExt

CONSTANTS
    MaxSteps,        \* AgentRunConfig.max_steps
    MaxSearchCalls,  \* AgentRunConfig.max_search_calls
    MaxWebCalls,     \* AgentRunConfig.max_web_calls
    Rewrites,        \* queries that a model may write for a search
    Hints,           \* retrieval_queries: rewrites of the understanding stage
    Provisions,       \* identities of the documents that a search may find
    Tools,           \* tools that the model asks for
    MaxTold,         \* documents of an observation that the model is shown
    MaxFound,        \* bound: documents that one search finds
    MaxAtOnce,        \* bound: tool calls in one response of the model
    MaxRequests      \* bound: tool calls in a run

ASSUME BudgetsAssumption == 
    {MaxSteps, MaxSearchCalls, MaxWebCalls, MaxTold, MaxFound, MaxAtOnce, MaxRequests} \subseteq Nat
ASSUME HintsAssumption   == Hints \in Seq(Rewrites)

AllTools == {"search_legal_provisions", "search_web_official", "lookup_answer_cache",
             "load_conversation_context", "ask_user_for_clarification", "unknown"}
SearchTools == {"search_legal_provisions", "search_web_official"}

ASSUME ToolsAssumption == Tools \subseteq AllTools

VARIABLES
    settings,    \* the arguments of the run: legal evidence required, step limit,
                 \* and whether the query asks about rights or outcomes
    cancelled,   \* whether the user has pressed Stop
    pc,          \* next: "step", "reason", "calls", "execute", "done"
    step,        \* index of the current step
    pending,     \* calls of the current response not yet dealt with
    asked,       \* how many calls the last response of the model asked for
    answered,    \* how many of them the messages answer
    trajectory,  \* AgentStep records: tool, arguments, allowed
    evidence,    \* all_evidence
    cited,       \* citation indices that the model was told, per document
    cacheHit,
    outcome      \* the result that agent_complete carries

loopVars == <<settings, cancelled, pc, step, pending, asked, answered,
              trajectory, evidence, cited, cacheHit, outcome>>

NoResult == Result("none", "none", "none", FALSE)

(* The caller's max_steps is brought between 1 and the configured maximum. *)
StepLimits == 1 .. MaxSteps

LoopInit ==
    /\ settings \in [legal : BOOLEAN, limit : StepLimits, substantive : BOOLEAN]
    /\ cancelled = FALSE
    /\ pc = "step"
    /\ step = 0
    /\ pending = << >> /\ asked = 0 /\ answered = 0
    /\ trajectory = << >>
    /\ evidence = << >> /\ cited = {} /\ cacheHit = FALSE
    /\ outcome = NoResult

HasEvidence == evidence # << >>

(* agent_complete is yielded and the loop returns. *)
Complete(result) ==
    /\ outcome' = result
    /\ pc' = "done"
    /\ UNCHANGED <<settings, cancelled, step, pending, asked, answered,
                   trajectory, evidence, cited, cacheHit>>

(* Fault: the loop goes on without counting. *)
SameStep(n) == n

(* for step in range(step_limit) *)
NextStep(n) == n + 1

(***************************************************************************)
(* Reason                                                                  *)
(***************************************************************************)
BeginStep ==
    /\ pc = "step"
    /\ step < settings.limit
    /\ IF cancelled
         THEN Complete(CancelledResult(HasEvidence))
         ELSE /\ pc' = "reason"
              /\ UNCHANGED <<settings, cancelled, step, pending, asked, answered,
                             trajectory, evidence, cited, cacheHit, outcome>>

StepsExhausted ==
    /\ pc = "step"
    /\ step = settings.limit
    /\ Complete(ExhaustedResult(HasEvidence))

ModelFails ==
    /\ pc = "reason"
    /\ Complete(ErrorResult(HasEvidence))

(* A draft without any source, on a route that needs legal evidence, is    *)
(* put aside while a step is left in which the model can search.  The loop *)
(* does not look into a draft.                                             *)
MustSearchFirst ==
    ~HasEvidence /\ ~cacheHit /\ step < settings.limit - 1 /\ settings.legal

ModelAnswers ==
    /\ pc = "reason"
    /\ IF MustSearchFirst
         THEN /\ pc' = "step"
              /\ step' = NextStep(step)
              /\ asked' = 0 /\ answered' = 0
              /\ UNCHANGED <<settings, cancelled, pending, trajectory,
                             evidence, cited, cacheHit, outcome>>
         ELSE \E x \in {"draft", "empty"} :
                 Complete(AnswerResult(cacheHit, x, HasEvidence))

(* _prepare_legal_search_args: the hints come first, and at most two       *)
(* queries accompany the words of the user.                                *)
SearchArguments(query) ==
    LET kept == IF query \in Range(Hints) THEN Hints ELSE Append(Hints, query)
    IN  SubSeq(kept, 1, IF Len(kept) < 2 THEN Len(kept) ELSE 2)

(* What the model asks for, as the loop will execute it. *)
Prepared(tool, query) ==
    [tool |-> tool, query |-> query,
     arg |-> IF tool = "search_legal_provisions" THEN SearchArguments(query) ELSE <<query>>]

ModelRequests ==
    /\ pc = "reason"
    /\ \E n \in {k \in 1 .. MaxAtOnce : Len(trajectory) + k <= MaxRequests} : \E calls \in [1 .. n -> Tools \X Rewrites] :
          /\ pending' = [i \in 1 .. n |-> Prepared(calls[i][1], calls[i][2])]
          /\ asked' = n
    /\ answered' = 0
    /\ pc' = "calls"
    /\ UNCHANGED <<settings, cancelled, step, trajectory, evidence, cited, cacheHit, outcome>>

(***************************************************************************)
(* Act and observe                                                         *)
(***************************************************************************)
CallsOf(tools) == Cardinality({i \in DOMAIN trajectory : trajectory[i].tool \in tools})

(* Fault: a call is compared with the one before it only. *)
RepeatsLast(c) ==
    /\ trajectory # << >>
    /\ Last(trajectory).tool = c.tool
    /\ Last(trajectory).arg = c.arg

(* Loop detection: the same tool with the same arguments, denied or not. *)
Repeats(c) ==
    \E i \in 1 .. Len(trajectory) : trajectory[i].tool = c.tool /\ trajectory[i].arg = c.arg

(* A denied search uses up the budget as an executed one does. *)
WithinBudget(c) ==
    /\ c.tool \in SearchTools => CallsOf(SearchTools) < MaxSearchCalls
    /\ c.tool = "search_web_official" => CallsOf({"search_web_official"}) < MaxWebCalls

MayRun(c) == ~Repeats(c) /\ WithinBudget(c)

Logged(c, ok) ==
    trajectory' = Append(trajectory, [tool |-> c.tool, arg |-> c.arg, allowed |-> ok])

(* Fault: a denied call gets no message. *)
WithoutDenial(n) == n

(* The tool message that says why a call was denied answers it. *)
WithDenial(n) == n + 1

StartCall ==
    /\ pc = "calls"
    /\ pending # << >>
    /\ IF cancelled
         THEN Complete(CancelledResult(HasEvidence))
         ELSE /\ IF MayRun(Head(pending))
                   THEN /\ pc' = "execute"
                        /\ UNCHANGED <<pending, answered, trajectory>>
                   ELSE /\ Logged(Head(pending), FALSE)
                        /\ pending' = Tail(pending)
                        /\ answered' = WithDenial(answered)
                        /\ UNCHANGED pc
              /\ UNCHANGED <<settings, cancelled, step, asked, evidence, cited, cacheHit, outcome>>

CallsHandled ==
    /\ pc = "calls"
    /\ pending = << >>
    /\ pc' = "step"
    /\ step' = NextStep(step)
    /\ UNCHANGED <<settings, cancelled, pending, asked, answered,
                   trajectory, evidence, cited, cacheHit, outcome>>

(* What a search finds: a list of documents, one of them twice perhaps. *)
Findings == {<< >>} \cup UNION {[1 .. n -> Provisions] : n \in 1 .. MaxFound}

(* A search reports the documents that it finds, a hit of the cache those  *)
(* of the cached answer; a tool that fails, times out or does not exist     *)
(* reports none.                                                            *)
Observations(tool) ==
    [docs : IF tool \in SearchTools THEN Findings ELSE {<< >>}, hit : {FALSE}] \cup
    [docs : IF tool = "lookup_answer_cache" THEN Findings ELSE {}, hit : {TRUE}]

(* Fault: every search numbers its documents from one. *)
NumberedLocally(known, docs, d) == CHOOSE i \in 1 .. Len(docs) : docs[i] = d

(* _append_evidence_documents: distinct documents, in the order found. *)
Appended(known, docs) ==
    LET all[i \in 0 .. Len(docs)] ==
          IF i = 0 THEN known
          ELSE IF docs[i] \in Range(all[i - 1]) THEN all[i - 1] ELSE Append(all[i - 1], docs[i])
    IN  all[Len(docs)]

(* Its result: the place of a document in all_evidence. *)
CitationIndex(known, docs, d) ==
    LET all == Appended(known, docs) IN CHOOSE i \in 1 .. Len(all) : all[i] = d

(* The documents that the tool message shows with a number: the first ones *)
(* of a search.  Those of a cached answer have none there.                 *)
ShownToModel(seen) ==
    IF seen.hit THEN {} ELSE {seen.docs[i] : i \in {k \in 1 .. Len(seen.docs) : k <= MaxTold}}

(* A question that asks about rights or outcomes is to be searched before  *)
(* the user is asked back, in the first two steps.                         *)
InsistsOnSearch(known) == settings.substantive /\ step < 2 /\ known = << >>

FinishCall ==
    LET c == Head(pending)
    IN  /\ pc = "execute"
        /\ Logged(c, TRUE)
        /\ UNCHANGED <<settings, cancelled, step, asked>>
        /\ \E seen \in Observations(c.tool) :
              IF cancelled
                THEN /\ outcome' = CancelledResult(HasEvidence)
                     /\ pc' = "done"
                     /\ UNCHANGED <<pending, answered, evidence, cited, cacheHit>>
                ELSE /\ evidence' = Appended(evidence, seen.docs)
                     /\ cited' = cited \cup {<<d, CitationIndex(evidence, seen.docs, d)>> :
                                                d \in ShownToModel(seen)}
                     /\ cacheHit' = (cacheHit \/ seen.hit)
                     /\ IF c.tool = "ask_user_for_clarification" /\ ~InsistsOnSearch(evidence')
                          THEN /\ outcome' = QuestionResult
                               /\ pc' = "done"
                               /\ UNCHANGED <<pending, answered>>
                          ELSE /\ pending' = Tail(pending)
                               /\ answered' = answered + 1
                               /\ pc' = "calls"
                               /\ UNCHANGED outcome

PressStopLoop ==
    /\ ~cancelled
    /\ pc # "done"
    /\ cancelled' = TRUE
    /\ UNCHANGED <<settings, pc, step, pending, asked, answered,
                   trajectory, evidence, cited, cacheHit, outcome>>

RunnerStep ==
    \/ BeginStep
    \/ StepsExhausted
    \/ ModelFails
    \/ ModelAnswers
    \/ ModelRequests
    \/ StartCall
    \/ CallsHandled
    \/ FinishCall

LoopNext == RunnerStep \/ PressStopLoop

LoopSpec == LoopInit /\ [][LoopNext]_loopVars
-----------------------------------------------------------------------------
(***************************************************************************)
(* Properties                                                              *)
(***************************************************************************)
ExecutedWith(tools) ==
    {i \in DOMAIN trajectory : trajectory[i].allowed /\ trajectory[i].tool \in tools}

(* Whatever the model asks for, in however many responses, no call is      *)
(* executed twice with the same arguments, and the searches and the web    *)
(* searches that are executed stay within their budgets.                   *)
WorkIsBounded ==
    /\ \A i, j \in ExecutedWith(AllTools) :
          trajectory[i].tool = trajectory[j].tool /\ trajectory[i].arg = trajectory[j].arg => i = j
    /\ Cardinality(ExecutedWith(SearchTools)) <= MaxSearchCalls
    /\ Cardinality(ExecutedWith({"search_web_official"})) <= MaxWebCalls

(* The model is called only when its messages answer every tool call of    *)
(* its last response, the denied ones and the recorded clarifications      *)
(* included; a chat model refuses any other conversation.                  *)
EveryCallIsAnswered == pc = "reason" => answered = asked

(* Every number that stands beside a document in the messages to the model *)
(* is the place of that document in the evidence by which the answer is    *)
(* checked and its citations are shown, however many searches found it     *)
(* again and however many documents a cached answer brought in between.    *)
CitationsStayStable ==
    \A p \in cited : p[2] <= Len(evidence) /\ evidence[p[2]] = p[1]

(* What is left to do: the steps after this one, each with as many calls   *)
(* as a response may have, and the rest of this one.                       *)
WorkOfStep == 2 * MaxAtOnce + 3

WorkLeft ==
    CASE pc = "done" -> 0
      [] pc = "step" -> (settings.limit - step) * WorkOfStep + 2 * MaxAtOnce + 3
      [] pc = "reason" -> (settings.limit - step) * WorkOfStep + 2 * MaxAtOnce + 2
      [] pc = "calls" -> (settings.limit - step) * WorkOfStep + 2 * Len(pending) + 1
      [] pc = "execute" -> (settings.limit - step) * WorkOfStep + 2 * Len(pending)

(* The loop comes to its end, whatever the model asks for: each of its     *)
(* steps leaves less to do, and only a loop that is done has nothing left. *)
LoopRunsOut ==
    [][/\ RunnerStep => WorkLeft' \in 0 .. WorkLeft - 1
       /\ pc' # "done" => WorkLeft' > 0]_loopVars
=============================================================================
