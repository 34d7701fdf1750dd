# Verification of the Vietnam legal agent

TLA+ modules about the program in this repository, the instances that TLC checks
and the theorems that TLAPS proves. `PROJECT.json` says for every definition which
lines of the source it stands for, and lists the hazards of the code at their lines with
the properties that watch them; this file says how the parts fit together.

    tlc -config Services.cfg MCServices.tla     # one run
    tlapm TurnStoreProofs.tla                   # one proof module

## 1. The system

The program answers legal questions over HTTP. A chat request becomes a *turn*: it is
rate-limited, admitted, recorded, understood in the light of its conversation, answered by
one of two runtimes from what retrieval finds, checked, streamed to the browser, and
settled in the history. The parts, with what each keeps and does:

| part | state | operations | hard because | module |
|---|---|---|---|---|
| durable turns, `infra/persistence.py` | rows of conversations, messages, turns, summaries | `begin_turn`, `update_turn_content`, `cancel_turn`, `finish_turn`, `delete_conversation` | several transactions per turn, of several processes, none of which locks what it reads | `TurnStore`, `TurnLifecycle` |
| streamed turn, `agent/v4.py` with `routes/chat.py` | the generator's place, text shown so far | begin, check for Stop, yield, flush, persist, the ends after failures | every await can fail or be cancelled; users press Stop and delete conversations meanwhile | `V4Stream` |
| streamed turn, `agent/runtime/react.py` | as above | as above, with fast paths and a recovery pass | a second implementation of the same protocol with ends of its own | `AgentStream` |
| agent loop, `agent/agent_loop.py`, `planner.py`, `tool_registry.py` | trajectory, evidence, messages, budgets | reason, call tools, finish | the model asks for anything; numbers given to documents must last | `AgentLoop` |
| legal workflow, `agent/workflow/*` | `AgentState`, budgets | understand, cache, retrieve, compose, verify, repair, stop | must end; a text is replaced by cache, critic and repair between its checks | `LegalWorkflow` |
| output guardrail, `agent/guardrails.py`, `tools/verifier.py` | the candidate answer | verify, review, correct, retry | two reviewers that contradict themselves or fail between two texts | `OutputGuard`, `Verification` |
| understanding and routing, `agent/understanding.py`, `v4_support.py`, `domain/tasks.py` | snapshot of history and case | route, ask back, rewrite the query | follow-ups read what other turns are just writing | `Conversation`, `RetrievalQueries`, `History` |
| retrieval, `retrieval/*`, `tools/retrieval.py`, `services/legal_engine.py` | rankings; article and BM25 index per process, one file for all | search, fuse, diversify, rerank; build, save and load indexes | bonuses and cuts in a dozen places; threads and processes build the same index | `EnsembleRetrieval`, `Retrieval`, `RetrievalIndex`, `Ranks` |
| evidence gate, `tools/evidence.py` | none | evaluate documents, tests of validity and version | three callers that pass different things | `EvidenceGate` |
| generation, `tools/generation.py` | none | compose, quote, number, repair, read web pages | documents are skipped before they are numbered | `AnswerText` |
| answer cache, `tools/cache.py` | Redis entries, the digest all turns of a process share, rest after a failure | lookup, store | the digest changes under a request | `AnswerCache` |
| case state, feedback, pages, `infra/persistence.py`, `routes/sessions.py` | rows | `save_case`, `complete_case`, `save_feedback`, `update_quality_feedback`, `list_messages` | each reads before it writes, without a lock | `ConversationData`, `MessagePages` |
| admission, `infra/admission.py` with `routes/chat.py`, `routes/documents.py` | sorted set of leases in Redis, a heartbeat per request | acquire, refresh, release | commands that run after a timeout; clocks of several hosts; work that outlives its lease | `AdmissionLease` |
| rate limiter, `backend/api/middleware.py` | two counters per client in Redis | `is_allowed` | two round trips, windows named by differing clocks | `RateLimiter` |
| models, `infra/llm_instances.py` | keys, their last use and rests | acquire, mark, the four cascades | calls of several threads compete for keys | `KeyPool` |
| legal rules and calculators, `domain/legal_rules.py`, `tools/legal_calculators.py` | none | the amounts | the same formulas written twice; brackets | `StatutoryAmounts` |
| documents, authentication, legacy sessions, metrics, web client, scripts | — | — | — | see 6 |

How they interact: `routes/chat.py` asks the rate limiter, takes a lease of the admission
controller, and iterates over the `stream()` of one of the runtimes. `stream()` calls the
history gateway, which calls `PersistenceStore`, and the workflow or the loop, which call
cache, retrieval, models and reviewers. The Stop button and the delete button are other
requests, which call `cancel_turn` and `delete_conversation`. Requests share the database,
Redis, the files of the indexes, and in one process the key pool, the digest of the cache
and the indexes in memory.

What makes each part correct, in one sentence each, is section 3.

## 2. Modules

| module | what it is |
|---|---|
| `TurnStore` | the rows and the transactions of a turn, with calls of any client at any time |
| `TurnLifecycle` | the abstract life of a turn, which `TurnStore` implements |
| `History` | extends `TurnStore`: what the rows tell the pipelines of a conversation |
| `V4Stream` | extends `TurnStore`: workers that run `stream()`, and their environment; implements `TurnStore` |
| `AgentStream` | extends `TurnStore`: the same for the agent pipeline |
| `AgentResults` | what loop and guardrail may return: `AgentLoop` and `OutputGuard` build their results with it, `AgentStream` takes any of them |
| `AgentLoop`, `OutputGuard`, `LegalWorkflow` | the machines that make and check an answer; `Verification` is the replies of their reviewers |
| `Conversation`, `RetrievalQueries`, `EnsembleRetrieval`, `Retrieval`, `EvidenceGate`, `AnswerText`, `RetrievalIndex` | from a question to its documents and its text; `Ranks` has their helpers for lists |
| `AnswerCache`, `ConversationData`, `MessagePages`, `RateLimiter`, `KeyPool`, `AdmissionLease` | what requests and processes share |
| `StatutoryAmounts` | the amounts, as functions |
| `TurnStoreProofs`, `V4StreamProofs`, `AgentStreamProofs`, `AgentLoopProofs`, `AdmissionLeaseProofs` | the theorems about these modules, section 4 |
| `AnswersProofs`, `ServicesProofs` | the theorems about the parts of `MCAnswers` and of `MCServices` |
| `RanksProofs` | what the helpers of `Ranks` return, for lists of any length |
| `MC...` | the instances for TLC |

Definitions marked `Fault:` are not part of a specification. Each is a bug the
definition after it could have had, and is there to show that a property notices it.

### TurnStore

A call of `PersistenceStore` is a coroutine that awaits its SELECTs one by one and then
its COMMIT. A session has at most one call open; `stage` says which step is next and
`loaded` holds what its transaction has read. So other calls run between any two steps of
a call, as other coroutines and other processes do.

* `Open` starts a call, `Return` ends it with a result, `Fail` ends it with a database
  error: the rows stay, because the transaction rolls back.
* `begin_turn` is `EnsureConversation` (a transaction of its own in the code), then
  `BeginReadTurn`, for a replay `BeginReadTarget`, and an insert. The primary key of the
  turns and the foreign key to the conversations are what makes two racing inserts safe
  (`CanInsert`, `InsertConflict`).
* `update_turn_content`, `cancel_turn` and `finish_turn` are `ReadTurn`, a
  `...ReadAssistant` and a `...Commit`. An UPDATE of the ORM names only the columns whose
  value changed in its session; `Written` says so, and this matters: a finish that read
  `streaming` and writes `streaming` does not touch a `stopped` written in between.
* The engine is created without an isolation level (`persistence.py:322`), so PostgreSQL's
  default holds, read committed: a commit writes over whatever is there, whenever its row was
  read.
* `overrun` is a history variable: the turns that were written, once they were settled, by a
  call that had read them before. The properties use it to say which turns the missing lock
  can harm and that nothing else can.
* `MakeConversation` stands for the other callers that insert a missing conversation
  row (`history.load`, `save_case`, `record_run`).
* A scope is a conversation together with its owner; a request for a conversation of
  somebody else is a call with another scope, and is refused or finds nothing.

Left out: titles, timestamps, metadata, `turn_metadata`, feedback, runs and traces.
A query and its mode are one value, since `begin_turn` only compares them.

`TurnLifecycle` is what the rest of the program relies on: a turn begins once, and it is
written only by writers that saw it active, each of them once, however late, or restated by
those that saw it stopped. `KeepsLifecycle` is the refinement: the status and text of a turn, and
what the calls under way have seen of it, step as `TurnLifecycle` allows or not at all.

`History` adds no step. `RecentHistory` and `LatestExchange` are `get_recent_history` and
`latest_conversation_turn` on the rows that `TurnStore` leaves behind.

### V4Stream

A worker is a session of `TurnStore` that runs `stream()`; `phase` is where it awaits.
Steps between two awaits are one action, because one event loop runs them without
interruption: after the reply to a flush the generator yields on and comes to its next
check. The handlers are phases of their own, because each awaits a `finish_turn` that
can fail or be cancelled again: `execution_failed`, `persistence_failed`,
`stream_failed` (`except Exception`), `cancelled` (`except CancelledError`), `leave` and
`give_up` (`finally`). `_persist` is `Persist`, `AfterPersist` and then `Record`, since
`record_run` is in its `finally` and runs whatever happened before.

What can go wrong, at most `MaxFaults` times in a behaviour: a call fails, a commit
succeeds and its reply is lost (`Reply`), the workflow raises, the client disconnects
(a `CancelledError` at an await, or a `GeneratorExit` at a yield when the route returns
from its loop), and the cancellation comes a second time during a handler, as it does
inside a cancelled scope. With `CanCrash` the process may die at any point.

The text of worker `w` after `k` chunks is the pair `<<w, k>>`, so two texts are equal
exactly when the same worker wrote the same number of chunks. `Flushes` leaves open
which chunks but the last reach the 480 characters of the code.

### AgentStream, AgentLoop, AgentResults

`AgentStream` is `react.py`: the fast paths (small talk, refusals, cache), the two-step
chain, the loop, its recovery pass and the composition that may follow it, the guardrail,
delivery and persistence, with the four ends of `_AgentTurnLifecycle`. It is not built like
`V4Stream`: nothing is written while the answer is shown, so a turn keeps its whole answer or none.
Loop and guardrail return any member of `AgentResults`. Texts are told apart by who wrote them; a
text of `"placeholders"` has nothing but markers such as `[n]`, which `check_output` strips
before it decides, so it may pass as the empty text. What the stream then shows is `Release`: the
text it has in hand.

`AgentLoop` is the loop itself. The model is free: at every step it writes an answer or
asks for up to `MaxAtOnce` calls with any arguments. `BeginStep` looks for Stop and
`StepsExhausted` for the end of the steps; `ModelAnswers`, `ModelRequests` and `ModelFails` are
what the model call may return; `StartCall` has the check for Stop before each tool call, the
budgets and the detection of repeated calls, and `FinishCall` what a tool returned, with the
numbering of evidence; `CallsHandled` goes on to the next step, and `PressStopLoop` is the user.
A document is its identity. The documents of a cached answer join the evidence, but no message
shows their numbers (`ShownToModel`).

### LegalWorkflow, OutputGuard, Verification

`LegalWorkflow` has one action for each node of `builder.py` and one for each step of the
verify node between two awaits; models, retriever and cache answer what they like, and
`manifest` may be replaced at any time. A text is who wrote it with the set of checks that
*these words* have passed, so a text that is replaced loses its checks. `OutputGuard` does
the same for `check_output`. `Verification` translates how the replies of verifier and
critic, which may contradict themselves, are put in order.

### Conversation and RetrievalQueries

`Conversation` runs several turns at once over one conversation: what each reads of history
and case, the route it takes and takes anew, whether it asks back, and what its end does to
the case. A turn may find any exchange as the last one, because replays and deletions decide
that (`History`). `finish_turn` is `FindTurn` and `StoreAnswer` or `StoreFailure`, `cancel_turn` is
`ReadStop` and `StopTurn`, so a Stop that read the turn as pending may commit after the answer and
after the case. The history variables `answered`, `touched` and `witnessed` keep which turns have
stored an answer, which wrote the case, and what the case was when a turn read it. A question is the set
of cues that the code looks for.
`RetrievalQueries` is the list of queries that a question and any reply of the rewriting
models lead to; `preserve_explicit_anchors` matches addresses as substrings, so article 1
is found in "Điều 10", as in the code. A text is `long` when what is attached to its end does not
fit into the 3000 characters of a query: of the attached articles any may be lost, and of
one the beginning may remain (`CutShort`).

### EnsembleRetrieval, Retrieval, EvidenceGate, AnswerText

These are functions of rankings. What a vector search, BM25 or a cross-encoder scores is
chosen by the environment; the reciprocal-rank fusion, bonuses, limits, reservations for
named articles and modes of reranking are the code's. `EvidenceGate` has the decisions of
`evaluate` in their order, for each caller as that caller calls it; a heading may name more articles
than its own (`Heads`). `AnswerText` numbers
documents and claims, and spends the budget of a page paragraph by paragraph.

The lists are made by the helpers of `Ranks`, which say what a list is and not how a loop
builds it: `Sorted` puts a set into the order of a relation, `Among` keeps the items of a list
that are in a set, `ByScore` is the stable sort. A loop whose later rounds depend on the earlier
ones is `Collected`, a recursive function over the places of its list.

### RetrievalIndex

Threads of several processes need an index: `AskIndex` finds it or waits for the lock, `LoadFile` reads
a pickle that may be absent, torn or whole, `ScrollPage` reads the collection page by page while
ingestion adds pages, and the file is written in two steps that may fail or be cut off by a
death. `owed` is what the collection held when the scroll began. A mixture of two writers
that still unpickles is left out.

### AnswerCache

`shared` is the digest in the cache object of a process, which every lookup refreshes and
every store uses; `redis` the entries, `writes` the stores that have not reached Redis yet.
A lookup reads the manifest at the beginning and audits the hit at the end, and other turns
of the process run in between.

### ConversationData and MessagePages

`save_case`, `complete_case`, `save_feedback`, `update_quality_feedback` and
`delete_conversation` are calls with a read and a commit each, at read committed, on PostgreSQL or
on SQLite, where foreign keys are not enforced. An UPDATE names the columns that differ from
what was read, so two calls can mix theirs in one row; the history variable `mixed` has the
conversations whose case was last written by a call that another had overtaken. `MessagePages` lists
messages by cursor while rows are committed out of the order of their ids and replays hide
answers, for any limit: the route does not bound it, and only the query clamps it.

### RateLimiter and KeyPool

`RateLimiter` sends `INCR` and `EXPIRE` for two windows that the worker's clock names;
commands may fail, or run after their request was answered. `KeyPool` has the selection of a key, the
interval between two uses, the two lengths of rest and the four cascades over models.

### StatutoryAmounts

The formulas of `calculate_legal_formula` and of the document routes, as exact fractions, so
that rounding to a dong is left out. The first are reached from `calculate_statutory_amounts`
only, which no list of tools offers (`agent/tool_registry.py:445`); a loop that is asked for it
answers "Unknown tool" (`agent/agent_loop.py:754`).

### AdmissionLease

Redis executes the commands in `wire` one by one in any order; a command may be lost,
and may run after its sender has given up or gone. `phase` follows a request through its
route and `beat` its heartbeat task. Time counts ticks that are long against the
timeouts of Redis and short against a lease; `Tick` waits for a heartbeat that is due and
for an awaited command to be answered or time out. `Offset` puts the clock of a host
ahead. The time that `acquire` may wait for a place is not counted: a refused request
either asks again or gives up.

A request of the upload route is one with `FailOpen = FALSE`: it never works without a
lease, and looks at its heartbeat once, after the work.

## 3. Properties, runs and bounds

| run | instance | checks |
|---|---|---|
| `turns` | 2 sessions, 2 turn ids, 1 conversation, 3 messages | `OneExchangePerTurn`, `NoOrphanRows`, `SupersededByItsReplay`, `HistoryAgreesWithTurns`, `OnlyStaleCallsUndoOutcomes`, `KeepsLifecycle` |
| `stream` | 1 worker, 2 sessions that press Stop, 2 chunks, 2 faults, crash | `WhatWasShownIsKept`, `FarewellTellsOutcome`, `ImplementsTurnStore` |
| `stream_settles` | 1 worker, 2 Stop sessions, 2 chunks, 1 fault, no crash, fairness | `BegunTurnsSettle` |
| `agents` | 1 worker, 1 Stop session, 2 chunks, 2 faults, crash, fairness | `AnswersAreKeptWhole`, `DraftsPassTheGuardrail`, `AgentTurnsSettle` |
| `admission_skew` | 2 requests, 1 lease of 5 ticks, 11 ticks, one clock ahead | `LeasesWithinLimit`, `BeatingWorkWithinLimit`, `ReleasedStaysReleased` |
| `services` | nine parts, below | `LimitsAreKept`, `HitsFollowTheReview`, `ReviewsStayWithTheirFeedback`, `CasesAreWhole`, `PagesMissNothing`, `AmountsAreConsistent`, `ClaimsCiteTheirSource`, `UsedIndexesAreWhole`, `WorkIsBounded`, `EveryCallIsAnswered`, `CitationsStayStable`, `KeysAreSpared`, `LoopRunsOut` |
| `answers` | seven parts, below | `CaseFollowsAnAnswer`, `NamedArticlesAreKept`, `AgreedOrderIsKept`, `QueriesKeepTheQuestion`, `AcceptedEvidenceIsSound`, `ReleasedIsTrusted`, `DeliveredIsChecked`, `StopsShowNothing`, `CompletedCasesStayHidden`, `WorkflowEnds` |
| `turns_cancel_loses`, `history_pairs`, `required_articles`, `unchecked_draft`, `safe_stops` | refuted, section 5 | `CancellationWins`, `FollowUpsReadOneExchange`, `FoundArticlesAreRecognised`, `OnlyCheckedDraftsAreShown`, `SafeStopsKeepTheCase` |

`MCServices` and `MCAnswers` put several components into one run. The variable
`part` says which one a behaviour is about; the others rest in one state. Nothing is shared
between parts, so this is the union of their behaviours and not their product.

**Why these properties.** A turn is written by two requests that do not know of each other,
the stream and the Stop, so the question is who wins, whether message and turn agree
afterwards, and whether the user keeps what was on the screen. Nothing locks a row between its
read and its write, so an outcome is not final (section 5, 1). What does hold is
`OnlyStaleCallsUndoOutcomes`: an outcome is undone only by a call that was already past
its read; `HistoryAgreesWithTurns`: only a turn that such a call overran parts from its message;
and `FarewellTellsOutcome`: the last event tells the stored status, but for a completed turn that
such a Stop has marked since. `WhatWasShownIsKept` has no such exception: the text stays also when a
Stop, a flush and a late completion cross. The agent pipeline gives another promise,
`AnswersAreKeptWhole`: all of an answer or nothing. The case of a conversation is written after the
answer, by a turn that read it long before: `CaseFollowsAnAnswer` and `CompletedCasesStayHidden` say
what Stops and other turns can and cannot do to it, and `CasesAreWhole` when the columns of two calls mix.

For the machines that check an answer the hazard is the text that slips through after a
correction, a repair, a cache hit or an exception: `ReleasedIsTrusted`, `DeliveredIsChecked`
and `DraftsPassTheGuardrail` speak of the very words, and `StopsShowNothing` of what is
left on the screen when there are none. For retrieval it is a bonus or a cut that loses what
the user named (`NamedArticlesAreKept`, `QueriesKeepTheQuestion`) or turns the order over
(`AgreedOrderIsKept`); the first two also say where the code itself loses an article: to one whose
number begins alike, and at the end of a query that is too long. For what requests share it is a value that another changed in
between: the digest of the cache, a window, a row, a page, an index, a key.

**Bounds of the turns and streams.** Three messages are a question, its answer and one replay of it: enough for a
replay to race with a Stop, with its own retry under the same id, and with a deletion. Two
sessions are enough for a call to commit between the reads and the commit of another,
twice. Two chunks allow one flush that is skipped and one that is not. Two faults let a
handler of a failure fail itself. Eleven ticks let a lease of five be renewed, expire and go
to another request, and the key itself expire. The turn runs use the view `WithoutResults`:
what the last call returned matters to nobody there. The symmetries are of sessions, turn
ids and texts, which are only compared.

**Bounds of `services`.** Limiter: two requests on clocks one tick apart, windows of two and
four ticks with limits one and two, four ticks, one late command, so a window is left, met again by a
slower clock, and expires. Cache: two turns of one process, two manifests that allow
different documents, two replacements. Data: two calls at once of three in all, two
conversations, two ratings, PostgreSQL. Pages: five rows, a clamp of three, and limits from -2
to 4, so a cursor falls before, on and after what is inserted, and the slice cuts more, the same and
less than the query. Keys: two calls, two
keys, two models. Amounts: every formula at the joints of its brackets and just above. Texts:
up to four documents that are empty, short or too long, in any order, with `MaxClaims` two, where the code
has six; pages of up to three paragraphs. Index: three threads on two processes, two pages, two
attempts of the code's three, two troubles. Loop: three steps, two searches, one web search, two
calls in a response, three in a run; two queries and two documents let a call be repeated, a document be
found again in another place, by a cached answer too, and each budget run out with a call left over.
Loops of more than one step are taken only with questions that insist on a search, and only in
the legal mode: the others skip a branch that a later step skips too.

**Bounds of `answers`.** Two turns, one whose question may lean on an earlier one and tell of a dispute
or of a missing document, and one that is asked of a case or routed from its words, so each
reads what the other is writing; a Stop may read and commit at any two moments. Four chunks of three articles, 1, 2 and 10 (10 contains
1), with reranker and result limits below them, so that something is cut. The budgets of
the workflow are those of `default_dependencies`.
`MCAnswers` lets the passages and starts of `RetrievalQueries` vary only where a query can
gain or lose an article; texts that fit and texts that are cut are among them. Sources of the gate
are bare articles, mentions of another one, and a heading that names a second.

`CHECK_DEADLOCK FALSE` is set where behaviours end: every request is served once, and
time is bounded.

**Fairness.** `FairStreamSpec` and `FairAgentSpec` assume weak fairness of a worker's next step
and of the steps of its own database calls: the event loop runs a task that is ready, and
the database answers. `FairAgentSpec` and the specification of `MCAnswers` also assume it of the
calls of the loop, the guardrail and the nodes: what they await returns or raises, as every model
and tool call has a timeout. No client has to do anything. `BegunTurnsSettle` and `AgentTurnsSettle` are
claimed for one fault and no crash: with two, the handler's own `finish_turn` can be the one
that fails, and with a crash nobody finalises the turn. Both leave a turn `pending` or
`streaming` for ever, and no code recovers it.

## 4. What is proved

Every invariant that a run checks, and every action property and refinement, is also a theorem:
it holds for every value of the constants that the assumptions of the modules allow. What a
run shows on its instance and no theorem states is liveness. Each proof rests on an inductive
invariant, because the property alone does not say what a call or a worker knows when it acts.

### The turns (`TurnStoreProofs`)

* `TypeCorrect`, like `StreamTypeCorrect`, `AgentTypeCorrect` and `AdmissionTypeCorrect`, is the
  type invariant. That of `TurnStore` also says what reaching a step tells about the status a
  call has read (`StepFits`); without this the next theorems have no footing.
* `OneExchange`, `NoOrphans`, `SupersedingTerminates`: the rows. The inductive invariant
  `RowsInv` adds what a call knows from its reads: the rows it has loaded are older than the
  next message id and, as far as they still exist, are still the same turn's. A commit needs
  this, because it writes to the message that the *loaded* turn row names.
* `StaleCallsOnly`: an action property, from the type invariant.
* `HistoryAgrees`. A completing replay hides the answer it was asked to replace, and nothing in
  `HistoryAgreesWithTurns` keeps that answer's own turn from writing to it again. `AgreementInv` adds
  what does: a replay, begun or about to be inserted, asks for an answer that is settled, and a
  settled turn stays settled or is overrun.
* `ImplementsLifecycle`: every step of every call is a step of `TurnLifecycle` or a stutter. The
  mapping takes what a call has loaded for what a writer has seen, as long as the turn is the one
  it read.

### The streams (`V4StreamProofs`, `AgentStreamProofs`)

* `StreamImplementsTurnStore`, `AgentImplementsTurnStore`: every step of a stream is a step of
  `TurnStore` or changes none of its variables, handlers, disconnections and crashes
  included; so the theorems about the rows hold of the streams (`StreamKeepsRows`,
  `AgentKeepsRows`).
* `WhatWasShown`. `TextInv`: other sessions only stop the turn of a worker
  (`OnlyStops`), so what it read of its text is what is there (`ReadsOwnText`); a turn that is
  settled has kept what was shown, in whatever phase the worker is; and a phase of ending that has
  its reply has kept it too. `FarewellTells`: `OutcomeInv` says that an outcome
  which the worker has heard of stands or has been overrun by a Stop, and that it hears of a completion only from its own
  `finish_turn`.
* `DraftsAreChecked`: `DraftInv` follows a draft from the verdict of the guardrail to its
  chunks, and a draft that a recovery pass leaves in hand to the one verdict that lets it through. `AnswersKeptWhole`: `AnswerInv` says that a row has all of the answer or nothing of it,
  which of the two in each phase, and that a phase which halts has its turn stopped.

The theorems about texts assume that every request has a turn id of its own and, for
`WhatWasShown` and `FarewellTells`, that an answer is not empty. A client makes a new id for each
question; what a second request under the same id does is described in section 5.

### The loop and the checks (`AgentLoopProofs`, `AnswersProofs`)

* `BudgetsAreKept`, `CallsAreAnswered`, `CitationsHold` and `LoopEnds`, from `LoopInv`: the call that is
  about to be executed was allowed by the trajectory as it is now; the answered calls of a response
  and the pending ones are those it asked for; a number that was told is the place of its document.
  `CitationsHold` needs `AppendedKeeps`: what is found only adds to the evidence, for lists of any length.
  `LoopEnds` is the end of the loop as an action property: `WorkLeft` is a natural number that every
  step lowers and that is 0 only when the loop is done, so no fairness is needed but that the loop steps.
* `DeliveryIsChecked` and `StopsAreClean` of the workflow, for any budgets. `WorkflowInv`
  has three parts beside the types: `ChecksDone`, what the text has been through when a
  step of the verify node is reached, and the draft that a rewrite may be taken back for;
  `ReasonsFit`, which ends a run may have for its reason; and `StopsShowNothing` itself.
* `ReleasesAreTrusted`, `ContractIsKept` and `PassedDraftsSurvive` of the guardrail. `GuardInv`
  carries, from await to await, what the local variables say about the candidate text. The
  second is what `AgentStream` relies on: the guardrail gives no verdict that
  `AgentResults` does not list.

### From a question to its evidence (`AnswersProofs`, `RanksProofs`)

* `CaseFollowsAnswer` and `CompletedCasesHidden` of the conversation, for any number of turns and any
  Stops. `TalkInv`: what a turn shows of a case it saw open when it last read it, and a turn that writes
  the case has stored its answer, which only a Stop under way can mark.
* `QueriesAreSound`, for any articles, wordings and proposals. `QueriesInv` says that the queries are
  those of the question at hand; the rest is a fact about `SearchQueries`: its first candidate is the
  question, which `Preserve` does not change and the loop never turns away; what a cut leaves of the
  attached articles is some of them and at most the beginning of one.
* `NamedArticlesStay`, for any corpus, limits and orders of the rankers. `EnsembleInv` follows the named
  articles through the three cuts: after the fusion the chunks of named articles come first
  (`WantedFirst`), so when there are few enough of them the cut for the rankers takes none away; every later list
  `Covers` what the fusion had under each number; and at the end it is `Thin`, at most two chunks of an article. `Lookups` has questions
  that name at most as many articles as are returned; of one that names more, the code cuts the last.
* `RerankingRefines`: reciprocal ranks fall with the place, so two lists that agree on two
  rows agree with the sum of their shares; equal shares, which integer division makes possible, are
  ordered by the earlier list. `RetrievalInv` says that what is ranked is what the search said.
* `EvidenceIsSound`. Documents are accepted only when no check has failed (`AcceptanceMeans`), and
  the proof goes through what it means for each caller that the checks of anchor and force have not;
  an article that is asked for is then among the heads of one source.
  The numbers of articles are above 0, which stands for none.
* `RanksProofs` says what each helper returns: `Sorted` is a sequence of exactly the set in the order of
  the relation, if it is a strict order (`SortedIs`); so `Among` keeps items and order (`AmongIs`),
  and `ByScore` is a stable sort (`ByScoreIs`). `Collecting` gives what a loop keeps true.

### What requests share (`ServicesProofs`, `AdmissionLeaseProofs`)

* `HitsAreReviewed` of the cache. `CacheInv` needs `FiledUnderDigest`, that an entry lies under
  the digest it was filed with, and `LookupsFollow`: what a turn holds was in force at some moment
  since its lookup began, although the digest it reads is shared.
* `IndexesAreWhole` of the indexes. `IndexInv` says of a thread that scrolls that it holds the
  lock and has every page before its cursor, of a thread that writes that its index is
  built, and of a whole file that it owes nothing.
* `ReviewsFollowFeedback` on PostgreSQL and `CasesKeepTogether`. `DataInv`: a rating
  has its answer, in its own conversation; what exists has an id that was given. `CasesAsRead`: what a call
  has read of a case is there, unless the call has been overtaken.
* `PagesAreComplete`, for any rows and any limit, 0 and negative ones included. `PagesInv`: the list
  grows in the order of ids, and a reader has every message up to its cursor that could be listed all
  the while. That he has the rest at the end is claimed of limits within the clamp only.
* `LimitsHold`, for any windows and late commands. `LimiterInv` counts: the requests a window has
  admitted and those about to pass are within its limit and, while the window lasts, within its counter;
  and a counter lasts as long as its window, on the clock that is most behind too.
* `KeysSpared`. `PoolInv`: what the call that holds the lock has chosen, and the time until which it
  waits, stay right until it takes the key.
* `AmountsAgree`, for every question whatever its numbers: the formulas that are written twice agree,
  the court fee equals the fee by layers in each row of both tables, and each layer of the income
  tax takes at most its rate. `AmountsInv` says that an answer belongs to the question at hand.
* `CitationsAreRight`, for lists of any length. The places that `Places` gives are places of the list,
  each once and in order; `TextInv` says that the claims of a text are numbered by them.
* `LimitHolds`: Redis never counts more leases than the limit, for any number of
  requests and any clocks. `ReleaseIsFinal`: after a release only an acquire that was
  still under way can take the place again.
* `BeatingWorkHolds`: while heartbeats beat, no more requests than the limit work at a
  time. The limit on leases alone does not give it: a working request must also still
  own its lease. The inductive invariant `LeaseInv` says why it does. `ClockInv`: no
  command carries a time later than the most advanced clock shows, and no lease outlives
  the key. `WaitInv`: a request that is not admitted yet has nothing under way but the
  acquire it awaits. `BeatInv`: a beating request has nothing under way but the refresh
  it awaits, and its lease lasts until that refresh is answered on the clock most
  ahead. The last step needs `LeaseAssumption`,
  `TTL > Interval + 2 * Delay + Skew`; `admission_skew` runs at its boundary.

### Assumptions

Each is named in the module that declares the constants, and TLC evaluates it in every run that
uses the module. Most say that a limit is a positive number and that what the program holds at a time
(keys, workers, rows, chunks, instruments) is finite. The others: the window of a minute is not longer
than that of an hour (60 s and 3600 s); the cascade of models is not empty; `"nobody"` and
`"none"` are no thread and no digest; lists of documents are sequences; the parameters of a
question have the types that `calculate_statutory_amounts` describes and are not negative; and `LeaseAssumption` above.

### Only model-checked

`WorkflowEnds`, `BegunTurnsSettle` and `AgentTurnsSettle`: liveness under fairness is out of the
prover's reach, and so is `ENABLED`. Induction over data with a library theorem is too, as it takes
an operator for a parameter; where a recursive function runs over the places of a list, the
proofs take the least place at which a claim fails instead (`LeastOf`, `UpTo`). For the folds of
the community modules that way is closed, which is why the modules with list helpers do without them
wherever a theorem depends on it; `MergedScore` and the budget of `PageText` are folds still, and
the theorems need nothing of their values.

## 5. Where the code does otherwise

Each is a run that TLC refutes, with a line of the repository that says the contrary:

1. `turns_cancel_loses`: a Stop that commits between the read and the commit of
   `finish_turn` is overwritten by `complete` (`persistence.py:692`).
2. `history_pairs`: after a replay of an older question, a follow-up is understood with the
   newest question and the answer to another (`persistence.py:1062`, `domain/tasks.py:757`).
3. `required_articles`: the search tool looks for "Điều 36" among bare numbers, so a call
   with required articles always reports them missing (`tool_registry.py:204`).
4. `unchecked_draft`: the guardrail strips the placeholders of a text and passes the empty text
   that is left (`guardrails.py:84-86`, 126-140). When the answer composed after a recovery pass comes
   back so, `final_answer` falls back to the draft of that pass, which the guardrail has just rejected,
   and it is shown as verified (`runtime/react.py:1047`). `DraftsPassTheGuardrail` says that this is the
   only way, beside the placeholders themselves.
5. `safe_stops`: a turn of a case completes it however the workflow ended (`v4.py:368`, 551), also when
   it only asked for information or found too little (docstring at `v4.py:522`, comment at 557).

The models follow the code in the following too. They were met while modelling and no run is
about them; paths are below `src/src/vietnam_legal_agent/` unless they say otherwise.

*Turns and streams.* The replay of a replay takes the newest question
(`infra/persistence.py:542`). A stopped turn that finishes late un-hides an answer which a replay has
superseded (700). A conversation deleted while its turn runs is made again by
`record_run` or `history.load` (1360). When `record_run` fails after the commit, the client is
told that the answer was not saved (`agent/v4.py:753`). A lost reply of `begin_turn` leaves a pending
turn. A request with the id of a turn that is settled runs the workflow again: `begin_turn` returns
the old turn, nothing looks at its status before the workflow, `finish_turn` keeps the old text and
`response_complete` carries the new one (`agent/v4.py:785`). A Stop that read the turn as pending may
commit after its answer and after its write of the case: the turn shows stopped, the case is changed.
A turn that read a case before another turn completed it may save it open again (`agent/v4.py:562`). Only three
ends of the last exchange leave its question open (`domain/tasks.py:799`): a refusal, a failed or a stopped
turn is something that a follow-up may lean on. In the agent pipeline, Stop during the recovery pass
still shows the fallback text, and `use_standard_rag` (`agent/runtime/react.py:592`) depends on
whether another turn has made the runner yet.

*Admission and limits.* Work goes on when its heartbeat has died and its lease expired
(`src/backend/api/routes/chat.py:182`). With `rate_limit_fail_open` a request is let in also when
Redis has answered that there is no room (`chat.py:155`; `config.py:137` speaks of Redis
being unavailable). Denied requests count towards the rate limit, and the windows are fixed where the
docstring says token bucket.

*Loop and checks.* A call that failed cannot be tried again with the same arguments, denied calls
use up the search budget, and a recovery pass has its budgets anew. A cached answer's documents join
the evidence while its text keeps numbers of its own (`agent/agent_loop.py:244`). A draft of nothing but
placeholders is shown as it is: `final_answer` keeps it when the guardrail's text is empty
(`agent/runtime/react.py:1065`). `OutputGuard`: a critic
that rejects a draft and returns it unchanged has it released without a new
verification (`agent/guardrails.py:300`); the flags of the retry's critic are ignored (373). The
workflow retrieves once although its budget is two.

*Retrieval and evidence.* Article 1 is found in "Điều 10" (`ensemble_retrieval.py:1626`,
`domain/tasks.py:985`), so a chunk of Điều 10 may stand for a named Điều 1, which
`_select_with_explicit_coverage` (1302) is there to keep. Anchors are attached to the end of a rewritten
query and queries are cut to 3000 characters after that (`agent/workflow/contracts.py:213`,
`domain/tasks.py:336`): a long follow-up can lose Điều 36 or search for Điều 3, although the docstring at
`domain/tasks.py:971` says "Ensure rewriting cannot silently remove a named source or legal anchor." A heading
"Điều 5. Hướng dẫn Điều 36" is accepted as Điều 36 (`tools/evidence.py:832`, with the headings of
`retrieval/universal_retriever.py:528`). `Retrieval` lets an article of a named instrument be found by any of the
anchors, where the code pairs them: its searches may find more. The file of an index is named by its collection only and is not refreshed after
ingestion. `rerank_fallback_on_timeout=False` has no effect. In the fusion of several articles the key of
a later one replaces the earlier sum (`tools/retrieval.py:435`). "repealed" is not among the
statuses of `is_document_superseded`. The text of a web page replaces the snippet that was
checked (`tools/generation.py:543`).

*Data.* On SQLite, where rowids return and `quality_feedback` is not deleted with its feedback,
`ReviewsStayWithTheirFeedback` fails; the run is about PostgreSQL. Concurrent
writers mix the columns of a case, for instance `completed` with missing facts, until the next write
that nothing overtakes (`CasesAreWhole`). A client that asks for pages of more than 100 messages gets
100 and no cursor to the rest, and one that asks for fewer than one row loses rows too
(`src/backend/api/routes/sessions.py:281`, `infra/persistence.py:1163-1170`).

*Models and amounts.* The text of an assessment without claims cites a fixed "[1]"
(`tools/generation.py:669`), which `ClaimsCiteTheirSource` leaves out. The rules of the domain and the document
routes differ on terminations of the uninsured, on unknown months without work and on a rate of zero;
`AmountsAreConsistent` speaks of the rest (`Comparable`). A streamed call that is retried after partial chunks repeats its text, and a
short rest replaces a longer one (`infra/llm_instances.py`). "motorbike" is fined as a car, as it
contains "oto" (`domain/legal_rules.py:445`).

## 6. Not modelled

* *Documents*: parsing of uploads, review of contracts, templates. Functions of a text
  with one model call and no state. The lease that the upload route holds is in `AdmissionLease`.
* *Authentication and routes*: checks of one request. `TurnStore` takes from them that a
  scope belongs to one user.
* *Legacy session store*: nothing calls its operations any more, only its Redis client.
* *Web client*: its own state is outside; what it may send is what the sessions of
  `TurnStore` do. Read while modelling: the `finally` of an old run clears the abort
  controller of a new one (`useChatStream.ts:305`), and a Stop while the list of sessions is
  refreshed shows a complete answer as stopped.
* *Metrics, tracing, settings, evaluation, scripts, migrations*: nothing reads them
  back, or they run alone.
* Inside modelled parts: prompts, wording, tokenising, embeddings, scores, the patterns of
  `check_input`, and the rewriting of citations inside a text, which is work on strings. `run()`
  of `v4.py`, whose durable part is begin and finish; the opening of the Qdrant client;
  `evaluate_universal_case` of the rules, which nothing calls.

What would come next: a measure for the workflow as there is one for the loop, which makes its end
an action property within the prover's reach; and one abstract
specification of a stream that both pipelines implement.
