------------------------------- MODULE V4Stream -------------------------------
(***************************************************************************)
(* One streamed chat turn of agent/v4.py (V4WorkflowRuntime.stream) over   *)
(* the durable rows of TurnStore: the worker that answers a request, the   *)
(* users who press Stop or delete the conversation meanwhile, the client   *)
(* that goes away, the database that fails and the process that dies.      *)
(*                                                                         *)
(* A worker is a session of TurnStore: it has at most one call open, waits *)
(* for it, and goes on from the reply.  What the workflow computes is left *)
(* out: an answer is a number of chunks, and the text of a turn after k    *)
(* chunks is <<w, k>>.  The case that _persist saves or clears is left     *)
(* out too; what remains of these writes is the conversation row that they *)
(* insert when it is missing.                                              *)
(***************************************************************************)
EXTENDS TurnStore

CONSTANTS
    Workers,    \* requests to POST /chat/stream, each answered by a session
    TurnOf,     \* the turn id of a request
    ScopeOf,    \* the user and conversation of a request
    Chunks,     \* number of chunks of an answer
    MaxFaults,  \* bound: failures and disconnections in a behaviour
    CanCrash    \* whether a process may die

ASSUME WorkersAssumption == Workers \subseteq Sessions
ASSUME RequestAssumption == TurnOf \in [Workers -> Turns] /\ ScopeOf \in [Workers -> Scopes]
ASSUME ChunksAssumption  == Chunks \in Nat
ASSUME TextsAssumption   == Workers \X (0 .. Chunks) \subseteq Texts
ASSUME FaultsAssumption  == MaxFaults \in Nat /\ CanCrash \in BOOLEAN

VARIABLES
    phase,      \* where a worker is in stream()
    shown,      \* how many chunks it has yielded
    persisted,  \* what finish_turn told _persist
    farewell,   \* the last event of the stream
    faults      \* failures and disconnections so far

streams  == <<phase, shown, persisted, farewell, faults>>
allVars  == <<vars, streams>>

(* The phases that await a reply of TurnStore; the last four are the       *)
(* finish_turn calls of the handlers of failures and of disconnections.    *)
Replied == {"begin", "flush", "persist", "stop", "execution_failed",
            "persistence_failed", "stream_failed", "cancelled", "leave", "give_up"}

Phases == Replied \cup {"waiting", "execute", "check", "record", "unsaved",
                        "interrupted", "left", "ended", "crashed"}

Events == {"none", "refused", "response_stopped", "response_complete",
           "v4_execution_failed", "v4_persistence_failed", "stream_incomplete",
           "pipeline_error"}

StreamTypeOK ==
    /\ TypeOK
    /\ phase \in [Workers -> Phases]
    /\ shown \in [Workers -> 0 .. Chunks]
    /\ persisted \in [Workers -> Results \cup {"cancelled"}]
    /\ farewell \in [Workers -> Events]
    /\ faults \in 0 .. MaxFaults
    /\ \A w \in Workers : ~Idle(w) => phase[w] \in Replied /\ call[w].turn = TurnOf[w]

StreamInit ==
    /\ Init
    /\ phase = [w \in Workers |-> "waiting"]
    /\ shown = [w \in Workers |-> 0]
    /\ persisted = [w \in Workers |-> "none"]
    /\ farewell = [w \in Workers |-> "none"]
    /\ faults = 0

(***************************************************************************)
(* Steps of a worker                                                       *)
(***************************************************************************)
GoTo(w, next) == phase' = [phase EXCEPT ![w] = next]

(* partial_answer *)
Partial(w) == <<w, shown[w]>>

Fault == faults < MaxFaults /\ faults' = faults + 1

(* The reply to the call of phase p; the database may have committed and   *)
(* the connection be lost before the worker hears of it.                   *)
Reply(w, p, r) ==
    /\ phase[w] = p
    /\ Idle(w)
    /\ \/ r = result[w] /\ UNCHANGED faults
       \/ r = "error" /\ result[w] \in TurnStatus /\ Fault

(* _finish_interrupted_turn, or the finish_turn of _persist *)
Finish(w, status, next) ==
    /\ Open(w, FinishTurn(ScopeOf[w], TurnOf[w], Partial(w), status))
    /\ GoTo(w, next)
    /\ UNCHANGED <<shown, persisted, farewell>>

Proceeding(w, next) ==
    /\ GoTo(w, next)
    /\ UNCHANGED <<vars, shown, persisted, farewell>>

(* The last event is yielded and the generator returns. *)
Farewell(w, event) ==
    /\ GoTo(w, "ended")
    /\ farewell' = [farewell EXCEPT ![w] = event]
    /\ UNCHANGED <<shown, persisted>>

Start(w) ==
    /\ phase[w] = "waiting"
    /\ \/ \E q \in Questions : Open(w, BeginMessage(ScopeOf[w], TurnOf[w], q))
       \/ \E m \in MessageIds : Open(w, BeginReplay(ScopeOf[w], TurnOf[w], m))
    /\ GoTo(w, "begin")
    /\ UNCHANGED <<shown, persisted, farewell, faults>>

(* durable_handle is set only when begin_turn returns. *)
Begun(w) ==
    \E r \in Results :
        /\ Reply(w, "begin", r)
        /\ \/ r \in TurnStatus /\ Proceeding(w, "execute")
           \/ r = "refused" /\ Farewell(w, "refused") /\ UNCHANGED vars
           \/ r = "error" /\ Farewell(w, "stream_incomplete") /\ UNCHANGED vars

(* _execute: whatever the workflow does, it loads the history. *)
Execute(w) ==
    /\ phase[w] = "execute"
    /\ MakeConversation(ScopeOf[w])
    /\ GoTo(w, "check")
    /\ UNCHANGED <<shown, persisted, farewell, faults>>

ExecuteFails(w) ==
    /\ phase[w] = "execute"
    /\ Fault
    /\ Finish(w, "failed", "execution_failed")

(* is_turn_cancelled *)
Cancelled(w) ==
    /\ turns[TurnOf[w]].status = "stopped"
    /\ turns[TurnOf[w]].scope = ScopeOf[w]

FoundCancelled(w) ==
    /\ phase[w] = "check"
    /\ Cancelled(w)
    /\ Finish(w, "stopped", "stop")
    /\ UNCHANGED faults

CheckFails(w) ==
    /\ phase[w] = "check"
    /\ Fault
    /\ Finish(w, "failed", "stream_failed")

(* Fault: the last chunk is flushed only when enough text has gathered.    *)
FlushesSometimes(w, k) == BOOLEAN

(* The text is written after every 480 characters and after the last chunk.*)
Flushes(w, k) == IF k = Chunks THEN {TRUE} ELSE BOOLEAN

ShowChunk(w) ==
    /\ phase[w] = "check"
    /\ ~Cancelled(w)
    /\ shown[w] < Chunks
    /\ shown' = [shown EXCEPT ![w] = @ + 1]
    /\ \E flush \in Flushes(w, shown[w] + 1) :
          IF flush
            THEN /\ Open(w, UpdateContent(ScopeOf[w], TurnOf[w], <<w, shown[w] + 1>>))
                 /\ GoTo(w, "flush")
            ELSE UNCHANGED <<vars, phase>>
    /\ UNCHANGED <<persisted, farewell, faults>>

AfterFlush(w) ==
    \E r \in Results :
        /\ Reply(w, "flush", r)
        /\ IF r = "error" THEN Finish(w, "failed", "stream_failed")
                          ELSE Proceeding(w, "check")

Persist(w) ==
    /\ phase[w] = "check"
    /\ ~Cancelled(w)
    /\ shown[w] = Chunks
    /\ Finish(w, "complete", "persist")
    /\ UNCHANGED faults

AfterPersist(w) ==
    \E r \in Results :
        /\ Reply(w, "persist", r)
        /\ persisted' = [persisted EXCEPT ![w] = r]
        /\ GoTo(w, "record")
        /\ UNCHANGED <<vars, shown, farewell>>

(* Fault: the status that _persist left is not looked at. *)
AnnouncedComplete(r) == "response_complete"

(* What stream() makes of the status that _persist left: anything but a    *)
(* stopped turn is announced as complete.                                  *)
Announced(r) == IF r = "stopped" THEN "response_stopped" ELSE "response_complete"

(* save_case or clear_case after a complete turn, and record_run always.   *)
Record(w) ==
    /\ phase[w] = "record"
    /\ MakeConversation(ScopeOf[w])
    /\ \/ /\ persisted[w] \in TurnStatus
          /\ Farewell(w, Announced(persisted[w]))
       \/ /\ persisted[w] \notin TurnStatus
          /\ GoTo(w, IF persisted[w] = "cancelled" THEN "interrupted" ELSE "unsaved")
          /\ UNCHANGED <<shown, persisted, farewell>>
    /\ UNCHANGED faults

RecordFails(w) ==
    /\ phase[w] = "record"
    /\ Fault
    /\ Finish(w, "failed", "persistence_failed")

Unsaved(w) ==
    /\ phase[w] = "unsaved"
    /\ Finish(w, "failed", "persistence_failed")
    /\ UNCHANGED faults

(***************************************************************************)
(* The ends of an interrupted stream                                       *)
(***************************************************************************)
AfterStop(w) ==
    \E r \in Results :
        /\ Reply(w, "stop", r)
        /\ IF r = "error" THEN Finish(w, "failed", "stream_failed")
                          ELSE Farewell(w, "response_stopped") /\ UNCHANGED vars

AfterExecutionFailed(w) ==
    \E r \in Results :
        /\ Reply(w, "execution_failed", r)
        /\ IF r = "error" THEN Finish(w, "failed", "stream_failed")
                          ELSE Farewell(w, "v4_execution_failed") /\ UNCHANGED vars

AfterPersistenceFailed(w) ==
    \E r \in Results :
        /\ Reply(w, "persistence_failed", r)
        /\ IF r = "error" THEN Finish(w, "failed", "stream_failed")
                          ELSE Farewell(w, "v4_persistence_failed") /\ UNCHANGED vars

(* except Exception, then finally *)
AfterStreamFailed(w) ==
    \E r \in Results :
        /\ Reply(w, "stream_failed", r)
        /\ IF r = "error" THEN Finish(w, "stopped", "give_up")
                          ELSE Farewell(w, "stream_incomplete") /\ UNCHANGED vars

(* The exception leaves stream() and the route reports it. *)
AfterGiveUp(w) ==
    \E r \in Results :
        /\ Reply(w, "give_up", r)
        /\ Farewell(w, "pipeline_error")
        /\ UNCHANGED vars

(* except CancelledError, then finally *)
Interrupted(w) ==
    /\ phase[w] = "interrupted"
    /\ Finish(w, "stopped", "cancelled")
    /\ UNCHANGED faults

AfterCancelled(w) ==
    \E r \in Results :
        /\ Reply(w, "cancelled", r)
        /\ IF r = "error" THEN Finish(w, "stopped", "leave")
                          ELSE Proceeding(w, "ended")

Left(w) ==
    /\ phase[w] = "left"
    /\ Finish(w, "stopped", "leave")
    /\ UNCHANGED faults

AfterLeave(w) ==
    \E r \in Results :
        /\ Reply(w, "leave", r)
        /\ Proceeding(w, "ended")

(***************************************************************************)
(* The environment                                                         *)
(***************************************************************************)
(* Fault: there is no transaction around the UPDATEs of finish_turn. *)
AbandonHalfway(w) ==
    IF Idle(w) THEN UNCHANGED vars
    ELSE /\ Return(w, "error")
         /\ IF stage[w] = "commit" /\ call[w].op = "finish"
              THEN WriteTurn(w, FinalStatus(w))
              ELSE UNCHANGED <<turns, overrun>>
         /\ UNCHANGED <<conversations, messages, nextMessage, summary>>

(* The call of w, if there is one, rolls back. *)
AbandonCall(w) == IF Idle(w) THEN UNCHANGED vars ELSE Fail(w)

(* Fault: the disconnection of a client is not handled. *)
AfterCancellationIgnored(p) == "ended"

(* Where a CancelledError raised at an await of phase p leads. *)
AfterCancellation(p) ==
    CASE p = "begin" -> "ended"
      [] p = "persist" -> "record"
      [] p \in {"stream_failed", "cancelled"} -> "left"
      [] p \in {"leave", "give_up"} -> "ended"
      [] OTHER -> "interrupted"

Disconnect(w) ==
    /\ phase[w] \in Replied \cup {"execute", "check", "record"}
    /\ Fault
    /\ AbandonCall(w)
    /\ GoTo(w, AfterCancellation(phase[w]))
    /\ persisted' = IF phase[w] = "persist" THEN [persisted EXCEPT ![w] = "cancelled"]
                                            ELSE persisted
    /\ UNCHANGED <<shown, farewell>>

(* The route stops iterating: GeneratorExit at a yield. *)
StopIterating(w) ==
    /\ \/ phase[w] \in {"execute", "check"}
       \/ phase[w] = "flush" /\ stage[w] = "turn"
    /\ Fault
    /\ AbandonCall(w)
    /\ GoTo(w, "left")
    /\ UNCHANGED <<shown, persisted, farewell>>

(* The process dies; nothing in the code looks for its turns later. *)
Crash(w) ==
    /\ CanCrash
    /\ phase[w] \notin {"waiting", "ended", "crashed"}
    /\ AbandonCall(w)
    /\ GoTo(w, "crashed")
    /\ UNCHANGED <<shown, persisted, farewell, faults>>

DatabaseFails(s) ==
    /\ Fault
    /\ Fail(s)
    /\ UNCHANGED <<phase, shown, persisted, farewell>>

(* PUT .../turns/{turn_id}/cancel *)
PressStop(s) ==
    /\ \E w \in Workers : Open(s, CancelTurn(ScopeOf[w], TurnOf[w]))
    /\ UNCHANGED streams

(* DELETE /sessions/{session_id} *)
DeleteSession(c) ==
    /\ DeleteConversation(c)
    /\ UNCHANGED streams

DatabaseStep(s) == CallStep(s) /\ UNCHANGED streams

WorkerStep(w) ==
    \/ Begun(w)
    \/ Execute(w)
    \/ FoundCancelled(w)
    \/ ShowChunk(w)
    \/ AfterFlush(w)
    \/ Persist(w)
    \/ AfterPersist(w)
    \/ Record(w)
    \/ Unsaved(w)
    \/ AfterStop(w)
    \/ AfterExecutionFailed(w)
    \/ AfterPersistenceFailed(w)
    \/ AfterStreamFailed(w)
    \/ AfterGiveUp(w)
    \/ Interrupted(w)
    \/ AfterCancelled(w)
    \/ Left(w)
    \/ AfterLeave(w)

FaultStep(w) ==
    \/ ExecuteFails(w)
    \/ CheckFails(w)
    \/ RecordFails(w)
    \/ Disconnect(w)
    \/ StopIterating(w)
    \/ Crash(w)

StreamNext ==
    \/ \E w \in Workers : Start(w) \/ WorkerStep(w) \/ FaultStep(w)
    \/ \E s \in Sessions : DatabaseStep(s) \/ DatabaseFails(s)
    \/ \E s \in Sessions \ Workers : PressStop(s)
    \/ \E c \in Scopes : DeleteSession(c)

StreamSpec == StreamInit /\ [][StreamNext]_allVars

(* A task that can run does run, and the database answers it.  Nobody has  *)
(* to send a request, press Stop, delete or disconnect.                    *)
Fairness == \A w \in Workers : WF_allVars(WorkerStep(w)) /\ WF_allVars(DatabaseStep(w))

FairStreamSpec == StreamSpec /\ Fairness
-----------------------------------------------------------------------------
(***************************************************************************)
(* Properties                                                              *)
(***************************************************************************)
Turn(w)   == turns[TurnOf[w]]
HasTurn(w) == TurnExists(TurnOf[w]) /\ Turn(w).scope = ScopeOf[w]

(* The stream touches the rows only through the calls of PersistenceStore: *)
(* every step of it is a step of TurnStore or changes no row, so what is   *)
(* proved of TurnStore holds here.                                         *)
ImplementsTurnStore == Spec

(* Whatever the stream last told the client, the text that the client has  *)
(* seen is the text that the history keeps, however flushes, Stop, late    *)
(* completions and failures followed each other.                           *)
WhatWasShownIsKept ==
    \A w \in Workers :
        /\ HasTurn(w)
        /\ farewell[w] \notin {"none", "refused", "pipeline_error"}
        /\ farewell[w] = "stream_incomplete" => shown[w] > 0
        => Message(Turn(w).assistant).content = Partial(w)

(* response_stopped is sent only of a turn that the history shows stopped, *)
(* and response_complete only of one that it shows complete.  The one      *)
(* thing that can part them is a Stop that read the turn before it was     *)
(* completed and commits after: then the history says stopped.             *)
FarewellTellsOutcome ==
    \A w \in Workers : HasTurn(w) =>
        /\ farewell[w] = "response_stopped" => Turn(w).status = "stopped"
        /\ farewell[w] = "response_complete" =>
              \/ Turn(w).status = "complete"
              \/ Turn(w).status = "stopped" /\ TurnOf[w] \in overrun

(* A turn whose begin_turn has returned is settled in the end and stays    *)
(* so, unless its conversation is deleted: the handlers of failures and    *)
(* disconnections of stream() leave no turn pending or streaming.          *)
BegunTurnsSettle ==
    \A w \in Workers :
        [](phase[w] = "execute" => <>[](HasTurn(w) => Turn(w).status \in Settled))
=============================================================================
