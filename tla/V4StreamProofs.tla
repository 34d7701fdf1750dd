---------------------------- MODULE V4StreamProofs ----------------------------
(***************************************************************************)
(* A streamed turn implements TurnStore, so what is proved of the rows for *)
(* any client holds for the clients that the program has.                  *)
(***************************************************************************)
EXTENDS V4Stream, TurnStoreProofs, TLAPS

(* What the steps of a worker need of it: the text it hands to a call is a *)
(* text of TurnStore.                                                      *)
ShownInRange == shown \in [Workers -> 0 .. Chunks]

LEMMA PartialIsText ==
    ASSUME ShownInRange, NEW w \in Workers
    PROVE  Partial(w) \in Texts
  BY TextsAssumption DEF ShownInRange, Partial

LEMMA ShownStaysInRange == ShownInRange /\ [StreamNext]_allVars => ShownInRange'
  <1>. SUFFICES ASSUME ShownInRange, [StreamNext]_allVars PROVE ShownInRange'
    OBVIOUS
  <1>1. ASSUME NEW w \in Workers, ShowChunk(w)
        PROVE  ShownInRange'
    BY <1>1, ChunksAssumption DEF ShowChunk, ShownInRange
  <1>2. ASSUME NEW w \in Workers, WorkerStep(w), ~ShowChunk(w)
        PROVE  UNCHANGED shown
    BY <1>2
       DEF WorkerStep, Begun, Execute, FoundCancelled, AfterFlush, Persist, AfterPersist,
           Record, Unsaved, AfterStop, AfterExecutionFailed, AfterPersistenceFailed,
           AfterStreamFailed, AfterGiveUp, Interrupted, AfterCancelled, Left, AfterLeave,
           Finish, Farewell, Proceeding
  <1>3. ASSUME NEW w \in Workers, Start(w) \/ FaultStep(w)
        PROVE  UNCHANGED shown
    BY <1>3 DEF Start, FaultStep, ExecuteFails, CheckFails, RecordFails, Disconnect,
                StopIterating, Crash, Finish
  <1>4. ASSUME NEW s \in Sessions, DatabaseStep(s) \/ DatabaseFails(s) \/ PressStop(s)
        PROVE  UNCHANGED shown
    BY <1>4 DEF DatabaseStep, DatabaseFails, PressStop, streams
  <1>5. ASSUME NEW c \in Scopes, DeleteSession(c)
        PROVE  UNCHANGED shown
    BY <1>5 DEF DeleteSession, streams
  <1>6. CASE UNCHANGED allVars
    BY <1>6 DEF allVars, streams, ShownInRange
  <1>. QED  BY <1>1, <1>2, <1>3, <1>4, <1>5, <1>6 DEF StreamNext, ShownInRange

(***************************************************************************)
(* Every step is a step of TurnStore                                       *)
(***************************************************************************)
LEMMA FinishIsCall ==
    ASSUME ShownInRange, NEW w \in Workers, NEW st \in Settled, NEW next,
           Finish(w, st, next)
    PROVE  Next
  <1>1. w \in Sessions /\ ScopeOf[w] \in Scopes /\ TurnOf[w] \in Turns
    BY WorkersAssumption, RequestAssumption
  <1>2. ClientCall(w)
    BY <1>1, PartialIsText DEF Finish, ClientCall
  <1>. QED  BY <1>1, <1>2 DEF Next

LEMMA MakeIsStep ==
    ASSUME NEW w \in Workers, MakeConversation(ScopeOf[w])
    PROVE  Next
  BY RequestAssumption DEF Next

LEMMA AbandonIsStep ==
    ASSUME NEW w \in Workers, AbandonCall(w)
    PROVE  [Next]_vars
  BY WorkersAssumption DEF AbandonCall, SessionStep, Next

LEMMA StartIsCall ==
    ASSUME NEW w \in Workers, Start(w)
    PROVE  Next
  <1>1. w \in Sessions /\ ScopeOf[w] \in Scopes /\ TurnOf[w] \in Turns
    BY WorkersAssumption, RequestAssumption
  <1>2. ClientCall(w)
    BY <1>1 DEF Start, ClientCall
  <1>. QED  BY <1>1, <1>2 DEF Next

LEMMA ShowChunkIsStep ==
    ASSUME ShownInRange, NEW w \in Workers, ShowChunk(w)
    PROVE  [Next]_vars
  <1>1. w \in Sessions /\ ScopeOf[w] \in Scopes /\ TurnOf[w] \in Turns
    BY WorkersAssumption, RequestAssumption
  <1>2. shown[w] + 1 \in 0 .. Chunks
    BY ChunksAssumption DEF ShowChunk, ShownInRange
  <1>3. <<w, shown[w] + 1>> \in Texts
    BY <1>2, TextsAssumption
  <1>4. CASE Open(w, UpdateContent(ScopeOf[w], TurnOf[w], <<w, shown[w] + 1>>))
    <2>1. ClientCall(w)
      BY <1>1, <1>3, <1>4 DEF ClientCall
    <2>. QED  BY <1>1, <2>1 DEF Next
  <1>. QED  BY <1>4 DEF ShowChunk

LEMMA WorkerStepIsStep ==
    ASSUME ShownInRange, NEW w \in Workers, WorkerStep(w)
    PROVE  [Next]_vars
  <1>1. {"complete", "stopped", "failed"} \subseteq Settled
    BY DEF Settled
  <1>2. CASE Execute(w) \/ Record(w)
    BY <1>2, MakeIsStep DEF Execute, Record
  <1>3. CASE FoundCancelled(w) \/ Persist(w) \/ Unsaved(w) \/ Interrupted(w) \/ Left(w)
    BY <1>1, <1>3, FinishIsCall DEF FoundCancelled, Persist, Unsaved, Interrupted, Left
  <1>4. CASE AfterFlush(w) \/ AfterStop(w) \/ AfterExecutionFailed(w)
             \/ AfterPersistenceFailed(w) \/ AfterStreamFailed(w) \/ AfterCancelled(w)
    BY <1>1, <1>4, FinishIsCall
       DEF AfterFlush, AfterStop, AfterExecutionFailed, AfterPersistenceFailed,
           AfterStreamFailed, AfterCancelled, Proceeding
  <1>5. CASE Begun(w) \/ AfterPersist(w) \/ AfterGiveUp(w) \/ AfterLeave(w)
    BY <1>5 DEF Begun, AfterPersist, AfterGiveUp, AfterLeave, Proceeding
  <1>. QED  BY <1>2, <1>3, <1>4, <1>5, ShowChunkIsStep DEF WorkerStep

LEMMA FaultStepIsStep ==
    ASSUME ShownInRange, NEW w \in Workers, FaultStep(w)
    PROVE  [Next]_vars
  <1>1. "failed" \in Settled
    BY DEF Settled
  <1>2. CASE ExecuteFails(w) \/ CheckFails(w) \/ RecordFails(w)
    BY <1>1, <1>2, FinishIsCall DEF ExecuteFails, CheckFails, RecordFails
  <1>3. CASE Disconnect(w) \/ StopIterating(w) \/ Crash(w)
    BY <1>3, AbandonIsStep DEF Disconnect, StopIterating, Crash
  <1>. QED  BY <1>2, <1>3 DEF FaultStep

LEMMA StreamStepIsStep == ShownInRange /\ [StreamNext]_allVars => [Next]_vars
  <1>. SUFFICES ASSUME ShownInRange, [StreamNext]_allVars PROVE [Next]_vars
    OBVIOUS
  <1>1. ASSUME NEW w \in Workers, Start(w) \/ WorkerStep(w) \/ FaultStep(w)
        PROVE  [Next]_vars
    BY <1>1, StartIsCall, WorkerStepIsStep, FaultStepIsStep
  <1>2. ASSUME NEW s \in Sessions, DatabaseStep(s) \/ DatabaseFails(s)
        PROVE  Next
    BY <1>2 DEF DatabaseStep, DatabaseFails, SessionStep, Next
  <1>3. ASSUME NEW s \in Sessions, PressStop(s)
        PROVE  Next
    <2>1. ClientCall(s)
      BY <1>3, RequestAssumption DEF PressStop, ClientCall
    <2>. QED  BY <2>1 DEF Next
  <1>4. ASSUME NEW c \in Scopes, DeleteSession(c)
        PROVE  Next
    BY <1>4 DEF DeleteSession, Next
  <1>5. CASE UNCHANGED allVars
    BY <1>5 DEF allVars
  <1>. QED  BY <1>1, <1>2, <1>3, <1>4, <1>5 DEF StreamNext

(* Streams, Stop, deletions, failures, disconnections and crashes change   *)
(* the rows of a conversation only as TurnStore does.                      *)
THEOREM StreamImplementsTurnStore == StreamSpec => ImplementsTurnStore
  <1>1. StreamInit => Init /\ ShownInRange
    BY ChunksAssumption DEF StreamInit, ShownInRange
  <1>. QED  BY <1>1, ShownStaysInRange, StreamStepIsStep, PTL
            DEF StreamSpec, ImplementsTurnStore, Spec

(* So however streams overlap, a turn id stands for one exchange and no    *)
(* row outlives its conversation.                                          *)
THEOREM StreamKeepsRows == StreamSpec => [](OneExchangePerTurn /\ NoOrphanRows)
  <1>. QED  BY StreamImplementsTurnStore, OneExchange, NoOrphans, PTL DEF ImplementsTurnStore

(***************************************************************************)
(* The type of a stream                                                    *)
(***************************************************************************)
CallsInPhase == \A w \in Workers : ~Idle(w) => phase[w] \in Replied /\ call[w].turn = TurnOf[w]

StreamTypes ==
    /\ phase \in [Workers -> Phases]
    /\ persisted \in [Workers -> Results \cup {"cancelled"}]
    /\ farewell \in [Workers -> Events]
    /\ faults \in 0 .. MaxFaults

LEMMA FaultType == faults \in 0 .. MaxFaults /\ Fault => faults' \in 0 .. MaxFaults
  BY FaultsAssumption DEF Fault

LEMMA ReplyType ==
    ASSUME faults \in 0 .. MaxFaults, NEW w \in Workers, NEW p, NEW r, Reply(w, p, r)
    PROVE  Idle(w) /\ faults' \in 0 .. MaxFaults
  BY FaultType DEF Reply

LEMMA GoToType ==
    ASSUME phase \in [Workers -> Phases], NEW w \in Workers, NEW next \in Phases, GoTo(w, next)
    PROVE  /\ phase' \in [Workers -> Phases]
           /\ phase'[w] = next
           /\ \A z \in Workers \ {w} : phase'[z] = phase[z]
  BY DEF GoTo

LEMMA FarewellType ==
    ASSUME StreamTypes, NEW w \in Workers, NEW event \in Events, Farewell(w, event)
    PROVE  /\ phase' \in [Workers -> Phases]
           /\ farewell' \in [Workers -> Events]
           /\ persisted' \in [Workers -> Results \cup {"cancelled"}]
  <1>1. "ended" \in Phases
    BY DEF Phases
  <1>. QED  BY <1>1, GoToType DEF Farewell, StreamTypes

LEMMA StreamTypesStep == StreamTypes /\ [StreamNext]_allVars => StreamTypes'
  <1>. SUFFICES ASSUME StreamTypes, [StreamNext]_allVars PROVE StreamTypes'
    OBVIOUS
  <1>. USE DEF Phases, Replied
  <1>1. ASSUME NEW w \in Workers, NEW st, NEW next \in Phases, Finish(w, st, next),
               faults' \in 0 .. MaxFaults
        PROVE  StreamTypes'
    BY <1>1, GoToType DEF Finish, StreamTypes
  <1>2. ASSUME NEW w \in Workers, NEW next \in Phases, Proceeding(w, next),
               faults' \in 0 .. MaxFaults
        PROVE  StreamTypes'
    BY <1>2, GoToType DEF Proceeding, StreamTypes
  <1>3. ASSUME NEW w \in Workers, NEW event \in Events, Farewell(w, event),
               faults' \in 0 .. MaxFaults
        PROVE  StreamTypes'
    BY <1>3, FarewellType DEF StreamTypes
  <1>4. faults \in 0 .. MaxFaults /\ (UNCHANGED faults => faults' \in 0 .. MaxFaults)
    BY DEF StreamTypes
  <1>5. {"refused", "response_stopped", "response_complete", "v4_execution_failed",
         "v4_persistence_failed", "stream_incomplete", "pipeline_error"} \subseteq Events
    BY DEF Events
  <1>6. ASSUME NEW w \in Workers, WorkerStep(w)
        PROVE  StreamTypes'
    <2>1. CASE FoundCancelled(w) \/ Persist(w) \/ Unsaved(w) \/ Interrupted(w) \/ Left(w)
      BY <2>1, <1>1, <1>4 DEF FoundCancelled, Persist, Unsaved, Interrupted, Left
    <2>2. CASE Execute(w)
      BY <2>2, GoToType DEF Execute, StreamTypes
    <2>3. CASE ShowChunk(w)
      BY <2>3, GoToType DEF ShowChunk, StreamTypes
    <2>4. CASE AfterFlush(w)
      BY <2>4, <1>1, <1>2, <1>4, ReplyType DEF AfterFlush
    <2>5. CASE AfterPersist(w)
      BY <2>5, <1>4, GoToType, ReplyType DEF AfterPersist, StreamTypes
    <2>6. CASE Record(w)
      <3>1. Announced(persisted[w]) \in Events
        BY <1>5 DEF Announced
      <3>2. CASE Farewell(w, Announced(persisted[w]))
        BY <2>6, <1>3, <1>4, <3>1, <3>2 DEF Record
      <3>. QED  BY <2>6, <3>2, GoToType DEF Record, StreamTypes
    <2>7. CASE AfterStop(w) \/ AfterExecutionFailed(w) \/ AfterPersistenceFailed(w)
               \/ AfterStreamFailed(w) \/ AfterGiveUp(w)
      BY <2>7, <1>1, <1>3, <1>4, <1>5, ReplyType
         DEF AfterStop, AfterExecutionFailed, AfterPersistenceFailed, AfterStreamFailed,
             AfterGiveUp
    <2>8. CASE AfterCancelled(w) \/ AfterLeave(w)
      BY <2>8, <1>1, <1>2, <1>4, ReplyType DEF AfterCancelled, AfterLeave
    <2>9. CASE Begun(w)
      BY <2>9, <1>2, <1>3, <1>4, <1>5, ReplyType DEF Begun
    <2>. QED  BY <1>6, <2>1, <2>2, <2>3, <2>4, <2>5, <2>6, <2>7, <2>8, <2>9 DEF WorkerStep
  <1>7. ASSUME NEW w \in Workers, FaultStep(w)
        PROVE  StreamTypes'
    <2>1. CASE ExecuteFails(w) \/ CheckFails(w) \/ RecordFails(w)
      BY <2>1, <1>1, <1>4, FaultType DEF ExecuteFails, CheckFails, RecordFails
    <2>2. CASE Disconnect(w)
      <3>1. AfterCancellation(phase[w]) \in Phases
        BY DEF AfterCancellation
      <3>. QED  BY <2>2, <3>1, <1>4, GoToType, FaultType DEF Disconnect, StreamTypes
    <2>3. CASE StopIterating(w)
      BY <2>3, <1>4, GoToType, FaultType DEF StopIterating, StreamTypes
    <2>4. CASE Crash(w)
      BY <2>4, GoToType DEF Crash, StreamTypes
    <2>. QED  BY <1>7, <2>1, <2>2, <2>3, <2>4 DEF FaultStep
  <1>8. ASSUME NEW w \in Workers, Start(w)
        PROVE  StreamTypes'
    BY <1>8, GoToType DEF Start, StreamTypes
  <1>9. ASSUME NEW s \in Sessions, DatabaseStep(s) \/ DatabaseFails(s) \/ PressStop(s)
        PROVE  StreamTypes'
    BY <1>9, FaultType DEF DatabaseStep, DatabaseFails, PressStop, streams, StreamTypes
  <1>10. ASSUME NEW c \in Scopes, DeleteSession(c)
         PROVE  StreamTypes'
    BY <1>10 DEF DeleteSession, streams, StreamTypes
  <1>11. CASE UNCHANGED allVars
    BY <1>11 DEF allVars, streams, StreamTypes
  <1>. QED  BY <1>6, <1>7, <1>8, <1>9, <1>10, <1>11 DEF StreamNext

(* A worker has a call open only while stream() awaits one.                *)
LEMMA CallsInPhaseStep ==
    TypeOK /\ StreamTypes /\ CallsInPhase /\ [StreamNext]_allVars => CallsInPhase'
  <1>. SUFFICES ASSUME TypeOK, StreamTypes, CallsInPhase, [StreamNext]_allVars
                PROVE  CallsInPhase'
    OBVIOUS
  <1>. USE DEF Idle
  <1>1. ASSUME NEW w \in Workers, NEW c, Open(w, c), c.turn = TurnOf[w],
               NEW next \in Replied, GoTo(w, next)
        PROVE  CallsInPhase'
    <2>1. w \in Sessions /\ Workers \subseteq Sessions
      BY WorkersAssumption
    <2>. QED  BY <1>1, <2>1 DEF Open, TypeOK, GoTo, StreamTypes, CallsInPhase
  <1>2. ASSUME NEW w \in Workers, NEW st, NEW next \in Replied, Finish(w, st, next)
        PROVE  CallsInPhase'
    <2>1. FinishTurn(ScopeOf[w], TurnOf[w], Partial(w), st).turn = TurnOf[w]
      BY DEF FinishTurn, NoCall
    <2>. QED  BY <1>1, <1>2, <2>1 DEF Finish
  <1>3. ASSUME NEW w \in Workers, Idle(w), UNCHANGED <<call, stage>>,
               \A z \in Workers \ {w} : phase'[z] = phase[z]
        PROVE  CallsInPhase'
    BY <1>3 DEF CallsInPhase
  <1>4. ASSUME NEW w \in Workers, NEW next, GoTo(w, next)
        PROVE  \A z \in Workers \ {w} : phase'[z] = phase[z]
    BY <1>4 DEF GoTo, StreamTypes
  <1>5. ASSUME NEW w \in Workers, phase[w] \notin Replied
        PROVE  Idle(w)
    BY <1>5 DEF CallsInPhase
  <1>6. ASSUME NEW w \in Workers, WorkerStep(w)
        PROVE  CallsInPhase'
    <2>1. CASE FoundCancelled(w) \/ Persist(w) \/ Unsaved(w) \/ Interrupted(w) \/ Left(w)
      BY <2>1, <1>2 DEF FoundCancelled, Persist, Unsaved, Interrupted, Left, Replied
    <2>2. CASE Execute(w) \/ Record(w)
      BY <2>2, <1>3, <1>4, <1>5
         DEF Execute, Record, MakeConversation, Farewell, Replied
    <2>3. CASE ShowChunk(w)
      <3>1. UpdateContent(ScopeOf[w], TurnOf[w], <<w, shown[w] + 1>>).turn = TurnOf[w]
        BY DEF UpdateContent, NoCall
      <3>2. CASE UNCHANGED <<vars, phase>>
        BY <3>2 DEF vars, CallsInPhase
      <3>. QED  BY <2>3, <1>1, <3>1, <3>2 DEF ShowChunk, Replied
    <2>4. CASE Begun(w) \/ AfterPersist(w) \/ AfterGiveUp(w) \/ AfterLeave(w)
      BY <2>4, <1>3, <1>4
         DEF Begun, AfterPersist, AfterGiveUp, AfterLeave, Reply, Proceeding, Farewell, vars
    <2>5. CASE AfterFlush(w) \/ AfterStop(w) \/ AfterExecutionFailed(w)
               \/ AfterPersistenceFailed(w) \/ AfterStreamFailed(w) \/ AfterCancelled(w)
      BY <2>5, <1>2, <1>3, <1>4
         DEF AfterFlush, AfterStop, AfterExecutionFailed, AfterPersistenceFailed,
             AfterStreamFailed, AfterCancelled, Reply, Proceeding, Farewell, vars, Replied
    <2>. QED  BY <1>6, <2>1, <2>2, <2>3, <2>4, <2>5 DEF WorkerStep
  <1>7. ASSUME NEW s \in Sessions, NEW r, Return(s, r)
        PROVE  /\ stage'[s] = "idle"
               /\ \A z \in Sessions \ {s} : call'[z] = call[z] /\ stage'[z] = stage[z]
    BY <1>7, OthersOnReturn
  <1>8. ASSUME NEW w \in Workers, FaultStep(w)
        PROVE  CallsInPhase'
    <2>1. CASE ExecuteFails(w) \/ CheckFails(w) \/ RecordFails(w)
      BY <2>1, <1>2 DEF ExecuteFails, CheckFails, RecordFails, Replied
    <2>2. ASSUME AbandonCall(w), \A z \in Workers \ {w} : phase'[z] = phase[z]
          PROVE  CallsInPhase'
      BY <2>2, <1>3, <1>7, WorkersAssumption DEF AbandonCall, Fail, vars, CallsInPhase
    <2>. QED  BY <1>8, <2>1, <2>2, <1>4 DEF FaultStep, Disconnect, StopIterating, Crash
  <1>9. ASSUME NEW w \in Workers, Start(w)
        PROVE  CallsInPhase'
    <2>1. \A q : BeginMessage(ScopeOf[w], TurnOf[w], q).turn = TurnOf[w]
      BY DEF BeginMessage, NoCall
    <2>2. \A m : BeginReplay(ScopeOf[w], TurnOf[w], m).turn = TurnOf[w]
      BY DEF BeginReplay, NoCall
    <2>3. "begin" \in Replied
      BY DEF Replied
    <2>. QED  BY <1>9, <1>1, <2>1, <2>2, <2>3 DEF Start
  <1>10. ASSUME NEW s \in Sessions, DatabaseStep(s) \/ DatabaseFails(s)
         PROVE  CallsInPhase'
    <2>1. UNCHANGED phase
      BY <1>10 DEF DatabaseStep, DatabaseFails, streams
    <2>2. CASE \E r : Return(s, r)
      BY <2>1, <2>2, <1>7, WorkersAssumption DEF CallsInPhase
    <2>3. ASSUME NEW next, NEW read, Proceed(s, next, read), ~Idle(s)
          PROVE  CallsInPhase'
      <3>1. call' = call /\ \A z \in Sessions \ {s} : stage'[z] = stage[z]
        BY <2>3 DEF Proceed, TypeOK
      <3>. QED  BY <2>1, <2>3, <3>1, WorkersAssumption DEF CallsInPhase
    <2>4. ~Idle(s)
      BY <1>10 DEF DatabaseStep, DatabaseFails, CallStep, Fail, EnsureConversation,
                   BeginReadTurn, BeginReadTarget, InsertMessageTurn, InsertReplayTurn,
                   InsertConflict, ReadTurn, UpdateReadAssistant, CancelReadAssistant,
                   FinishReadAssistant, CommitConflict, UpdateCommit, CancelCommit,
                   FinishCommit
    <2>5. (\E r : Return(s, r)) \/ (\E next, read : Proceed(s, next, read))
      BY <1>10 DEF DatabaseStep, DatabaseFails, CallStep, Fail, EnsureConversation,
                   BeginReadTurn, BeginReadTarget, InsertMessageTurn, InsertReplayTurn,
                   InsertConflict, ReadTurn, UpdateReadAssistant, CancelReadAssistant,
                   FinishReadAssistant, CommitConflict, UpdateCommit, CancelCommit,
                   FinishCommit
    <2>. QED  BY <2>2, <2>3, <2>4, <2>5
  <1>11. ASSUME NEW s \in Sessions \ Workers, PressStop(s)
         PROVE  CallsInPhase'
    BY <1>11, WorkersAssumption DEF PressStop, Open, streams, TypeOK, CallsInPhase
  <1>12. ASSUME NEW c \in Scopes, DeleteSession(c)
         PROVE  CallsInPhase'
    BY <1>12 DEF DeleteSession, DeleteConversation, streams, CallsInPhase
  <1>13. CASE UNCHANGED allVars
    BY <1>13 DEF allVars, vars, streams, CallsInPhase
  <1>. QED  BY <1>6, <1>8, <1>9, <1>10, <1>11, <1>12, <1>13 DEF StreamNext

(* Streams keep their types, hand only texts of their own answer to the    *)
(* store and have at most the call open that their phase awaits.           *)
THEOREM StreamTypeCorrect == StreamSpec => []StreamTypeOK
  <1>1. StreamInit => Init /\ ShownInRange /\ StreamTypes /\ CallsInPhase
    BY ChunksAssumption, FaultsAssumption, WorkersAssumption
       DEF StreamInit, Init, ShownInRange, StreamTypes, CallsInPhase, Idle, Phases, Results,
           Events
  <1>2. StreamSpec => []TypeOK
    BY StreamImplementsTurnStore, TypeCorrect, PTL DEF ImplementsTurnStore
  <1>3. TypeOK /\ ShownInRange /\ StreamTypes /\ CallsInPhase => StreamTypeOK
    BY DEF StreamTypeOK, ShownInRange, StreamTypes, CallsInPhase
  <1>. QED  BY <1>1, <1>2, <1>3, ShownStaysInRange, StreamTypesStep, CallsInPhaseStep, PTL
            DEF StreamSpec

(***************************************************************************)
(* What was shown                                                          *)
(***************************************************************************)

(* Every request has a turn id of its own, as the clients choose them.     *)
OwnTurns == \A v, w \in Workers : TurnOf[v] = TurnOf[w] => v = w

(* The text of a turn is written only by the request that asked for it:    *)
(* Stop writes what it read, and begin_turn is called once.  So whatever a *)
(* stale call does to the status, the text is what the last committed call *)
(* of the worker says, and the invariant follows the worker from its first *)
(* flush to the farewell.                                                  *)
Kept(w)      == HasTurn(w) => AnswerOf(TurnOf[w]) = Partial(w)
Unsettled(w) == HasTurn(w) => Turn(w).status \in Active \cup {"stopped"}
Stopped(w)   == HasTurn(w) => Turn(w).status = "stopped"

CallFits(w) ==
    ~Idle(w) =>
        /\ call[w].scope = ScopeOf[w]
        /\ call[w].turn = TurnOf[w]
        /\ call[w].op = IF phase[w] = "begin" THEN "begin"
                        ELSE IF phase[w] = "flush" THEN "update" ELSE "finish"
        /\ call[w].op # "begin" => call[w].content = Partial(w)
        /\ call[w].op = "finish" => (call[w].status = "complete" <=> phase[w] = "persist")

OnlyStops == \A s \in Sessions \ Workers : ~Idle(s) => call[s].op = "cancel"

(* What a worker reads of its answer stands until it commits.              *)
ReadsOwnText(w) ==
    stage[w] \in {"assistant", "commit"} /\ HasTurn(w) =>
        /\ Turn(w).assistant = loaded[w].turn.assistant
        /\ stage[w] = "commit" => AnswerOf(TurnOf[w]) = loaded[w].message.content

Early  == {"waiting", "begin", "execute", "check", "flush"}
Saved  == {"persist", "record", "unsaved", "persistence_failed"}
Ending == {"stop", "execution_failed", "stream_failed"}

Told(w) == /\ farewell[w] \notin {"none", "refused", "pipeline_error"}
           /\ farewell[w] = "stream_incomplete" => shown[w] > 0

KeepsText(w) ==
    /\ phase[w] \in {"waiting", "begin", "execute"} => shown[w] = 0
    /\ phase[w] \in Early => Unsettled(w) /\ farewell[w] = "none"
    /\ ~Unsettled(w) => Kept(w)
    /\ phase[w] = "check" /\ shown[w] = Chunks => Kept(w) \/ Stopped(w)
    /\ phase[w] = "flush" /\ Idle(w) /\ result[w] # "error" => Kept(w) \/ Stopped(w)
    /\ phase[w] \in Saved => Kept(w)
    /\ phase[w] \in Ending /\ Idle(w) /\ result[w] # "error" => Kept(w)
    /\ stage[w] = "assistant" /\ loaded[w].turn.status \in {"complete", "failed"} => Kept(w)
    /\ ReadsOwnText(w)
    /\ Told(w) => Kept(w)
    /\ phase[w] # "ended" => farewell[w] = "none"

TextInv == OnlyStops /\ \A w \in Workers : CallFits(w) /\ KeepsText(w)

(* What the steps of everybody else do to the turn of a worker: they may   *)
(* stop it or remove it.                                                   *)
RowsStill(w) ==
    HasTurn(w)' =>
        /\ HasTurn(w)
        /\ Turn(w)'.status \in {Turn(w).status, "stopped"}
        /\ Turn(w)'.assistant = Turn(w).assistant
        /\ AnswerOf(TurnOf[w])' = AnswerOf(TurnOf[w])

LEMMA UnchangedRowsStill ==
    ASSUME NEW w \in Workers, UNCHANGED <<turns, messages>>
    PROVE  RowsStill(w)
  BY DEF RowsStill, HasTurn, Turn, TurnExists, AnswerOf, Message

LEMMA StillFacts ==
    ASSUME NEW w \in Workers, RowsStill(w)
    PROVE  /\ Kept(w) /\ shown'[w] = shown[w] => Kept(w)'
           /\ Unsettled(w) => Unsettled(w)'
           /\ Stopped(w) => Stopped(w)'
  BY DEF RowsStill, Kept, Unsettled, Stopped, Partial, HasTurn, Turn, TurnExists

LEMMA RequestTypes ==
    ASSUME NEW w \in Workers
    PROVE  w \in Sessions /\ TurnOf[w] \in Turns /\ ScopeOf[w] \in Scopes
  BY WorkersAssumption, RequestAssumption

(* Another session inserts or commits: the turn is another one, or the     *)
(* session presses Stop.                                                   *)
LEMMA OthersKeepRows ==
    ASSUME OwnTurns, TypeOK, RowsInv, TextInv, NEW w \in Workers, NEW s \in Sessions,
           CallStep(s), s # w
    PROVE  RowsStill(w)
  <1>. PICK t \in Turns : t = TurnOf[w]
    BY RequestTypes
  <1>1. CASE InsertMessageTurn(s) \/ InsertReplayTurn(s)
    <2>1. call[s].op = "begin" /\ ~Idle(s)
      BY <1>1 DEF InsertMessageTurn, InsertReplayTurn, TypeOK, SessionOK, StepFits, Idle
    <2>2. call[s].turn # t
      BY <2>1 DEF OwnTurns, TextInv, OnlyStops, CallFits
    <2>3. turns'[t] = turns[t]
      BY <1>1, <2>2, InsertEffect
    <2>4. ASSUME TurnExists(t) PROVE AnswerOf(t)' = AnswerOf(t)
      <3>1. PICK b : b = turns[t].assistant
        OBVIOUS
      <3>2. b < nextMessage
        BY <2>4, <3>1, TurnHasAnswer
      <3>3. Message(b)' = Message(b)
        BY <1>1, <3>2, InsertEffect
      <3>. QED  BY <2>3, <3>1, <3>3 DEF AnswerOf, Message
    <2>. QED  BY <2>3, <2>4 DEF RowsStill, HasTurn, Turn, TurnExists
  <1>2. CASE UpdateCommit(s) \/ CancelCommit(s) \/ FinishCommit(s)
    <2>1. PICK y, a : y = call[s].turn /\ a = loaded[s].turn.assistant
      OBVIOUS
    <2>2. /\ y \in Turns /\ a \in MessageIds /\ turns[y].assistant = a /\ messages[a].turn = y
          /\ \A z \in Turns \ {y} : turns'[z] = turns[z]
          /\ \A m \in MessageIds \ {a} : messages'[m].content = messages[m].content
          /\ CancelCommit(s) => /\ turns'[y].status = "stopped"
                                /\ messages'[a].content = messages[a].content
      BY <1>2, <2>1, CommitWrites
    <2>3. /\ turns'[t].scope = turns[t].scope
          /\ turns'[t].assistant = turns[t].assistant
          /\ TurnExists(t)' <=> TurnExists(t)
      BY <1>2, CommitKeepsIdentity
    <2>4. ~Idle(s) /\ (s \notin Workers => call[s].op = "cancel")
      BY <1>2 DEF UpdateCommit, CancelCommit, FinishCommit, Idle, TextInv, OnlyStops
    <2>5. y = t => CancelCommit(s)
      BY <1>2, <2>1, <2>4 DEF OwnTurns, TextInv, CallFits, UpdateCommit, FinishCommit
    <2>6. turns'[t].status \in {turns[t].status, "stopped"}
      BY <2>2, <2>5
    <2>7. ASSUME TurnExists(t) PROVE AnswerOf(t)' = AnswerOf(t)
      <3>1. PICK b \in MessageIds : b = turns[t].assistant /\ messages[b].turn = t
        BY <2>7, TurnHasAnswer
      <3>2. messages'[b].content = messages[b].content
        BY <2>2, <2>5, <3>1
      <3>. QED  BY <2>3, <3>1, <3>2 DEF AnswerOf, Message
    <2>. QED  BY <2>3, <2>6, <2>7 DEF RowsStill, HasTurn, Turn
  <1>3. CASE UNCHANGED <<turns, messages>>
    BY <1>3, UnchangedRowsStill
  <1>. QED  BY <1>1, <1>2, <1>3
            DEF CallStep, EnsureConversation, BeginReadTurn, BeginReadTarget, InsertConflict,
                ReadTurn, UpdateReadAssistant, CancelReadAssistant, FinishReadAssistant,
                CommitConflict, rows

LEMMA DeleteKeepsRows ==
    ASSUME TypeOK, RowsInv, NEW w \in Workers, NEW c \in Scopes, DeleteConversation(c)
    PROVE  RowsStill(w)
  <1>. PICK t \in Turns : t = TurnOf[w]
    BY RequestTypes
  <1>1. /\ turns'[t] = IF turns[t].scope = c THEN AbsentTurn ELSE turns[t]
        /\ \A m \in MessageIds :
              messages'[m] = IF messages[m].scope = c THEN AbsentMessage ELSE messages[m]
        /\ AbsentTurn.status = "absent"
    BY DEF DeleteConversation, AbsentTurn
  <1>2. SUFFICES ASSUME TurnExists(t)', turns'[t].scope = ScopeOf[w] PROVE RowsStill(w)
    BY DEF RowsStill, HasTurn, Turn
  <1>3. turns'[t] = turns[t] /\ TurnExists(t) /\ turns[t].scope # c
    BY <1>1, <1>2 DEF TurnExists
  <1>4. PICK b \in MessageIds : b = turns[t].assistant /\ messages[b].scope = turns[t].scope
    BY <1>3, TurnHasAnswer
  <1>5. messages'[b] = messages[b]
    BY <1>1, <1>3, <1>4
  <1>6. AnswerOf(t)' = AnswerOf(t)
    BY <1>3, <1>4, <1>5 DEF AnswerOf, Message
  <1>. QED  BY <1>2, <1>3, <1>6 DEF RowsStill, HasTurn, Turn

(* A worker that does not move keeps its promises when its rows stand.     *)
LEMMA OthersStand ==
    ASSUME NEW w \in Workers, RowsStill(w), CallFits(w), KeepsText(w),
           phase'[w] = phase[w], shown'[w] = shown[w], farewell'[w] = farewell[w],
           call'[w] = call[w], stage'[w] = stage[w], loaded'[w] = loaded[w],
           result'[w] = result[w]
    PROVE  (CallFits(w) /\ KeepsText(w))'
  <1>1. CallFits(w)'
    BY DEF CallFits, Idle, Partial
  <1>2. ReadsOwnText(w)'
    BY DEF KeepsText, ReadsOwnText, RowsStill, HasTurn, Turn
  <1>3. Idle(w)' = Idle(w) /\ Told(w)' = Told(w)
    BY DEF Idle, Told
  <1>. QED  BY <1>1, <1>2, <1>3, StillFacts DEF KeepsText

(***************************************************************************)
(* The worker's own calls                                                  *)
(***************************************************************************)
(* What a read of the worker finds, and what it returns with.              *)
LEMMA OwnReads ==
    ASSUME TypeOK, RowsInv, NEW w \in Workers, CallFits(w), KeepsText(w),
           \/ EnsureConversation(w) \/ BeginReadTurn(w) \/ BeginReadTarget(w)
           \/ InsertConflict(w) \/ ReadTurn(w) \/ UpdateReadAssistant(w)
           \/ CancelReadAssistant(w) \/ FinishReadAssistant(w) \/ CommitConflict(w)
    PROVE  /\ UNCHANGED <<turns, messages>>
           /\ ReadsOwnText(w)'
           /\ stage'[w] = "assistant" /\ loaded'[w].turn.status \in {"complete", "failed"}
                 => Kept(w)
           /\ Idle(w)' /\ result'[w] # "error" =>
                 \/ phase[w] = "begin"
                 \/ phase[w] = "flush" /\ (Kept(w) \/ Stopped(w))
                 \/ Kept(w)
  <1>. PICK t \in Turns : t = TurnOf[w]
    BY RequestTypes
  <1>1. w \in Sessions /\ ~Idle(w)
    BY RequestTypes
       DEF Idle, EnsureConversation, BeginReadTurn, BeginReadTarget, InsertConflict, ReadTurn,
           UpdateReadAssistant, CancelReadAssistant, FinishReadAssistant, CommitConflict
  <1>2. /\ call[w].scope = ScopeOf[w] /\ call[w].turn = t
        /\ call[w].op = IF phase[w] = "begin" THEN "begin"
                        ELSE IF phase[w] = "flush" THEN "update" ELSE "finish"
    BY <1>1 DEF CallFits
  <1>3. /\ turns \in [Turns -> TurnRow] /\ loaded \in [Sessions -> LoadedRows]
        /\ SessionOK(w)
    BY <1>1 DEF TypeOK
  <1>4. UNCHANGED <<turns, messages>>
    BY DEF EnsureConversation, BeginReadTurn, BeginReadTarget, InsertConflict, ReadTurn,
           UpdateReadAssistant, CancelReadAssistant, FinishReadAssistant, CommitConflict, rows
  <1>5. HasTurn(w) => /\ TurnExists(t) /\ turns[t].scope = ScopeOf[w]
                      /\ ScopeOf[w] \in conversations
                      /\ Message(turns[t].assistant).role = "assistant"
                      /\ AnswerOf(t) = Message(turns[t].assistant).content
    BY TurnHasAnswer DEF HasTurn, Turn, RowsInv, NoOrphanRows, AnswerOf
  <1>6. HasTurn(w)' <=> HasTurn(w)
    BY <1>4 DEF HasTurn, Turn, TurnExists
  <1>7. CASE EnsureConversation(w) \/ BeginReadTarget(w) \/ BeginReadTurn(w)
    <2>1. /\ call[w].op = "begin" /\ phase[w] = "begin"
      BY <1>1, <1>2, <1>3, <1>7
         DEF EnsureConversation, BeginReadTarget, BeginReadTurn, SessionOK, StepFits
    <2>2. stage'[w] \notin {"assistant", "commit"}
      <3>1. \/ \E r : Return(w, r)
            \/ \E next \in {"turn", "insert", "target"} : \E read : Proceed(w, next, read)
        BY <1>7 DEF EnsureConversation, BeginReadTarget, BeginReadTurn
      <3>. QED  BY <1>1, <3>1, ReturnMoves, ProceedMoves
    <2>. QED  BY <1>4, <2>1, <2>2 DEF ReadsOwnText
  <1>8. CASE InsertConflict(w) \/ CommitConflict(w)
    BY <1>1, <1>4, <1>8, ReturnMoves DEF InsertConflict, CommitConflict, ReadsOwnText
  <1>9. CASE ReadTurn(w)
    <2>1. CASE HasTurn(w) /\ OpenTo(call[w], turns[t])
      <3>1. /\ stage'[w] = "assistant" /\ loaded'[w] = [loaded[w] EXCEPT !.turn = turns[t]]
        BY <1>1, <1>2, <1>5, <1>9, <2>1, ProceedMoves DEF ReadTurn
      <3>2. loaded'[w].turn = turns[t]
        BY <1>1, <1>3, <3>1 DEF LoadedRows
      <3>3. Turn(w) = turns[t] /\ Turn(w)' = turns[t]
        BY <1>4 DEF Turn
      <3>4. turns[t].status \in {"complete", "failed"} => Kept(w)
        BY <2>1, <3>3 DEF KeepsText, Unsettled, Active
      <3>. QED  BY <1>1, <1>4, <3>1, <3>2, <3>3, <3>4 DEF ReadsOwnText, Idle
    <2>2. CASE ~(HasTurn(w) /\ OpenTo(call[w], turns[t]))
      <3>1. stage'[w] = "idle" /\ phase[w] # "begin"
        BY <1>1, <1>2, <1>9, <2>2, ReturnMoves DEF ReadTurn, HasTurn, Turn
      <3>2. CASE ~HasTurn(w)
        BY <1>4, <3>1, <3>2 DEF Kept, ReadsOwnText
      <3>3. CASE HasTurn(w)
        <4>1. phase[w] = "flush" /\ turns[t].status \notin Active
          BY <1>2, <2>2, <3>1, <3>3 DEF OpenTo
        <4>2. Stopped(w)
          BY <4>1 DEF KeepsText, Early, Unsettled, Stopped, Turn
        <4>. QED  BY <1>4, <3>1, <4>1, <4>2 DEF ReadsOwnText
      <3>. QED  BY <3>2, <3>3
    <2>. QED  BY <2>1, <2>2
  <1>10. CASE UpdateReadAssistant(w) \/ CancelReadAssistant(w) \/ FinishReadAssistant(w)
    <2>1. /\ stage[w] = "assistant" /\ ~CancelReadAssistant(w)
          /\ HasTurn(w) => turns[t].assistant = loaded[w].turn.assistant
      BY <1>2, <1>10
         DEF UpdateReadAssistant, CancelReadAssistant, FinishReadAssistant, KeepsText,
             ReadsOwnText, Turn
    <2>2. PICK row : row = Message(loaded[w].turn.assistant)
      OBVIOUS
    <2>3. HasTurn(w) => row.role = "assistant" /\ row.content = AnswerOf(t)
      BY <1>5, <2>1, <2>2
    <2>4. CASE Proceed(w, "commit", [loaded[w] EXCEPT !.message = row])
      <3>1. /\ stage'[w] = "commit" /\ loaded'[w] = [loaded[w] EXCEPT !.message = row]
        BY <1>1, <2>4, ProceedMoves
      <3>2. loaded'[w].turn = loaded[w].turn /\ loaded'[w].message = row
        BY <1>1, <1>3, <3>1 DEF LoadedRows
      <3>3. Turn(w)' = turns[t] /\ AnswerOf(TurnOf[w])' = AnswerOf(t)
        BY <1>4 DEF Turn, AnswerOf, Message
      <3>. QED  BY <1>4, <1>6, <2>1, <2>3, <3>1, <3>2, <3>3 DEF ReadsOwnText, Idle
    <2>5. CASE \E r : Return(w, r)
      <3>1. stage'[w] = "idle"
        BY <1>1, <2>5, ReturnMoves
      <3>2. Kept(w)
        <4>1. CASE loaded[w].turn.status \in {"complete", "failed"}
          BY <2>1, <4>1 DEF KeepsText
        <4>2. CASE loaded[w].turn.status \notin {"complete", "failed"}
          <5>1. ~HasTurn(w)
            <6>1. \A next, read : ~(Proceed(w, next, read) /\ next # "idle")
              BY <1>1, <3>1, ProceedMoves
            <6>. QED  BY <1>2, <1>5, <1>10, <2>1, <2>2, <2>3, <4>2, <6>1
                      DEF UpdateReadAssistant, FinishReadAssistant
          <5>. QED  BY <5>1 DEF Kept
        <4>. QED  BY <4>1, <4>2
      <3>. QED  BY <1>4, <3>1, <3>2 DEF ReadsOwnText
    <2>. QED  BY <1>10, <2>1, <2>2, <2>4, <2>5 DEF UpdateReadAssistant, FinishReadAssistant
  <1>. QED  BY <1>7, <1>8, <1>9, <1>10

(* The worker's insert makes a turn without text; its commits leave the    *)
(* text of the call.                                                       *)
LEMMA OwnInsert ==
    ASSUME TypeOK, RowsInv, NEW w \in Workers, CallFits(w), KeepsText(w), ~Idle(w),
           InsertMessageTurn(w) \/ InsertReplayTurn(w)
    PROVE  phase[w] = "begin" /\ Unsettled(w)' /\ stage'[w] = "idle"
  <1>. PICK t \in Turns : t = TurnOf[w]
    BY RequestTypes
  <1>1. w \in Sessions /\ call[w].turn = t
    BY RequestTypes DEF CallFits
  <1>2. turns'[t].status = "pending" /\ stage'[w] = "idle"
    BY <1>1, InsertEffect
  <1>3. call[w].op = "begin"
    BY <1>1 DEF InsertMessageTurn, InsertReplayTurn, TypeOK, SessionOK, StepFits
  <1>4. phase[w] = "begin"
    BY <1>3 DEF CallFits
  <1>. QED  BY <1>2, <1>4 DEF Unsettled, Turn, Active

LEMMA OwnCommit ==
    ASSUME TypeOK, RowsInv, NEW w \in Workers, CallFits(w), KeepsText(w), ~Idle(w),
           UpdateCommit(w) \/ CancelCommit(w) \/ FinishCommit(w), shown' = shown
    PROVE  /\ Kept(w)' /\ stage'[w] = "idle"
           /\ phase[w] = "flush" => Unsettled(w)'
           /\ phase[w] # "begin"
  <1>. PICK t \in Turns : t = TurnOf[w]
    BY RequestTypes
  <1>1. PICK a : a = loaded[w].turn.assistant
    OBVIOUS
  <1>2. /\ w \in Sessions /\ t = call[w].turn
        /\ call[w].scope = ScopeOf[w]
        /\ call[w].op = IF phase[w] = "begin" THEN "begin"
                        ELSE IF phase[w] = "flush" THEN "update" ELSE "finish"
        /\ call[w].op # "begin" => call[w].content = Partial(w)
        /\ call[w].op = "finish" => (call[w].status = "complete" <=> phase[w] = "persist")
    BY RequestTypes DEF CallFits
  <1>3. /\ a \in MessageIds /\ turns[t].assistant = a /\ TurnExists(t)
        /\ turns[t].scope = ScopeOf[w]
        /\ UpdateCommit(w) => /\ turns'[t].status \in {"streaming", turns[t].status}
                              /\ messages'[a].content =
                                    Written(loaded[w].message.content, call[w].content,
                                            messages[a].content)
        /\ FinishCommit(w) => messages'[a].content =
                                    Written(loaded[w].message.content, FinalContent(w),
                                            messages[a].content)
    BY <1>1, <1>2, CommitWrites
  <1>4. HasTurn(w) /\ Turn(w) = turns[t]
    BY <1>3 DEF HasTurn, Turn
  <1>5. AnswerOf(t) = messages[a].content /\ stage[w] = "commit"
    BY <1>3 DEF AnswerOf, Message, UpdateCommit, CancelCommit, FinishCommit
  <1>6. messages[a].content = loaded[w].message.content
    BY <1>4, <1>5 DEF KeepsText, ReadsOwnText
  <1>7. turns'[t].assistant = a /\ turns'[t].scope = turns[t].scope /\ TurnExists(t)'
    BY <1>2, <1>3, CommitKeepsIdentity
  <1>8. AnswerOf(t)' = messages'[a].content /\ Turn(w)' = turns'[t] /\ HasTurn(w)'
        /\ Partial(w)' = Partial(w)
    BY <1>3, <1>7 DEF AnswerOf, Message, HasTurn, Turn, Partial
  <1>9. stage'[w] = "idle"
    BY <1>2, ReturnMoves DEF UpdateCommit, CancelCommit, FinishCommit
  <1>10. CASE UpdateCommit(w)
    <2>1. call[w].op = "update" /\ phase[w] = "flush"
      BY <1>2, <1>10 DEF UpdateCommit
    <2>2. messages'[a].content = Partial(w)
      BY <1>2, <1>3, <1>6, <1>10, <2>1 DEF Written
    <2>3. turns[t].status \in Active \cup {"stopped"}
      BY <1>4, <2>1 DEF KeepsText, Early, Unsettled
    <2>. QED  BY <1>3, <1>8, <1>9, <1>10, <2>1, <2>2, <2>3 DEF Kept, Unsettled, Active
  <1>11. CASE FinishCommit(w)
    <2>1. call[w].op = "finish" /\ phase[w] \notin {"begin", "flush"}
      BY <1>2, <1>11 DEF FinishCommit
    <2>2. CASE call[w].status = "complete"
      <3>1. Kept(w)
        BY <1>2, <2>1, <2>2 DEF KeepsText, Saved
      <3>2. messages[a].content = Partial(w)
        BY <1>4, <1>5, <3>1 DEF Kept
      <3>3. messages'[a].content = Partial(w)
        BY <1>2, <1>3, <1>6, <1>11, <2>1, <3>2 DEF Written, FinalContent
      <3>. QED  BY <1>8, <1>9, <2>1, <3>3 DEF Kept
    <2>3. CASE call[w].status # "complete"
      <3>1. FinalContent(w) = Partial(w)
        BY <1>2, <2>1, <2>3 DEF FinalContent
      <3>2. messages'[a].content = Partial(w)
        BY <1>3, <1>6, <1>11, <3>1 DEF Written
      <3>. QED  BY <1>8, <1>9, <2>1, <3>2 DEF Kept
    <2>. QED  BY <2>2, <2>3
  <1>12. ~CancelCommit(w)
    BY <1>2 DEF CancelCommit
  <1>. QED  BY <1>10, <1>11, <1>12

LEMMA OwnCall ==
    ASSUME TypeOK, RowsInv, CallsInPhase, NEW w \in Workers, CallFits(w), KeepsText(w),
           CallStep(w) \/ Fail(w), UNCHANGED <<phase, shown, farewell>>
    PROVE  (CallFits(w) /\ KeepsText(w))'
  <1>1. /\ w \in Sessions /\ ~Idle(w) /\ phase[w] \in Replied
        /\ Idle(w)' \/ call'[w] = call[w]
    BY CallMoves, RequestTypes DEF CallsInPhase
  <1>2. CallFits(w)'
    BY <1>1 DEF CallFits, Partial
  <1>3. /\ phase[w] \in Early => phase[w] \in {"begin", "flush"}
        /\ phase[w] \notin {"check", "ended"}
        /\ farewell[w] = "none" /\ ~Told(w)'
    BY <1>1 DEF Early, Replied, KeepsText, Told
  <1>4. CASE Fail(w)
    <2>1. stage'[w] = "idle" /\ result'[w] = "error" /\ RowsStill(w)
      BY <1>1, <1>4, ReturnMoves, UnchangedRowsStill DEF Fail, rows
    <2>. QED  BY <1>2, <1>3, <2>1, StillFacts DEF KeepsText, ReadsOwnText
  <1>5. CASE CallStep(w)
    <2>1. \/ EnsureConversation(w) \/ BeginReadTurn(w) \/ BeginReadTarget(w)
          \/ InsertConflict(w) \/ ReadTurn(w) \/ UpdateReadAssistant(w)
          \/ CancelReadAssistant(w) \/ FinishReadAssistant(w) \/ CommitConflict(w)
          \/ InsertMessageTurn(w) \/ InsertReplayTurn(w)
          \/ UpdateCommit(w) \/ CancelCommit(w) \/ FinishCommit(w)
      BY <1>5 DEF CallStep
    <2>2. CASE \/ EnsureConversation(w) \/ BeginReadTurn(w) \/ BeginReadTarget(w)
               \/ InsertConflict(w) \/ ReadTurn(w) \/ UpdateReadAssistant(w)
               \/ CancelReadAssistant(w) \/ FinishReadAssistant(w) \/ CommitConflict(w)
      <3>1. /\ ReadsOwnText(w)'
            /\ stage'[w] = "assistant" /\ loaded'[w].turn.status \in {"complete", "failed"}
                 => Kept(w)
            /\ Idle(w)' /\ result'[w] # "error" =>
                 \/ phase[w] = "begin"
                 \/ phase[w] = "flush" /\ (Kept(w) \/ Stopped(w))
                 \/ Kept(w)
        BY <2>2, OwnReads
      <3>2. RowsStill(w)
        BY <2>2, OwnReads, UnchangedRowsStill
      <3>. QED  BY <1>2, <1>3, <3>1, <3>2, StillFacts DEF KeepsText, Ending, Saved
    <2>3. CASE InsertMessageTurn(w) \/ InsertReplayTurn(w)
      <3>1. phase[w] = "begin" /\ Unsettled(w)' /\ stage'[w] = "idle"
        BY <1>1, <2>3, OwnInsert
      <3>. QED  BY <1>2, <1>3, <3>1 DEF KeepsText, ReadsOwnText, Ending, Saved
    <2>4. CASE UpdateCommit(w) \/ CancelCommit(w) \/ FinishCommit(w)
      <3>1. /\ Kept(w)' /\ stage'[w] = "idle"
            /\ phase[w] = "flush" => Unsettled(w)'
            /\ phase[w] # "begin"
        BY <1>1, <2>4, OwnCommit
      <3>. QED  BY <1>2, <1>3, <3>1 DEF KeepsText, ReadsOwnText
    <2>. QED  BY <2>1, <2>2, <2>3, <2>4
  <1>. QED  BY <1>4, <1>5

(***************************************************************************)
(* The moves of a worker                                                   *)
(***************************************************************************)
LEMMA FinishKeeps ==
    ASSUME TypeOK, StreamTypes, ShownInRange, NEW w \in Workers, KeepsText(w),
           NEW st \in Settled,
           NEW next \in (Saved \cap Replied) \cup Ending \cup {"cancelled", "leave", "give_up"},
           phase[w] # "ended", st = "complete" <=> next = "persist",
           next \in Saved => Kept(w), Finish(w, st, next)
    PROVE  (CallFits(w) /\ KeepsText(w))'
  <1>. PICK c : c = FinishTurn(ScopeOf[w], TurnOf[w], Partial(w), st)
    OBVIOUS
  <1>1. /\ c.scope = ScopeOf[w] /\ c.turn = TurnOf[w] /\ c.op = "finish"
        /\ c.content = Partial(w) /\ c.status = st
    BY DEF FinishTurn, NoCall
  <1>2. /\ phase'[w] = next /\ shown' = shown /\ farewell' = farewell
        /\ Open(w, c) /\ w \in Sessions
    BY RequestTypes DEF Finish, GoTo, StreamTypes
  <1>3. call'[w] = c /\ stage'[w] = "turn" /\ UNCHANGED <<turns, messages>>
    BY <1>1, <1>2 DEF Open, TypeOK, rows
  <1>4. /\ next \notin Early \cup {"check", "ended", "record", "unsaved"}
        /\ next \in Saved => next # "flush"
    BY DEF Early, Saved, Ending, Replied
  <1>5. CallFits(w)' /\ ~Idle(w)'
    BY <1>1, <1>2, <1>3, <1>4 DEF CallFits, Early, Partial, Idle
  <1>6. ReadsOwnText(w)' /\ ~Told(w)'
    BY <1>2, <1>3 DEF ReadsOwnText, Told, KeepsText
  <1>7. RowsStill(w)
    BY <1>3, UnchangedRowsStill
  <1>. QED  BY <1>2, <1>3, <1>4, <1>5, <1>6, <1>7, StillFacts DEF KeepsText, Early

(* The worker, with no call open, goes on to another phase.                *)
LEMMA GoesOnKeeps ==
    ASSUME StreamTypes, NEW w \in Workers, KeepsText(w), RowsStill(w),
           NEW next, GoTo(w, next), Idle(w)', shown' = shown, farewell' = farewell,
           phase[w] # "ended",
           next \in Early =>
              /\ phase[w] \in Early
              /\ next \in {"execute", "check"}
              /\ next = "execute" => shown[w] = 0
              /\ next = "check" => shown[w] # Chunks \/ Kept(w) \/ Stopped(w),
           next \in Saved => Kept(w),
           next \notin Ending
    PROVE  (CallFits(w) /\ KeepsText(w))'
  <1>1. phase'[w] = next /\ CallFits(w)' /\ ~Told(w)'
    BY DEF GoTo, StreamTypes, CallFits, Told, KeepsText
  <1>2. ReadsOwnText(w)' /\ stage'[w] = "idle"
    BY DEF Idle, ReadsOwnText
  <1>. QED  BY <1>1, <1>2, StillFacts DEF KeepsText, Early

(* The last event is told with the text as it was shown, or tells nothing  *)
(* of the turn.                                                            *)
LEMMA FarewellKeeps ==
    ASSUME StreamTypes, NEW w \in Workers, KeepsText(w), RowsStill(w),
           NEW event, Farewell(w, event), Idle(w)',
           \/ event \in {"refused", "pipeline_error"}
           \/ event = "stream_incomplete" /\ shown[w] = 0
           \/ Kept(w)
    PROVE  (CallFits(w) /\ KeepsText(w))'
  <1>1. /\ phase'[w] = "ended" /\ CallFits(w)' /\ shown' = shown
        /\ farewell'[w] = event
    BY DEF Farewell, GoTo, StreamTypes, CallFits
  <1>2. ReadsOwnText(w)' /\ stage'[w] = "idle"
    BY DEF Idle, ReadsOwnText
  <1>3. Told(w)' => Kept(w)
    BY <1>1 DEF Told
  <1>. QED  BY <1>1, <1>2, <1>3, StillFacts DEF KeepsText, Early, Saved, Ending

LEMMA WorkerKeeps ==
    ASSUME Chunks # 0, TypeOK, StreamTypes, ShownInRange, CallsInPhase,
           NEW w \in Workers, CallFits(w), KeepsText(w), WorkerStep(w) \/ Start(w)
    PROVE  (CallFits(w) /\ KeepsText(w))'
  <1>. USE DEF Saved, Ending, Replied
  <1>1. w \in Sessions /\ {"complete", "stopped", "failed"} \subseteq Settled
    BY RequestTypes DEF Settled
  <1>2. UNCHANGED vars => RowsStill(w) /\ (Idle(w) => Idle(w)')
    BY UnchangedRowsStill DEF vars, rows, Idle
  <1>3. ASSUME NEW p, NEW r, Reply(w, p, r)
        PROVE  phase[w] = p /\ Idle(w) /\ (r # "error" => result[w] = r)
    BY <1>3 DEF Reply
  <1>4. HasTurn(w) /\ Stopped(w) => Cancelled(w)
    BY DEF HasTurn, Stopped, Cancelled, Turn
  <1>5. CASE FoundCancelled(w)
    BY <1>1, <1>5, FinishKeeps DEF FoundCancelled
  <1>6. CASE Persist(w)
    <2>1. Kept(w)
      BY <1>4, <1>6 DEF Persist, KeepsText, Kept
    <2>. QED  BY <1>1, <1>6, <2>1, FinishKeeps DEF Persist
  <1>7. CASE Unsaved(w)
    BY <1>1, <1>7, FinishKeeps DEF Unsaved, KeepsText
  <1>8. CASE Interrupted(w) \/ Left(w)
    BY <1>1, <1>8, FinishKeeps DEF Interrupted, Left
  <1>9. CASE Execute(w)
    <2>1. RowsStill(w) /\ Idle(w)'
      BY <1>9, UnchangedRowsStill DEF Execute, MakeConversation, CallsInPhase, Idle
    <2>2. shown[w] # Chunks
      BY <1>9 DEF Execute, KeepsText
    <2>. QED  BY <1>9, <2>1, <2>2, GoesOnKeeps DEF Execute, Early
  <1>10. CASE Begun(w)
    <2>1. phase[w] = "begin" /\ Idle(w) /\ shown[w] = 0
      BY <1>3, <1>10 DEF Begun, KeepsText
    <2>2. CASE Proceeding(w, "execute")
      BY <1>2, <2>1, <2>2, GoesOnKeeps DEF Proceeding, Early
    <2>3. ASSUME NEW event \in {"refused", "stream_incomplete"}, Farewell(w, event),
                 UNCHANGED vars
          PROVE  (CallFits(w) /\ KeepsText(w))'
      BY <1>2, <2>1, <2>3, FarewellKeeps
    <2>. QED  BY <1>10, <2>2, <2>3 DEF Begun
  <1>11. CASE AfterFlush(w)
    <2>1. PICK r \in Results : /\ Reply(w, "flush", r)
                              /\ IF r = "error" THEN Finish(w, "failed", "stream_failed")
                                                ELSE Proceeding(w, "check")
      BY <1>11 DEF AfterFlush
    <2>2. CASE r = "error"
      BY <1>1, <1>3, <2>1, <2>2, FinishKeeps
    <2>3. CASE r # "error"
      <3>1. Proceeding(w, "check") /\ Idle(w) /\ phase[w] = "flush" /\ result[w] # "error"
        BY <1>3, <2>1, <2>3
      <3>2. Kept(w) \/ Stopped(w)
        BY <3>1 DEF KeepsText
      <3>. QED  BY <1>2, <3>1, <3>2, GoesOnKeeps DEF Proceeding, Early
    <2>. QED  BY <2>2, <2>3
  <1>12. CASE AfterPersist(w)
    <2>1. Idle(w) /\ phase[w] = "persist"
      BY <1>3, <1>12 DEF AfterPersist
    <2>2. Kept(w)
      BY <2>1 DEF KeepsText
    <2>. QED  BY <1>2, <1>12, <2>1, <2>2, GoesOnKeeps DEF AfterPersist, Early
  <1>13. CASE Record(w)
    <2>1. phase[w] = "record" /\ RowsStill(w) /\ Idle(w)'
      BY <1>13, UnchangedRowsStill DEF Record, MakeConversation, CallsInPhase, Idle
    <2>2. Kept(w)
      BY <2>1 DEF KeepsText
    <2>3. CASE Farewell(w, Announced(persisted[w]))
      BY <2>1, <2>2, <2>3, FarewellKeeps
    <2>4. ASSUME NEW next \in {"interrupted", "unsaved"}, GoTo(w, next),
                 UNCHANGED <<shown, persisted, farewell>>
          PROVE  (CallFits(w) /\ KeepsText(w))'
      BY <2>1, <2>2, <2>4, GoesOnKeeps DEF Early
    <2>. QED  BY <1>13, <2>3, <2>4 DEF Record
  <1>14. ASSUME NEW r, NEW event, phase[w] \in Ending \cup {"persistence_failed"},
                Reply(w, phase[w], r),
                IF r = "error" THEN Finish(w, "failed", "stream_failed")
                               ELSE Farewell(w, event) /\ UNCHANGED vars
         PROVE  (CallFits(w) /\ KeepsText(w))'
    <2>1. CASE r = "error"
      BY <1>1, <1>14, <2>1, FinishKeeps
    <2>2. CASE r # "error"
      <3>1. Idle(w) /\ result[w] # "error"
        BY <1>3, <1>14, <2>2
      <3>2. Kept(w)
        BY <1>14, <3>1 DEF KeepsText
      <3>. QED  BY <1>2, <1>14, <2>2, <3>1, <3>2, FarewellKeeps
    <2>. QED  BY <2>1, <2>2
  <1>15. CASE AfterStop(w) \/ AfterExecutionFailed(w) \/ AfterPersistenceFailed(w)
    BY <1>3, <1>14, <1>15 DEF AfterStop, AfterExecutionFailed, AfterPersistenceFailed
  <1>16. CASE AfterStreamFailed(w)
    <2>1. PICK r \in Results : /\ Reply(w, "stream_failed", r)
                              /\ IF r = "error" THEN Finish(w, "stopped", "give_up")
                                                ELSE /\ Farewell(w, "stream_incomplete")
                                                     /\ UNCHANGED vars
      BY <1>16 DEF AfterStreamFailed
    <2>2. CASE r = "error"
      BY <1>1, <1>3, <2>1, <2>2, FinishKeeps
    <2>3. CASE r # "error"
      BY <1>2, <1>3, <2>1, <2>3, FarewellKeeps DEF KeepsText
    <2>. QED  BY <2>2, <2>3
  <1>17. CASE AfterGiveUp(w)
    BY <1>2, <1>3, <1>17, FarewellKeeps DEF AfterGiveUp
  <1>18. CASE AfterCancelled(w)
    <2>1. PICK r \in Results : /\ Reply(w, "cancelled", r)
                              /\ IF r = "error" THEN Finish(w, "stopped", "leave")
                                                ELSE Proceeding(w, "ended")
      BY <1>18 DEF AfterCancelled
    <2>2. CASE r = "error"
      BY <1>1, <1>3, <2>1, <2>2, FinishKeeps
    <2>3. CASE r # "error"
      BY <1>2, <1>3, <2>1, <2>3, GoesOnKeeps DEF Proceeding, Early
    <2>. QED  BY <2>2, <2>3
  <1>19. CASE AfterLeave(w)
    BY <1>2, <1>3, <1>19, GoesOnKeeps DEF AfterLeave, Proceeding, Early
  <1>20. CASE ShowChunk(w)
    <2>1. /\ phase[w] = "check" /\ shown'[w] = shown[w] + 1 /\ farewell' = farewell
          /\ Idle(w) /\ shown[w] \in Nat
      BY <1>20, ChunksAssumption DEF ShowChunk, ShownInRange, CallsInPhase
    <2>2. Unsettled(w) /\ farewell[w] = "none"
      BY <2>1 DEF KeepsText, Early
    <2>3. CASE UNCHANGED <<vars, phase>> /\ FALSE \in Flushes(w, shown[w] + 1)
      <3>1. shown'[w] # Chunks /\ RowsStill(w) /\ Idle(w)' /\ phase'[w] = "check"
        BY <1>2, <2>1, <2>3 DEF Flushes
      <3>. QED  BY <2>1, <2>2, <3>1, StillFacts
                DEF KeepsText, CallFits, ReadsOwnText, Idle, Told, Early
    <2>4. CASE /\ Open(w, UpdateContent(ScopeOf[w], TurnOf[w], <<w, shown[w] + 1>>))
               /\ GoTo(w, "flush")
      <3>. PICK c : c = UpdateContent(ScopeOf[w], TurnOf[w], <<w, shown[w] + 1>>)
        OBVIOUS
      <3>1. /\ c.scope = ScopeOf[w] /\ c.turn = TurnOf[w] /\ c.op = "update"
            /\ c.content = <<w, shown[w] + 1>>
        BY DEF UpdateContent, NoCall
      <3>2. call'[w] = c /\ stage'[w] = "turn" /\ UNCHANGED <<turns, messages>>
        BY <1>1, <2>4, <3>1 DEF Open, TypeOK, rows
      <3>3. phase'[w] = "flush" /\ c.content = Partial(w)'
        BY <2>1, <2>4, <3>1 DEF GoTo, StreamTypes, Partial
      <3>4. CallFits(w)' /\ RowsStill(w)
        BY <3>1, <3>2, <3>3, UnchangedRowsStill DEF CallFits
      <3>. QED  BY <2>1, <2>2, <3>2, <3>3, <3>4, StillFacts
                DEF KeepsText, ReadsOwnText, Idle, Told, Early
    <2>5. PICK flush \in Flushes(w, shown[w] + 1) :
             IF flush
               THEN /\ Open(w, UpdateContent(ScopeOf[w], TurnOf[w], <<w, shown[w] + 1>>))
                    /\ GoTo(w, "flush")
               ELSE UNCHANGED <<vars, phase>>
      BY <1>20 DEF ShowChunk
    <2>6. flush \in BOOLEAN
      BY DEF Flushes
    <2>7. CASE flush = TRUE
      BY <2>4, <2>5, <2>7
    <2>8. CASE flush = FALSE
      BY <2>3, <2>5, <2>8
    <2>. QED  BY <2>6, <2>7, <2>8
  <1>21. CASE Start(w)
    <2>1. /\ phase[w] = "waiting" /\ phase'[w] = "begin" /\ shown' = shown
          /\ farewell' = farewell
      BY <1>21 DEF Start, GoTo, StreamTypes
    <2>2. PICK c : Open(w, c) /\ c.op = "begin" /\ c.scope = ScopeOf[w] /\ c.turn = TurnOf[w]
      <3>1. \A q : /\ BeginMessage(ScopeOf[w], TurnOf[w], q).op = "begin"
                   /\ BeginMessage(ScopeOf[w], TurnOf[w], q).scope = ScopeOf[w]
                   /\ BeginMessage(ScopeOf[w], TurnOf[w], q).turn = TurnOf[w]
        BY DEF BeginMessage, NoCall
      <3>2. \A m : /\ BeginReplay(ScopeOf[w], TurnOf[w], m).op = "begin"
                   /\ BeginReplay(ScopeOf[w], TurnOf[w], m).scope = ScopeOf[w]
                   /\ BeginReplay(ScopeOf[w], TurnOf[w], m).turn = TurnOf[w]
        BY DEF BeginReplay, NoCall
      <3>. QED  BY <1>21, <3>1, <3>2 DEF Start
    <2>3. call'[w] = c /\ stage'[w] = "ensure" /\ UNCHANGED <<turns, messages>>
      BY <1>1, <2>2 DEF Open, TypeOK, rows
    <2>4. CallFits(w)' /\ RowsStill(w) /\ ~Idle(w)'
      BY <2>1, <2>2, <2>3, UnchangedRowsStill DEF CallFits, Idle
    <2>. QED  BY <2>1, <2>3, <2>4, StillFacts DEF KeepsText, ReadsOwnText, Told, Early
  <1>. QED  BY <1>5, <1>6, <1>7, <1>8, <1>9, <1>10, <1>11, <1>12, <1>13, <1>15, <1>16, <1>17,
               <1>18, <1>19, <1>20, <1>21 DEF WorkerStep

LEMMA AbandonKeeps ==
    ASSUME TypeOK, NEW w \in Workers, AbandonCall(w)
    PROVE  RowsStill(w) /\ Idle(w)'
  <1>1. CASE Idle(w)
    BY <1>1, UnchangedRowsStill DEF AbandonCall, vars, rows, Idle
  <1>2. CASE ~Idle(w)
    BY <1>2, RequestTypes, ReturnMoves, UnchangedRowsStill DEF AbandonCall, Fail, rows, Idle
  <1>. QED  BY <1>1, <1>2

LEMMA FaultKeeps ==
    ASSUME TypeOK, StreamTypes, ShownInRange, NEW w \in Workers, KeepsText(w), FaultStep(w)
    PROVE  (CallFits(w) /\ KeepsText(w))'
  <1>. USE DEF Saved, Ending, Replied
  <1>1. "failed" \in Settled
    BY DEF Settled
  <1>2. CASE ExecuteFails(w) \/ CheckFails(w)
    BY <1>1, <1>2, FinishKeeps DEF ExecuteFails, CheckFails
  <1>3. CASE RecordFails(w)
    BY <1>1, <1>3, FinishKeeps DEF RecordFails, KeepsText
  <1>4. CASE Disconnect(w)
    <2>. PICK next : next = AfterCancellation(phase[w])
      OBVIOUS
    <2>1. /\ next \in {"ended", "record", "left", "interrupted"}
          /\ next = "record" => phase[w] = "persist"
          /\ phase[w] # "ended"
      BY <1>4 DEF AfterCancellation, Disconnect
    <2>2. next \in Saved => Kept(w)
      BY <2>1 DEF KeepsText
    <2>. QED  BY <1>4, <2>1, <2>2, AbandonKeeps, GoesOnKeeps DEF Disconnect, Early
  <1>5. CASE StopIterating(w)
    BY <1>5, AbandonKeeps, GoesOnKeeps DEF StopIterating, Early
  <1>6. CASE Crash(w)
    BY <1>6, AbandonKeeps, GoesOnKeeps DEF Crash, Early
  <1>. QED  BY <1>2, <1>3, <1>4, <1>5, <1>6 DEF FaultStep

(***************************************************************************)
(* The whole stream                                                        *)
(***************************************************************************)

(* A step of a worker that is no step of its call touches no row, and      *)
(* neither the call nor the state of another worker.                       *)
LEMMA WorkerMoves ==
    ASSUME TypeOK, StreamTypes, ShownInRange, CallsInPhase,
           NEW w \in Workers, Start(w) \/ WorkerStep(w) \/ FaultStep(w)
    PROVE  /\ UNCHANGED <<turns, messages, overrun>>
           /\ \A z \in Sessions \ {w} :
                 /\ call'[z] = call[z] /\ stage'[z] = stage[z]
                 /\ loaded'[z] = loaded[z] /\ result'[z] = result[z]
           /\ \A z \in Workers \ {w} :
                 /\ phase'[z] = phase[z] /\ shown'[z] = shown[z]
                 /\ farewell'[z] = farewell[z]
  <1>. DEFINE Alone == /\ UNCHANGED <<turns, messages, overrun>>
                      /\ \A z \in Sessions \ {w} :
                            /\ call'[z] = call[z] /\ stage'[z] = stage[z]
                            /\ loaded'[z] = loaded[z] /\ result'[z] = result[z]
              Aside == \A z \in Workers \ {w} :
                          /\ phase'[z] = phase[z] /\ shown'[z] = shown[z]
                          /\ farewell'[z] = farewell[z]
  <1>1. w \in Sessions
    BY RequestTypes
  <1>2. ASSUME NEW c, Open(w, c) PROVE Alone
    BY <1>1, <1>2 DEF Open, rows, TypeOK
  <1>3. ASSUME AbandonCall(w) PROVE Alone
    BY <1>1, <1>3, ReturnMoves DEF AbandonCall, Fail, vars, rows
  <1>4. ASSUME UNCHANGED vars \/ MakeConversation(ScopeOf[w]) PROVE Alone
    BY <1>4 DEF vars, rows, MakeConversation
  <1>5. ASSUME NEW next, GoTo(w, next)
        PROVE  \A z \in Workers \ {w} : phase'[z] = phase[z]
    BY <1>5 DEF GoTo, StreamTypes
  <1>6. ASSUME NEW event, Farewell(w, event) PROVE Aside
    BY <1>5, <1>6 DEF Farewell, StreamTypes
  <1>7. ASSUME NEW st, NEW next, Finish(w, st, next) PROVE Alone /\ Aside
    BY <1>2, <1>5, <1>7 DEF Finish
  <1>8. ASSUME NEW next, Proceeding(w, next) PROVE Alone /\ Aside
    BY <1>4, <1>5, <1>8 DEF Proceeding
  <1>. HIDE DEF Alone
  <1>9. CASE Start(w)
    BY <1>2, <1>5, <1>9 DEF Start, Alone
  <1>10. CASE WorkerStep(w) /\ ~ShowChunk(w) /\ ~Execute(w) /\ ~AfterPersist(w) /\ ~Record(w)
    <2>. HIDE DEF Aside
    <2>1. CASE FoundCancelled(w) \/ Persist(w) \/ Unsaved(w) \/ Interrupted(w) \/ Left(w)
      BY <1>7, <2>1 DEF FoundCancelled, Persist, Unsaved, Interrupted, Left, Alone, Aside
    <2>2. CASE AfterFlush(w) \/ AfterCancelled(w) \/ AfterLeave(w)
      BY <1>7, <1>8, <2>2 DEF AfterFlush, AfterCancelled, AfterLeave, Alone, Aside
    <2>3. CASE AfterStop(w) \/ AfterExecutionFailed(w) \/ AfterPersistenceFailed(w)
               \/ AfterStreamFailed(w) \/ AfterGiveUp(w)
      BY <1>4, <1>6, <1>7, <2>3
         DEF AfterStop, AfterExecutionFailed, AfterPersistenceFailed, AfterStreamFailed,
             AfterGiveUp, Alone, Aside
    <2>4. CASE Begun(w)
      BY <1>4, <1>6, <1>8, <2>4 DEF Begun, Alone, Aside
    <2>. QED  BY <1>10, <2>1, <2>2, <2>3, <2>4 DEF WorkerStep
  <1>11. CASE Execute(w) \/ AfterPersist(w)
    BY <1>4, <1>5, <1>11 DEF Execute, AfterPersist, Alone
  <1>12. CASE Record(w)
    <2>1. Alone
      BY <1>4, <1>12 DEF Record
    <2>2. Aside
      BY <1>5, <1>6, <1>12 DEF Record
    <2>. QED  BY <2>1, <2>2 DEF Alone
  <1>13. CASE ShowChunk(w)
    <2>1. Alone
      BY <1>2, <1>4, <1>13 DEF ShowChunk
    <2>2. Aside
      BY <1>5, <1>13 DEF ShowChunk, ShownInRange
    <2>. QED  BY <2>1, <2>2 DEF Alone
  <1>14. CASE ExecuteFails(w) \/ CheckFails(w) \/ RecordFails(w)
    BY <1>7, <1>14 DEF ExecuteFails, CheckFails, RecordFails, Alone
  <1>15. CASE Disconnect(w) \/ StopIterating(w) \/ Crash(w)
    BY <1>3, <1>5, <1>15 DEF Disconnect, StopIterating, Crash, Alone
  <1>. QED  BY <1>9, <1>10, <1>11, <1>12, <1>13, <1>14, <1>15
            DEF FaultStep, Alone

LEMMA TextStep ==
    ASSUME OwnTurns, Chunks # 0, TypeOK, RowsInv, StreamTypes, ShownInRange, CallsInPhase,
           TextInv, [StreamNext]_allVars
    PROVE  TextInv'
  <1>1. ASSUME NEW w \in Workers, Start(w) \/ WorkerStep(w) \/ FaultStep(w)
        PROVE  TextInv'
    <2>1. \A z \in Workers : RowsStill(z)
      BY <1>1, WorkerMoves, UnchangedRowsStill
    <2>2. (CallFits(w) /\ KeepsText(w))'
      BY <1>1, WorkerKeeps, FaultKeeps DEF TextInv
    <2>3. ASSUME NEW z \in Workers, z # w
          PROVE  (CallFits(z) /\ KeepsText(z))'
      BY <1>1, <2>1, <2>3, WorkerMoves, OthersStand, RequestTypes DEF TextInv
    <2>4. OnlyStops'
      BY <1>1, WorkerMoves DEF TextInv, OnlyStops, Idle
    <2>. QED  BY <2>2, <2>3, <2>4 DEF TextInv
  <1>2. ASSUME NEW s \in Sessions, DatabaseStep(s) \/ DatabaseFails(s)
        PROVE  TextInv'
    <2>1. UNCHANGED <<phase, shown, farewell>> /\ (CallStep(s) \/ Fail(s))
      BY <1>2 DEF DatabaseStep, DatabaseFails, streams
    <2>2. ASSUME NEW w \in Workers, w # s
          PROVE  (CallFits(w) /\ KeepsText(w))'
      <3>1. RowsStill(w)
        BY <2>1, <2>2, OthersKeepRows, UnchangedRowsStill DEF Fail, rows
      <3>. QED  BY <2>1, <2>2, <3>1, CallMoves, OthersStand, RequestTypes DEF TextInv
    <2>3. ASSUME NEW w \in Workers, w = s
          PROVE  (CallFits(w) /\ KeepsText(w))'
      BY <2>1, <2>3, OwnCall DEF TextInv
    <2>4. OnlyStops'
      BY <2>1, CallMoves DEF TextInv, OnlyStops, Idle
    <2>. QED  BY <2>2, <2>3, <2>4 DEF TextInv
  <1>3. ASSUME NEW s \in Sessions \ Workers, PressStop(s)
        PROVE  TextInv'
    <2>1. PICK c : Open(s, c) /\ c.op = "cancel"
      <3>1. \A w : CancelTurn(ScopeOf[w], TurnOf[w]).op = "cancel"
        BY DEF CancelTurn, NoCall
      <3>. QED  BY <1>3, <3>1 DEF PressStop
    <2>2. /\ UNCHANGED <<turns, messages, phase, shown, farewell>>
          /\ call'[s] = c
          /\ \A z \in Sessions \ {s} :
                 /\ call'[z] = call[z] /\ stage'[z] = stage[z]
                 /\ loaded'[z] = loaded[z] /\ result'[z] = result[z]
      BY <1>3, <2>1 DEF Open, rows, streams, PressStop, TypeOK
    <2>3. \A w \in Workers : (CallFits(w) /\ KeepsText(w))'
      BY <1>3, <2>2, UnchangedRowsStill, OthersStand, RequestTypes DEF TextInv
    <2>4. OnlyStops'
      BY <2>1, <2>2 DEF TextInv, OnlyStops, Idle
    <2>. QED  BY <2>3, <2>4 DEF TextInv
  <1>4. ASSUME NEW c \in Scopes, DeleteSession(c)
        PROVE  TextInv'
    <2>1. UNCHANGED <<phase, shown, farewell, call, stage, loaded, result>>
      BY <1>4 DEF DeleteSession, DeleteConversation, streams
    <2>2. \A w \in Workers : (CallFits(w) /\ KeepsText(w))'
      BY <1>4, <2>1, DeleteKeepsRows, OthersStand DEF TextInv, DeleteSession
    <2>3. OnlyStops'
      BY <2>1 DEF TextInv, OnlyStops, Idle
    <2>. QED  BY <2>2, <2>3 DEF TextInv
  <1>5. CASE UNCHANGED allVars
    <2>1. UNCHANGED <<turns, messages, phase, shown, farewell, call, stage, loaded, result>>
      BY <1>5 DEF allVars, vars, rows, streams
    <2>2. \A w \in Workers : (CallFits(w) /\ KeepsText(w))'
      BY <2>1, UnchangedRowsStill, OthersStand DEF TextInv
    <2>3. OnlyStops'
      BY <2>1 DEF TextInv, OnlyStops, Idle
    <2>. QED  BY <2>2, <2>3 DEF TextInv
  <1>. QED  BY <1>1, <1>2, <1>3, <1>4, <1>5 DEF StreamNext

LEMMA TextInit == StreamInit => TextInv
  <1>. SUFFICES ASSUME StreamInit PROVE TextInv
    OBVIOUS
  <1>1. \A s \in Sessions : stage[s] = "idle" /\ Idle(s)
    BY DEF StreamInit, Init, Idle
  <1>2. \A w \in Workers : ~HasTurn(w)
    BY RequestTypes DEF StreamInit, Init, HasTurn, TurnExists, AbsentTurn
  <1>3. ASSUME NEW w \in Workers PROVE CallFits(w) /\ KeepsText(w)
    <2>1. phase[w] = "waiting" /\ shown[w] = 0 /\ farewell[w] = "none"
      BY DEF StreamInit
    <2>2. Kept(w) /\ Unsettled(w) /\ Stopped(w)
      BY <1>2 DEF Kept, Unsettled, Stopped
    <2>. QED  BY <1>1, <2>1, <2>2, RequestTypes
              DEF CallFits, KeepsText, ReadsOwnText, Told, Saved, Ending
  <1>. QED  BY <1>1, <1>3 DEF TextInv, OnlyStops

(* However flushes, Stop, late completions, failures, disconnections and   *)
(* deletions follow each other, the text that the client has seen when the *)
(* stream says farewell is the text that the history keeps: for every      *)
(* request whose turn id no other request has, and answers that are not    *)
(* empty.                                                                  *)
THEOREM WhatWasShown ==
    ASSUME OwnTurns, Chunks # 0
    PROVE  StreamSpec => []WhatWasShownIsKept
  <1>1. StreamInit => ShownInRange /\ StreamTypes /\ CallsInPhase
    BY ChunksAssumption, FaultsAssumption, WorkersAssumption
       DEF StreamInit, Init, ShownInRange, StreamTypes, CallsInPhase, Idle, Phases, Results,
           Events
  <1>2. StreamSpec => [](TypeOK /\ RowsInv)
    BY StreamImplementsTurnStore, TypeCorrect, RowsInvariant, PTL DEF ImplementsTurnStore
  <1>3. TextInv => WhatWasShownIsKept
    BY DEF TextInv, KeepsText, Told, Kept, WhatWasShownIsKept, AnswerOf, Turn
  <1>. QED  BY <1>1, <1>2, <1>3, TextInit, TextStep, ShownStaysInRange, StreamTypesStep,
               CallsInPhaseStep, PTL DEF StreamSpec

(***************************************************************************)
(* What the farewell tells                                                 *)
(***************************************************************************)
(* A completion that the worker has heard of stands, unless a Stop that    *)
(* had read the turn before overruns it.                                   *)
Completed(w) ==
    HasTurn(w) => \/ Turn(w).status = "complete"
                  \/ Turn(w).status = "stopped" /\ TurnOf[w] \in overrun

Confirms(w, st) ==
    /\ st \in {"complete", "stopped"}
    /\ st = "stopped" => Stopped(w)
    /\ st = "complete" => Completed(w)

(* The worker hears of a completion only from its own finish_turn, which   *)
(* found its turn unsettled: a turn that somebody else had failed or       *)
(* completed would have returned that.                                     *)
TellsOutcome(w) ==
    /\ phase[w] = "persist" /\ ~Idle(w) => Unsettled(w)
    /\ phase[w] = "persist" /\ stage[w] \in {"assistant", "commit"} =>
          /\ loaded[w].turn.status \in Active \cup {"stopped"}
          /\ loaded[w].turn.status = "stopped" => Stopped(w)
    /\ phase[w] = "persist" /\ Idle(w) /\ result[w] \in TurnStatus =>
          Confirms(w, result[w])
    /\ phase[w] = "record" /\ persisted[w] \in TurnStatus => Confirms(w, persisted[w])
    /\ phase[w] = "stop" => Stopped(w)
    /\ phase[w] = "stop" /\ ~Idle(w) => call[w].status = "stopped"
    /\ farewell[w] = "response_stopped" => Stopped(w)
    /\ farewell[w] = "response_complete" => Completed(w)

OutcomeInv == \A w \in Workers : TellsOutcome(w)

(* An outcome is undone only with a trace in overrun, which stays as long  *)
(* as the turn.                                                            *)
LEMMA OverrunTells ==
    ASSUME TypeOK, [Next]_vars, NEW t \in Turns, TurnExists(t), TurnExists(t)'
    PROVE  /\ t \in overrun => t \in overrun'
           /\ turns[t].status \in Settled /\ turns'[t].status # turns[t].status =>
                 t \in overrun'
  <1>1. t \in overrun => t \in overrun'
    <2>1. ASSUME NEW s \in Sessions, SessionStep(s) PROVE overrun \subseteq overrun'
      BY <2>1 DEF SessionStep, CallStep, Fail, EnsureConversation, BeginReadTurn,
                  BeginReadTarget, InsertMessageTurn, InsertReplayTurn, InsertConflict,
                  ReadTurn, UpdateReadAssistant, CancelReadAssistant, FinishReadAssistant,
                  CommitConflict, UpdateCommit, CancelCommit, FinishCommit, WriteTurn, rows
    <2>2. ASSUME NEW s \in Sessions, ClientCall(s) PROVE overrun' = overrun
      BY <2>2 DEF ClientCall, Open, rows
    <2>3. ASSUME NEW c \in Scopes, DeleteConversation(c) PROVE t \in overrun => t \in overrun'
      BY <2>3 DEF DeleteConversation, TurnExists, AbsentTurn
    <2>. QED  BY <2>1, <2>2, <2>3 DEF Next, MakeConversation, vars, rows
  <1>2. ASSUME turns[t].status \in Settled, turns'[t].status # turns[t].status
        PROVE  t \in overrun'
    <2>1. PICK s \in Sessions : UpdateCommit(s) \/ CancelCommit(s) \/ FinishCommit(s)
      BY <1>2, StatusWriters DEF TurnExists
    <2>2. call[s].turn = t /\ loaded[s].turn.status \in Active
      BY <1>2, <2>1, WriteNeedsActiveRead
    <2>. QED  BY <1>2, <2>1, <2>2
              DEF UpdateCommit, CancelCommit, FinishCommit, WriteTurn, Overruns
  <1>. QED  BY <1>1, <1>2

LEMMA OutcomesStand ==
    ASSUME TypeOK, [Next]_vars, NEW w \in Workers, RowsStill(w), TellsOutcome(w),
           phase'[w] = phase[w], persisted'[w] = persisted[w], farewell'[w] = farewell[w],
           call'[w] = call[w], stage'[w] = stage[w], loaded'[w] = loaded[w],
           result'[w] = result[w]
    PROVE  TellsOutcome(w)'
  <1>1. Completed(w) => Completed(w)'
    <2>. SUFFICES ASSUME Completed(w), HasTurn(w)' PROVE Completed(w)'
      BY DEF Completed
    <2>1. /\ HasTurn(w) /\ TurnOf[w] \in Turns
          /\ Turn(w)'.status \in {Turn(w).status, "stopped"}
      BY RequestTypes DEF RowsStill
    <2>2. /\ TurnOf[w] \in overrun => TurnOf[w] \in overrun'
          /\ Turn(w).status = "complete" /\ Turn(w)'.status # "complete" =>
                TurnOf[w] \in overrun'
      BY <2>1, OverrunTells DEF HasTurn, Turn, Settled
    <2>. QED  BY <2>1, <2>2 DEF Completed
  <1>2. \A st : Confirms(w, st) => Confirms(w, st)'
    BY <1>1, StillFacts DEF Confirms
  <1>. QED  BY <1>1, <1>2, StillFacts DEF TellsOutcome, Idle

(* The finish_turn of _persist, step by step.                              *)
LEMMA OwnPersist ==
    ASSUME TypeOK, RowsInv, NEW w \in Workers, CallFits(w), TellsOutcome(w), CallStep(w),
           phase[w] = "persist"
    PROVE  /\ ~Idle(w)' => Unsettled(w)'
           /\ stage'[w] \in {"assistant", "commit"} =>
                 /\ loaded'[w].turn.status \in Active \cup {"stopped"}
                 /\ loaded'[w].turn.status = "stopped" => Stopped(w)'
           /\ Idle(w)' /\ result'[w] \in TurnStatus => Confirms(w, result[w])'
  <1>. PICK t \in Turns : t = TurnOf[w]
    BY RequestTypes
  <1>1. /\ w \in Sessions /\ ~Idle(w) /\ call[w].turn = t /\ call[w].scope = ScopeOf[w]
        /\ call[w].op = "finish" /\ call[w].status = "complete" /\ Unsettled(w)
    BY RequestTypes, CallMoves DEF CallFits, TellsOutcome
  <1>2. /\ loaded \in [Sessions -> LoadedRows] /\ turns \in [Turns -> TurnRow] /\ SessionOK(w)
    BY <1>1 DEF TypeOK
  <1>3. stage[w] \in {"assistant", "commit"} =>
           /\ loaded[w].turn.status \in Active \cup {"stopped"}
           /\ loaded[w].turn.status = "stopped" => Stopped(w)
    BY DEF TellsOutcome
  <1>4. {"missing", "error"} \cap TurnStatus = {}
    BY DEF TurnStatus, Active, Settled
  <1>5. ReadTurn(w) \/ FinishReadAssistant(w) \/ CommitConflict(w) \/ FinishCommit(w)
    BY <1>1, <1>2
       DEF CallStep, EnsureConversation, BeginReadTurn, BeginReadTarget, InsertMessageTurn,
           InsertReplayTurn, InsertConflict, UpdateReadAssistant, CancelReadAssistant,
           UpdateCommit, CancelCommit, SessionOK, StepFits
  <1>6. CASE UNCHANGED turns /\ (Return(w, "missing") \/ Return(w, "error"))
    BY <1>1, <1>4, <1>6, ReturnMoves DEF Idle
  <1>7. UNCHANGED turns => Unsettled(w)' /\ (Stopped(w) => Stopped(w)')
    BY <1>1 DEF Unsettled, Stopped, HasTurn, Turn, TurnExists
  <1>8. CASE ReadTurn(w)
    <2>1. CASE Return(w, "missing")
      BY <1>6, <1>8, <2>1 DEF ReadTurn, rows
    <2>2. CASE /\ Proceed(w, "assistant", [loaded[w] EXCEPT !.turn = turns[t]])
               /\ TurnExists(t) /\ turns[t].scope = ScopeOf[w]
      <3>1. /\ stage'[w] = "assistant" /\ loaded'[w] = [loaded[w] EXCEPT !.turn = turns[t]]
        BY <1>1, <2>2, ProceedMoves
      <3>2. loaded'[w].turn = turns[t]
        BY <1>1, <1>2, <3>1 DEF LoadedRows
      <3>3. /\ turns[t].status \in Active \cup {"stopped"}
            /\ turns[t].status = "stopped" => Stopped(w)
        BY <1>1, <2>2 DEF Unsettled, Stopped, HasTurn, Turn
      <3>. QED  BY <1>7, <1>8, <3>1, <3>2, <3>3 DEF Idle, ReadTurn, rows
    <2>. QED  BY <1>1, <1>8, <2>1, <2>2 DEF ReadTurn
  <1>9. CASE FinishReadAssistant(w)
    <2>. PICK row : row = Message(loaded[w].turn.assistant)
      OBVIOUS
    <2>1. loaded[w].turn.status \notin {"complete", "failed"}
      BY <1>3, <1>9 DEF FinishReadAssistant, Active
    <2>2. CASE Return(w, "missing")
      BY <1>6, <1>9, <2>2 DEF FinishReadAssistant, rows
    <2>3. CASE Proceed(w, "commit", [loaded[w] EXCEPT !.message = row])
      <3>1. /\ stage'[w] = "commit" /\ loaded'[w] = [loaded[w] EXCEPT !.message = row]
        BY <1>1, <2>3, ProceedMoves
      <3>2. loaded'[w].turn = loaded[w].turn
        BY <1>1, <1>2, <3>1 DEF LoadedRows
      <3>. QED  BY <1>3, <1>7, <1>9, <3>1, <3>2 DEF Idle, FinishReadAssistant, rows
    <2>. QED  BY <1>9, <2>1, <2>2, <2>3 DEF FinishReadAssistant
  <1>10. CASE CommitConflict(w)
    BY <1>6, <1>10 DEF CommitConflict, rows
  <1>11. CASE FinishCommit(w)
    <2>1. PICK a : a = loaded[w].turn.assistant
      OBVIOUS
    <2>2. /\ turns'[t].status = Written(loaded[w].turn.status, FinalStatus(w), turns[t].status)
          /\ TurnExists(t) /\ turns[t].scope = ScopeOf[w]
      BY <1>1, <1>11, <2>1, CommitWrites
    <2>3. stage'[w] = "idle" /\ result'[w] = FinalStatus(w) /\ stage[w] = "commit"
      BY <1>1, <1>11, ReturnMoves DEF FinishCommit
    <2>4. CASE loaded[w].turn.status = "stopped"
      <3>1. turns[t].status = "stopped"
        BY <1>3, <2>2, <2>3, <2>4 DEF Stopped, HasTurn, Turn
      <3>. QED  BY <2>2, <2>3, <2>4, <3>1
                DEF Written, FinalStatus, Confirms, Stopped, Turn, Idle
    <2>5. CASE loaded[w].turn.status \in Active
      <3>1. FinalStatus(w) = "complete" /\ loaded[w].turn.status # "complete"
        BY <1>1, <2>5 DEF FinalStatus, Active
      <3>. QED  BY <2>2, <2>3, <3>1 DEF Written, Confirms, Completed, Turn, Idle
    <2>. QED  BY <1>3, <2>3, <2>4, <2>5
  <1>. QED  BY <1>5, <1>8, <1>9, <1>10, <1>11

LEMMA OwnCallOutcome ==
    ASSUME TypeOK, RowsInv, CallsInPhase, NEW w \in Workers, CallFits(w), KeepsText(w),
           TellsOutcome(w), CallStep(w) \/ Fail(w), UNCHANGED <<phase, persisted, farewell>>
    PROVE  TellsOutcome(w)'
  <1>1. /\ w \in Sessions /\ ~Idle(w) /\ phase[w] \in Replied
        /\ farewell[w] = "none" /\ phase[w] # "record"
    BY CallMoves, RequestTypes DEF CallsInPhase, Replied, KeepsText
  <1>2. "error" \notin TurnStatus /\ "stopped" \in Settled
    BY DEF TurnStatus, Active, Settled
  <1>3. CASE phase[w] = "persist"
    <2>1. CASE Fail(w)
      BY <1>1, <1>2, <1>3, <2>1, ReturnMoves DEF Fail, Idle, TellsOutcome
    <2>2. CASE CallStep(w)
      BY <1>1, <1>3, <2>2, OwnPersist DEF TellsOutcome
    <2>. QED  BY <2>1, <2>2
  <1>4. CASE phase[w] = "stop"
    <2>1. PICK t \in Turns : t = TurnOf[w] /\ t = call[w].turn
      BY <1>1, RequestTypes DEF CallFits
    <2>2. call[w].op = "finish" /\ call[w].status = "stopped" /\ Stopped(w)
      BY <1>1, <1>4 DEF CallFits, TellsOutcome
    <2>3. ~UpdateCommit(w) /\ ~CancelCommit(w) /\ ~InsertMessageTurn(w) /\ ~InsertReplayTurn(w)
      BY <1>1, <1>4, <2>2, OwnInsert DEF UpdateCommit, CancelCommit
    <2>4. Stopped(w)'
      <3>1. CASE FinishCommit(w)
        <4>1. /\ turns'[t].status = Written(loaded[w].turn.status, FinalStatus(w), turns[t].status)
              /\ TurnExists(t) /\ turns[t].scope = ScopeOf[w]
          BY <1>1, <2>1, <3>1, CommitWrites DEF CallFits
        <4>2. FinalStatus(w) = "stopped" /\ turns[t].status = "stopped"
          BY <2>1, <2>2, <4>1 DEF FinalStatus, Stopped, HasTurn, Turn
        <4>. QED  BY <2>1, <4>1, <4>2 DEF Written, Stopped, Turn
      <3>2. CASE UNCHANGED turns
        BY <2>2, <3>2 DEF Stopped, HasTurn, Turn, TurnExists
      <3>. QED  BY <2>3, <3>1, <3>2
                DEF CallStep, Fail, EnsureConversation, BeginReadTurn, BeginReadTarget,
                    InsertConflict, ReadTurn, UpdateReadAssistant, CancelReadAssistant,
                    FinishReadAssistant, CommitConflict, rows
    <2>. QED  BY <1>1, <1>4, <2>2, <2>4, CallMoves DEF TellsOutcome
  <1>5. CASE phase[w] \notin {"persist", "stop"}
    BY <1>1, <1>5 DEF TellsOutcome
  <1>. QED  BY <1>3, <1>4, <1>5

LEMMA WorkerOutcome ==
    ASSUME TypeOK, StreamTypes, ShownInRange, CallsInPhase, NEW w \in Workers,
           CallFits(w), KeepsText(w), TellsOutcome(w),
           Start(w) \/ WorkerStep(w) \/ FaultStep(w)
    PROVE  TellsOutcome(w)'
  <1>1. UNCHANGED <<turns, messages, overrun>> /\ w \in Sessions
    BY WorkerMoves, RequestTypes
  <1>2. /\ Completed(w) => Completed(w)'
        /\ Unsettled(w) => Unsettled(w)'
        /\ Stopped(w) => Stopped(w)'
        /\ \A st : Confirms(w, st) => Confirms(w, st)'
    <2>1. /\ Unsettled(w) => Unsettled(w)'
          /\ Stopped(w) => Stopped(w)'
      BY <1>1 DEF Unsettled, Stopped, HasTurn, Turn, TurnExists
    <2>2. Completed(w) => Completed(w)'
      BY <1>1 DEF Completed, HasTurn, Turn, TurnExists
    <2>. QED  BY <2>1, <2>2 DEF Confirms
  <1>3. phase[w] # "ended" => farewell[w] = "none"
    BY DEF KeepsText
  <1>4. ASSUME NEW next, GoTo(w, next), farewell' = farewell, phase[w] # "ended",
               next \notin {"persist", "record", "stop"}
        PROVE  TellsOutcome(w)'
    BY <1>3, <1>4 DEF GoTo, StreamTypes, TellsOutcome
  <1>5. ASSUME NEW st, NEW next, Finish(w, st, next), phase[w] # "ended",
               next \notin {"persist", "stop", "record"}
        PROVE  TellsOutcome(w)'
    BY <1>4, <1>5 DEF Finish
  <1>6. ASSUME NEW next, Proceeding(w, next), phase[w] # "ended",
               next \notin {"persist", "stop", "record"}
        PROVE  TellsOutcome(w)'
    BY <1>4, <1>6 DEF Proceeding
  <1>7. ASSUME NEW event, Farewell(w, event),
               event = "response_stopped" => Stopped(w),
               event = "response_complete" => Completed(w)
        PROVE  TellsOutcome(w)'
    BY <1>2, <1>7 DEF Farewell, GoTo, StreamTypes, TellsOutcome
  <1>8. ASSUME NEW p, NEW r, Reply(w, p, r)
        PROVE  phase[w] = p /\ Idle(w) /\ (r # "error" => result[w] = r)
    BY <1>8 DEF Reply
  <1>9. CASE Unsaved(w) \/ Interrupted(w) \/ Left(w)
    BY <1>5, <1>9 DEF Unsaved, Interrupted, Left
  <1>10. CASE FoundCancelled(w)
    <2>1. Stopped(w)
      BY <1>10 DEF FoundCancelled, Cancelled, Stopped, Turn
    <2>2. phase'[w] = "stop" /\ farewell'[w] = "none"
      BY <1>3, <1>10 DEF FoundCancelled, Finish, GoTo, StreamTypes
    <2>3. call'[w].status = "stopped"
      <3>1. \A c, t, x, st : FinishTurn(c, t, x, st).status = st
        BY DEF FinishTurn, NoCall
      <3>. QED  BY <1>1, <1>10, <3>1 DEF FoundCancelled, Finish, Open, TypeOK
    <2>. QED  BY <1>2, <2>1, <2>2, <2>3 DEF TellsOutcome
  <1>11. CASE Persist(w)
    <2>1. Unsettled(w)
      BY <1>11 DEF Persist, KeepsText, Early
    <2>2. phase'[w] = "persist" /\ farewell'[w] = "none"
      BY <1>3, <1>11 DEF Persist, Finish, GoTo, StreamTypes
    <2>3. stage'[w] = "turn"
      <3>1. \A c, t, x, st : FinishTurn(c, t, x, st).op = "finish"
        BY DEF FinishTurn, NoCall
      <3>. QED  BY <1>1, <1>11, <3>1 DEF Persist, Finish, Open, TypeOK
    <2>. QED  BY <1>2, <2>1, <2>2, <2>3 DEF TellsOutcome, Idle
  <1>12. CASE Execute(w)
    BY <1>4, <1>12 DEF Execute
  <1>13. CASE Begun(w)
    BY <1>6, <1>7, <1>8, <1>13 DEF Begun
  <1>14. CASE AfterFlush(w) \/ AfterCancelled(w) \/ AfterLeave(w)
    BY <1>5, <1>6, <1>8, <1>14 DEF AfterFlush, AfterCancelled, AfterLeave
  <1>15. CASE AfterPersist(w)
    <2>1. PICK r : /\ Reply(w, "persist", r)
                   /\ persisted' = [persisted EXCEPT ![w] = r] /\ GoTo(w, "record")
                   /\ farewell' = farewell
      BY <1>15 DEF AfterPersist
    <2>2. phase'[w] = "record" /\ persisted'[w] = r /\ farewell'[w] = "none"
      BY <1>3, <1>8, <2>1 DEF GoTo, StreamTypes
    <2>3. r \in TurnStatus => Confirms(w, r)
      <3>1. "error" \notin TurnStatus
        BY DEF TurnStatus, Active, Settled
      <3>. QED  BY <1>8, <2>1, <3>1 DEF TellsOutcome
    <2>. QED  BY <1>2, <2>2, <2>3 DEF TellsOutcome
  <1>16. CASE Record(w)
    <2>1. CASE persisted[w] \in TurnStatus /\ Farewell(w, Announced(persisted[w]))
      <3>1. Confirms(w, persisted[w])
        BY <1>16, <2>1 DEF Record, TellsOutcome
      <3>. QED  BY <1>7, <2>1, <3>1 DEF Announced, Confirms
    <2>. QED  BY <1>4, <1>16, <2>1 DEF Record
  <1>17. CASE AfterStop(w)
    <2>1. phase[w] = "stop"
      BY <1>8, <1>17 DEF AfterStop
    <2>2. Stopped(w)
      BY <2>1 DEF TellsOutcome
    <2>. QED  BY <1>5, <1>7, <1>17, <2>1, <2>2 DEF AfterStop
  <1>18. CASE AfterExecutionFailed(w) \/ AfterPersistenceFailed(w) \/ AfterStreamFailed(w)
              \/ AfterGiveUp(w)
    BY <1>5, <1>7, <1>8, <1>18
       DEF AfterExecutionFailed, AfterPersistenceFailed, AfterStreamFailed, AfterGiveUp
  <1>19. CASE ShowChunk(w)
    <2>1. phase'[w] \in {"check", "flush"} /\ farewell'[w] = "none"
      BY <1>3, <1>19 DEF ShowChunk, GoTo, StreamTypes
    <2>. QED  BY <2>1 DEF TellsOutcome
  <1>20. CASE ExecuteFails(w) \/ CheckFails(w) \/ RecordFails(w)
    BY <1>5, <1>20 DEF ExecuteFails, CheckFails, RecordFails
  <1>21. CASE StopIterating(w) \/ Crash(w)
    BY <1>4, <1>21 DEF StopIterating, Crash
  <1>22. CASE Disconnect(w)
    <2>. PICK next : next = AfterCancellation(phase[w])
      OBVIOUS
    <2>1. /\ next \in {"ended", "record", "left", "interrupted"} /\ phase[w] # "ended"
          /\ next = "record" => phase[w] = "persist"
      BY <1>22 DEF AfterCancellation, Disconnect, Replied
    <2>2. CASE next # "record"
      BY <1>4, <1>22, <2>1, <2>2 DEF Disconnect
    <2>3. CASE next = "record"
      <3>1. phase'[w] = "record" /\ persisted'[w] = "cancelled" /\ farewell'[w] = "none"
        BY <1>3, <1>22, <2>1, <2>3 DEF Disconnect, GoTo, StreamTypes
      <3>. QED  BY <3>1 DEF TellsOutcome, TurnStatus, Active, Settled
    <2>. QED  BY <2>2, <2>3
  <1>23. CASE Start(w)
    BY <1>4, <1>23 DEF Start
  <1>. QED  BY <1>9, <1>10, <1>11, <1>12, <1>13, <1>14, <1>15, <1>16, <1>17, <1>18, <1>19,
               <1>20, <1>21, <1>22, <1>23 DEF WorkerStep, FaultStep

LEMMA OthersOutcome ==
    ASSUME TypeOK, StreamTypes, NEW w \in Workers, Start(w) \/ WorkerStep(w) \/ FaultStep(w)
    PROVE  \A z \in Workers \ {w} : persisted'[z] = persisted[z]
  <1>1. CASE Start(w) \/ FaultStep(w)
    BY <1>1 DEF Start, FaultStep, ExecuteFails, CheckFails, RecordFails, Disconnect,
                StopIterating, Crash, Finish, StreamTypes
  <1>2. CASE WorkerStep(w)
    BY <1>2 DEF WorkerStep, Begun, Execute, FoundCancelled, ShowChunk, AfterFlush, Persist,
                AfterPersist, Record, Unsaved, AfterStop, AfterExecutionFailed,
                AfterPersistenceFailed, AfterStreamFailed, AfterGiveUp, Interrupted,
                AfterCancelled, Left, AfterLeave, Finish, Farewell, Proceeding, StreamTypes
  <1>. QED  BY <1>1, <1>2

LEMMA OutcomeStep ==
    ASSUME OwnTurns, TypeOK, RowsInv, StreamTypes, ShownInRange, CallsInPhase, TextInv,
           OutcomeInv, [StreamNext]_allVars
    PROVE  OutcomeInv'
  <1>. [Next]_vars
    BY StreamStepIsStep
  <1>1. ASSUME NEW w \in Workers, Start(w) \/ WorkerStep(w) \/ FaultStep(w)
        PROVE  OutcomeInv'
    <2>1. TellsOutcome(w)'
      BY <1>1, WorkerOutcome DEF TextInv, OutcomeInv
    <2>2. ASSUME NEW z \in Workers, z # w
          PROVE  TellsOutcome(z)'
      <3>1. RowsStill(z)
        BY <1>1, WorkerMoves, UnchangedRowsStill
      <3>2. /\ phase'[z] = phase[z] /\ farewell'[z] = farewell[z]
            /\ call'[z] = call[z] /\ stage'[z] = stage[z]
            /\ loaded'[z] = loaded[z] /\ result'[z] = result[z]
        BY <1>1, <2>2, WorkerMoves, RequestTypes
      <3>3. persisted'[z] = persisted[z]
        BY <1>1, <2>2, OthersOutcome
      <3>. QED  BY <3>1, <3>2, <3>3, OutcomesStand DEF OutcomeInv
    <2>. QED  BY <2>1, <2>2 DEF OutcomeInv
  <1>2. ASSUME NEW s \in Sessions, DatabaseStep(s) \/ DatabaseFails(s)
        PROVE  OutcomeInv'
    <2>1. UNCHANGED <<phase, persisted, farewell>> /\ (CallStep(s) \/ Fail(s))
      BY <1>2 DEF DatabaseStep, DatabaseFails, streams
    <2>2. ASSUME NEW w \in Workers, w # s
          PROVE  TellsOutcome(w)'
      <3>1. RowsStill(w)
        BY <2>1, <2>2, OthersKeepRows, UnchangedRowsStill DEF Fail, rows
      <3>. QED  BY <2>1, <2>2, <3>1, CallMoves, OutcomesStand, RequestTypes DEF OutcomeInv
    <2>3. ASSUME NEW w \in Workers, w = s
          PROVE  TellsOutcome(w)'
      BY <2>1, <2>3, OwnCallOutcome DEF TextInv, OutcomeInv
    <2>. QED  BY <2>2, <2>3 DEF OutcomeInv
  <1>3. ASSUME NEW s \in Sessions \ Workers, PressStop(s)
        PROVE  OutcomeInv'
    <2>1. PICK c : Open(s, c)
      BY <1>3 DEF PressStop
    <2>2. /\ UNCHANGED <<turns, messages, phase, persisted, farewell>>
          /\ \A z \in Sessions \ {s} :
                 /\ call'[z] = call[z] /\ stage'[z] = stage[z]
                 /\ loaded'[z] = loaded[z] /\ result'[z] = result[z]
      BY <1>3, <2>1 DEF Open, rows, streams, PressStop, TypeOK
    <2>. QED  BY <1>3, <2>2, UnchangedRowsStill, OutcomesStand, RequestTypes DEF OutcomeInv
  <1>4. ASSUME NEW c \in Scopes, DeleteSession(c)
        PROVE  OutcomeInv'
    <2>1. UNCHANGED <<phase, persisted, farewell, call, stage, loaded, result>>
      BY <1>4 DEF DeleteSession, DeleteConversation, streams
    <2>. QED  BY <1>4, <2>1, DeleteKeepsRows, OutcomesStand DEF OutcomeInv, DeleteSession
  <1>5. CASE UNCHANGED allVars
    <2>1. UNCHANGED <<turns, messages, phase, persisted, farewell, call, stage, loaded, result>>
      BY <1>5 DEF allVars, vars, rows, streams
    <2>. QED  BY <2>1, UnchangedRowsStill, OutcomesStand DEF OutcomeInv
  <1>. QED  BY <1>1, <1>2, <1>3, <1>4, <1>5 DEF StreamNext

(* response_stopped is sent only of a turn that the history shows stopped  *)
(* and response_complete only of one that it shows complete, whatever      *)
(* other tabs, disconnections and failures do meanwhile, except that a     *)
(* Stop that read the turn before its completion may stop it after.        *)
THEOREM FarewellTells ==
    ASSUME OwnTurns, Chunks # 0
    PROVE  StreamSpec => []FarewellTellsOutcome
  <1>1. StreamInit => ShownInRange /\ StreamTypes /\ CallsInPhase
    BY ChunksAssumption, FaultsAssumption, WorkersAssumption
       DEF StreamInit, Init, ShownInRange, StreamTypes, CallsInPhase, Idle, Phases, Results,
           Events
  <1>2. StreamSpec => [](TypeOK /\ RowsInv)
    BY StreamImplementsTurnStore, TypeCorrect, RowsInvariant, PTL DEF ImplementsTurnStore
  <1>3. OutcomeInv => FarewellTellsOutcome
    BY DEF OutcomeInv, TellsOutcome, Stopped, Completed, FarewellTellsOutcome
  <1>4. StreamInit => OutcomeInv
    BY DEF StreamInit, OutcomeInv, TellsOutcome
  <1>. QED  BY <1>1, <1>2, <1>3, <1>4, TextInit, TextStep, OutcomeStep, ShownStaysInRange,
               StreamTypesStep, CallsInPhaseStep, PTL DEF StreamSpec
=============================================================================
