--------------------------- MODULE TurnStoreProofs ---------------------------
(***************************************************************************)
(* Proofs about TurnStore, for every set of sessions, scopes, turns,       *)
(* questions and texts and every bound on message ids.                     *)
(***************************************************************************)
EXTENDS TurnStore, TLAPS

(***************************************************************************)
(* Type correctness                                                        *)
(***************************************************************************)

(* The row of a message that is or is not there is a message row.          *)
LEMMA MessageType ==
    ASSUME messages \in [MessageIds -> MessageRow], NEW m
    PROVE  Message(m) \in MessageRow
  <1>1. AbsentMessage \in MessageRow
    BY MaxMessagesAssumption DEF AbsentMessage, MessageRow, Contents
  <1>. QED  BY <1>1 DEF Message

LEMMA NoCallType == NoCall \in Call
  BY MaxMessagesAssumption DEF NoCall, Call, Contents

LEMMA NothingLoadedType == NothingLoaded \in LoadedRows
  BY MaxMessagesAssumption
     DEF LoadedRows, NothingLoaded, AbsentTurn, AbsentMessage, TurnRow, MessageRow, Contents

(* A call that ends leaves well-typed session state.                       *)
LEMMA ReturnType ==
    ASSUME TypeOK, NEW s \in Sessions, NEW r \in Results, Return(s, r)
    PROVE  /\ call' \in [Sessions -> Call]
           /\ stage' \in [Sessions -> Stages]
           /\ loaded' \in [Sessions -> LoadedRows]
           /\ result' \in [Sessions -> Results]
           /\ \A z \in Sessions : SessionOK(z)'
  <1>1. /\ call' \in [Sessions -> Call]
        /\ stage' \in [Sessions -> Stages]
        /\ loaded' \in [Sessions -> LoadedRows]
        /\ result' \in [Sessions -> Results]
    BY NoCallType, NothingLoadedType DEF TypeOK, Return, Stages
  <1>2. ASSUME NEW z \in Sessions
        PROVE  SessionOK(z)'
    <2>1. CASE z = s
      BY <2>1 DEF SessionOK, StepFits, Return, NoCall, TypeOK
    <2>2. CASE z # s
      BY <2>2 DEF SessionOK, Return, TypeOK
    <2>. QED  BY <2>1, <2>2
  <1>. QED  BY <1>1, <1>2

(* A call that goes on keeps well-typed session state when what it reads   *)
(* fits the step it goes on to.                                            *)
LEMMA ProceedType ==
    ASSUME TypeOK, NEW s \in Sessions, NEW next \in Stages, NEW read \in LoadedRows,
           Proceed(s, next, read), stage[s] # "idle",
           StepFits(next, call[s].op, read.turn.status)
    PROVE  /\ call' \in [Sessions -> Call]
           /\ stage' \in [Sessions -> Stages]
           /\ loaded' \in [Sessions -> LoadedRows]
           /\ result' \in [Sessions -> Results]
           /\ \A z \in Sessions : SessionOK(z)'
  <1>1. /\ call' \in [Sessions -> Call]
        /\ stage' \in [Sessions -> Stages]
        /\ loaded' \in [Sessions -> LoadedRows]
        /\ result' \in [Sessions -> Results]
    BY DEF TypeOK, Proceed
  <1>2. ASSUME NEW z \in Sessions
        PROVE  SessionOK(z)'
    <2>1. CASE z = s
      BY <2>1 DEF SessionOK, Proceed, TypeOK
    <2>2. CASE z # s
      BY <2>2 DEF SessionOK, Proceed, TypeOK
    <2>. QED  BY <2>1, <2>2
  <1>. QED  BY <1>1, <1>2

LEMMA OpenType ==
    ASSUME TypeOK, NEW s \in Sessions, NEW c \in Call, Open(s, c),
           c.scope \in Scopes, c.turn \in Turns,
           c.op = "begin" /\ c.target = 0 => c.query \in Questions,
           c.op = "finish" => c.status \in Settled
    PROVE  TypeOK'
  <1>1. ASSUME NEW z \in Sessions
        PROVE  SessionOK(z)'
    <2>1. CASE z = s
      BY <2>1 DEF SessionOK, StepFits, Open, TypeOK, Idle
    <2>2. CASE z # s
      BY <2>2 DEF SessionOK, Open, TypeOK
    <2>. QED  BY <2>1, <2>2
  <1>. QED  BY <1>1 DEF Open, TypeOK, rows, Stages, Results

LEMMA ClientCallType ==
    ASSUME TypeOK, NEW s \in Sessions, ClientCall(s)
    PROVE  TypeOK'
  <1>. USE NoCallType
  <1>1. ASSUME NEW c \in Scopes, NEW t \in Turns, NEW q \in Questions,
               Open(s, BeginMessage(c, t, q))
        PROVE  TypeOK'
    <2>1. BeginMessage(c, t, q) \in Call
      BY DEF BeginMessage, NoCall, Call
    <2>. QED  BY <2>1, <1>1, OpenType DEF BeginMessage, NoCall
  <1>2. ASSUME NEW c \in Scopes, NEW t \in Turns, NEW m \in MessageIds,
               Open(s, BeginReplay(c, t, m))
        PROVE  TypeOK'
    <2>1. m \in 0 .. MaxMessages /\ m # 0
      BY MaxMessagesAssumption DEF MessageIds
    <2>2. BeginReplay(c, t, m) \in Call
      BY <2>1 DEF BeginReplay, NoCall, Call
    <2>. QED  BY <2>1, <2>2, <1>2, OpenType DEF BeginReplay, NoCall
  <1>3. ASSUME NEW c \in Scopes, NEW t \in Turns, NEW x \in Texts,
               Open(s, UpdateContent(c, t, x))
        PROVE  TypeOK'
    <2>1. UpdateContent(c, t, x) \in Call
      BY DEF UpdateContent, NoCall, Call, Contents
    <2>. QED  BY <2>1, <1>3, OpenType DEF UpdateContent, NoCall
  <1>4. ASSUME NEW c \in Scopes, NEW t \in Turns, Open(s, CancelTurn(c, t))
        PROVE  TypeOK'
    <2>1. CancelTurn(c, t) \in Call
      BY DEF CancelTurn, NoCall, Call
    <2>. QED  BY <2>1, <1>4, OpenType DEF CancelTurn, NoCall
  <1>5. ASSUME NEW c \in Scopes, NEW t \in Turns, NEW x \in Texts, NEW st \in Settled,
               Open(s, FinishTurn(c, t, x, st))
        PROVE  TypeOK'
    <2>1. FinishTurn(c, t, x, st) \in Call
      BY DEF FinishTurn, NoCall, Call, Contents
    <2>. QED  BY <2>1, <1>5, OpenType DEF FinishTurn, NoCall
  <1>. QED  BY <1>1, <1>2, <1>3, <1>4, <1>5 DEF ClientCall

(* A commit writes a status and a text that are well typed.                *)
LEMMA WrittenMessageType ==
    ASSUME TypeOK, NEW s \in Sessions, NEW st \in TurnStatus, NEW x \in Contents,
           loaded[s].turn.assistant \in MessageIds
    PROVE  WrittenMessage(s, st, x) \in MessageRow
  <1>1. messages[loaded[s].turn.assistant] \in MessageRow
    BY DEF TypeOK
  <1>2. st \in TurnStatus \cup {"absent", "superseded"}
    OBVIOUS
  <1>. QED  BY <1>1, <1>2 DEF WrittenMessage, Written, MessageRow

LEMMA WriteTurnType ==
    ASSUME TypeOK, NEW s \in Sessions, NEW st \in TurnStatus, WriteTurn(s, st)
    PROVE  /\ turns' \in [Turns -> TurnRow]
           /\ call[s].turn \in Turns => overrun' \subseteq Turns
  <1>1. /\ turns \in [Turns -> TurnRow] /\ overrun \subseteq Turns
        /\ st \in TurnStatus \cup {"absent"}
    BY DEF TypeOK
  <1>2. PICK v \in TurnStatus \cup {"absent"} :
           call[s].turn \in Turns => turns' = [turns EXCEPT ![call[s].turn].status = v]
    BY <1>1 DEF WriteTurn, Written, TurnRow
  <1>3. call[s].turn \notin Turns => turns' = turns
    BY <1>1 DEF WriteTurn
  <1>4. \A t \in Turns : [turns[t] EXCEPT !.status = v] \in TurnRow
    BY <1>1, <1>2 DEF TurnRow
  <1>5. call[s].turn \in Turns => overrun' \subseteq Turns
    BY <1>1 DEF WriteTurn
  <1>. QED  BY <1>1, <1>2, <1>3, <1>4, <1>5

(* The answer a commit writes to is there.                                 *)
LEMMA CommitTarget ==
    ASSUME NEW s \in Sessions, CanCommit(s)
    PROVE  loaded[s].turn.assistant \in MessageIds
  BY DEF CanCommit, Message, AbsentMessage

(* The rows that begin_turn inserts are well typed.                        *)
LEMMA NewRowsType ==
    ASSUME NEW c \in Call, c.scope \in Scopes, c.turn \in Turns
    PROVE  /\ UserMessage(c) \in MessageRow
           /\ Placeholder(c) \in MessageRow
           /\ \A x \in Contents, u \in 0 .. MaxMessages, a \in 0 .. MaxMessages :
                 NewTurn(c, x, u, a) \in TurnRow
  <1>1. c.query \in Contents
    BY DEF Call, Contents
  <1>2. AbsentMessage \in MessageRow
    BY MaxMessagesAssumption DEF AbsentMessage, MessageRow, Contents
  <1>3. UserMessage(c) \in MessageRow
    BY <1>1, MaxMessagesAssumption DEF UserMessage, MessageRow, TurnStatus, Settled
  <1>4. Placeholder(c) \in MessageRow
    BY MaxMessagesAssumption DEF Placeholder, MessageRow, TurnStatus, Active, Contents
  <1>5. ASSUME NEW x \in Contents, NEW u \in 0 .. MaxMessages, NEW a \in 0 .. MaxMessages
        PROVE  NewTurn(c, x, u, a) \in TurnRow
    BY DEF NewTurn, TurnRow, Call, TurnStatus, Active
  <1>. QED  BY <1>3, <1>4, <1>5

LEMMA BeginStepType ==
    ASSUME TypeOK, NEW s \in Sessions,
           \/ EnsureConversation(s) \/ BeginReadTurn(s) \/ BeginReadTarget(s)
           \/ InsertMessageTurn(s) \/ InsertReplayTurn(s) \/ InsertConflict(s)
    PROVE  TypeOK'
  <1>. USE MaxMessagesAssumption DEF rows
  <1>1. /\ call[s] \in Call
        /\ loaded[s] \in LoadedRows
        /\ SessionOK(s)
        /\ \A t \in Turns : turns[t] \in TurnRow
        /\ \A m \in MessageIds : messages[m] \in MessageRow
    BY DEF TypeOK
  <1>2. CASE EnsureConversation(s)
    <2>1. call[s].scope \in Scopes /\ stage[s] # "idle"
      BY <1>1, <1>2 DEF EnsureConversation, SessionOK
    <2>2. "turn" \in Stages /\ StepFits("turn", call[s].op, loaded[s].turn.status)
      BY DEF Stages, StepFits
    <2>. QED  BY <1>1, <1>2, <2>1, <2>2, ProceedType DEF EnsureConversation, TypeOK
  <1>3. CASE BeginReadTurn(s)
    <2>1. stage[s] # "idle" /\ call[s].turn \in Turns
      BY <1>1, <1>3 DEF BeginReadTurn, SessionOK
    <2>2. CASE Return(s, "refused")
      BY <1>3, <2>2, ReturnType DEF BeginReadTurn, TypeOK, Results
    <2>3. CASE TurnExists(call[s].turn) /\ Return(s, turns[call[s].turn].status)
      <3>1. turns[call[s].turn].status \in Results
        BY <1>1, <2>1, <2>3 DEF TurnRow, Results, TurnExists
      <3>. QED  BY <1>3, <2>3, <3>1, ReturnType DEF BeginReadTurn, TypeOK
    <2>4. CASE Proceed(s, IF call[s].target = 0 THEN "insert" ELSE "target", loaded[s])
      <3>. DEFINE next == IF call[s].target = 0 THEN "insert" ELSE "target"
      <3>1. next \in Stages /\ StepFits(next, call[s].op, loaded[s].turn.status)
        BY <1>3 DEF BeginReadTurn, Stages, StepFits
      <3>. QED  BY <1>1, <1>3, <2>1, <2>4, <3>1, ProceedType DEF BeginReadTurn, TypeOK
    <2>. QED  BY <1>3, <2>2, <2>3, <2>4 DEF BeginReadTurn
  <1>4. CASE BeginReadTarget(s)
    <2>1. CASE Return(s, "refused")
      BY <1>4, <2>1, ReturnType DEF BeginReadTarget, TypeOK, Results
    <2>2. CASE ~Return(s, "refused")
      <3>. DEFINE read(u) == [loaded[s] EXCEPT !.question = u, !.message = messages[u]]
      <3>1. PICK u \in MessageIds : Proceed(s, "insert", read(u))
        BY <1>4, <2>2 DEF BeginReadTarget, QuestionsBefore
      <3>2. read(u) \in LoadedRows
        <4>1. u \in 0 .. MaxMessages /\ messages[u] \in MessageRow
          BY <1>1 DEF MessageIds
        <4>. QED  BY <1>1, <4>1 DEF LoadedRows
      <3>3. /\ stage[s] # "idle" /\ "insert" \in Stages
            /\ StepFits("insert", call[s].op, read(u).turn.status)
        BY <1>1, <1>4 DEF BeginReadTarget, SessionOK, StepFits, Stages
      <3>4. UNCHANGED rows
        BY <1>4 DEF BeginReadTarget
      <3>. HIDE DEF read
      <3>. QED  BY <3>1, <3>2, <3>3, <3>4, ProceedType DEF TypeOK
    <2>. QED  BY <2>1, <2>2
  <1>5. CASE InsertMessageTurn(s)
    <2>1. call[s].scope \in Scopes /\ call[s].turn \in Turns /\ call[s].query \in Contents
      BY <1>1, <1>5 DEF InsertMessageTurn, SessionOK, StepFits, Contents
    <2>2. "pending" \in Results
      BY DEF Results, TurnStatus, Active
    <2>3. nextMessage \in MessageIds /\ nextMessage + 1 \in MessageIds
      BY <1>5 DEF InsertMessageTurn, TypeOK, MessageIds
    <2>4. messages' \in [MessageIds -> MessageRow]
      BY <1>1, <1>5, <2>1, <2>3, NewRowsType DEF InsertMessageTurn, TypeOK
    <2>5. turns' \in [Turns -> TurnRow]
      <3>1. NewTurn(call[s], call[s].query, nextMessage, nextMessage + 1) \in TurnRow
        BY <1>1, <2>1, <2>3, NewRowsType DEF MessageIds
      <3>. QED  BY <1>5, <3>1 DEF InsertMessageTurn, TypeOK
    <2>6. nextMessage' \in 1 .. MaxMessages + 1
      BY <1>5, <2>3 DEF InsertMessageTurn, MessageIds
    <2>. QED  BY <1>5, <2>2, <2>4, <2>5, <2>6, ReturnType DEF InsertMessageTurn, TypeOK
  <1>6. CASE InsertReplayTurn(s)
    <2>1. call[s].scope \in Scopes /\ call[s].turn \in Turns
      BY <1>1, <1>6 DEF InsertReplayTurn, SessionOK
    <2>2. "pending" \in Results
      BY DEF Results, TurnStatus, Active
    <2>3. nextMessage \in MessageIds
      BY <1>6 DEF InsertReplayTurn
    <2>4. messages' \in [MessageIds -> MessageRow]
      BY <1>1, <1>6, <2>1, <2>3, NewRowsType DEF InsertReplayTurn, TypeOK
    <2>5. turns' \in [Turns -> TurnRow]
      <3>1. /\ loaded[s].message.content \in Contents
            /\ loaded[s].question \in 0 .. MaxMessages
            /\ nextMessage \in 0 .. MaxMessages
        BY <1>1, <2>3 DEF LoadedRows, MessageRow, MessageIds
      <3>2. NewTurn(call[s], loaded[s].message.content, loaded[s].question, nextMessage)
               \in TurnRow
        BY <1>1, <2>1, <3>1, NewRowsType
      <3>. QED  BY <1>6, <3>2 DEF InsertReplayTurn, TypeOK
    <2>6. nextMessage' \in 1 .. MaxMessages + 1
      BY <1>6, <2>3 DEF InsertReplayTurn, MessageIds
    <2>. QED  BY <1>6, <2>2, <2>4, <2>5, <2>6, ReturnType DEF InsertReplayTurn, TypeOK
  <1>7. CASE InsertConflict(s)
    BY <1>7, ReturnType DEF InsertConflict, TypeOK, Results
  <1>. QED  BY <1>2, <1>3, <1>4, <1>5, <1>6, <1>7

LEMMA ReadStepType ==
    ASSUME TypeOK, NEW s \in Sessions,
           \/ ReadTurn(s) \/ UpdateReadAssistant(s)
           \/ CancelReadAssistant(s) \/ FinishReadAssistant(s)
    PROVE  TypeOK'
  <1>. USE DEF rows
  <1>1. /\ loaded[s] \in LoadedRows
        /\ loaded[s].turn \in TurnRow
        /\ SessionOK(s)
        /\ \A t \in Turns : turns[t] \in TurnRow
        /\ \A m : Message(m) \in MessageRow
    BY MessageType DEF TypeOK, LoadedRows
  <1>2. /\ \A st \in TurnStatus : st \in Results
        /\ "missing" \in Results
        /\ "assistant" \in Stages /\ "commit" \in Stages
    BY DEF Results, Stages
  <1>3. \A m : [loaded[s] EXCEPT !.message = Message(m)] \in LoadedRows
    BY <1>1 DEF LoadedRows
  <1>4. CASE ReadTurn(s)
    <2>1. CASE Return(s, "missing")
      BY <1>2, <1>4, <2>1, ReturnType DEF ReadTurn, TypeOK
    <2>2. CASE ~Return(s, "missing")
      <3>. DEFINE read == [loaded[s] EXCEPT !.turn = turns[call[s].turn]]
      <3>1. /\ call[s].turn \in Turns /\ stage[s] # "idle"
            /\ Proceed(s, "assistant", read)
        BY <1>1, <1>4, <2>2 DEF ReadTurn, SessionOK
      <3>2. read \in LoadedRows
        BY <1>1, <3>1 DEF LoadedRows
      <3>3. StepFits("assistant", call[s].op, read.turn.status)
        BY <1>1, <1>4, <2>2, <3>1 DEF ReadTurn, OpenTo, StepFits, TurnRow, TurnExists, LoadedRows
      <3>. QED  BY <1>2, <1>4, <3>1, <3>2, <3>3, ProceedType DEF ReadTurn, TypeOK
    <2>. QED  BY <2>1, <2>2
  <1>5. CASE UpdateReadAssistant(s)
    <2>1. CASE Return(s, "missing")
      BY <1>2, <1>5, <2>1, ReturnType DEF UpdateReadAssistant, TypeOK
    <2>2. CASE ~Return(s, "missing")
      <3>. DEFINE read == [loaded[s] EXCEPT !.message = Message(loaded[s].turn.assistant)]
      <3>1. Proceed(s, "commit", read) /\ stage[s] # "idle"
        BY <1>5, <2>2 DEF UpdateReadAssistant
      <3>2. StepFits("commit", call[s].op, read.turn.status)
        BY <1>1, <1>5 DEF UpdateReadAssistant, SessionOK, StepFits, LoadedRows
      <3>. QED  BY <1>2, <1>3, <1>5, <3>1, <3>2, ProceedType DEF UpdateReadAssistant, TypeOK
    <2>. QED  BY <2>1, <2>2
  <1>6. CASE CancelReadAssistant(s)
    <2>1. CASE Return(s, loaded[s].turn.status)
      <3>1. loaded[s].turn.status \in Results
        BY <1>1, <1>2, <1>6 DEF CancelReadAssistant, SessionOK, StepFits
      <3>. QED  BY <1>6, <2>1, <3>1, ReturnType DEF CancelReadAssistant, TypeOK
    <2>2. CASE ~Return(s, loaded[s].turn.status)
      <3>. DEFINE read == [loaded[s] EXCEPT !.message = Message(loaded[s].turn.assistant)]
      <3>1. Proceed(s, "commit", read) /\ stage[s] # "idle" /\ loaded[s].turn.status \in Active
        BY <1>6, <2>2 DEF CancelReadAssistant
      <3>2. StepFits("commit", call[s].op, read.turn.status)
        BY <1>1, <3>1 DEF StepFits, LoadedRows
      <3>. QED  BY <1>2, <1>3, <1>6, <3>1, <3>2, ProceedType DEF CancelReadAssistant, TypeOK
    <2>. QED  BY <2>1, <2>2
  <1>7. CASE FinishReadAssistant(s)
    <2>1. loaded[s].turn.status \in TurnStatus
      BY <1>1, <1>7 DEF FinishReadAssistant, SessionOK, StepFits
    <2>2. CASE Return(s, "missing") \/ Return(s, loaded[s].turn.status)
      BY <1>2, <1>7, <2>1, <2>2, ReturnType DEF FinishReadAssistant, TypeOK
    <2>3. CASE ~(Return(s, "missing") \/ Return(s, loaded[s].turn.status))
      <3>. DEFINE read == [loaded[s] EXCEPT !.message = Message(loaded[s].turn.assistant)]
      <3>1. /\ Proceed(s, "commit", read) /\ stage[s] # "idle" /\ call[s].op = "finish"
            /\ loaded[s].turn.status \notin {"complete", "failed"}
        BY <1>7, <2>3 DEF FinishReadAssistant
      <3>2. StepFits("commit", call[s].op, read.turn.status)
        BY <1>1, <2>1, <3>1 DEF StepFits, LoadedRows, TurnStatus, Settled
      <3>. QED  BY <1>2, <1>3, <1>7, <3>1, <3>2, ProceedType DEF FinishReadAssistant, TypeOK
    <2>. QED  BY <2>2, <2>3
  <1>. QED  BY <1>4, <1>5, <1>6, <1>7

LEMMA CommitStepType ==
    ASSUME TypeOK, NEW s \in Sessions,
           \/ CommitConflict(s) \/ UpdateCommit(s) \/ CancelCommit(s) \/ FinishCommit(s)
    PROVE  TypeOK'
  <1>. USE DEF rows
  <1>1. /\ loaded[s] \in LoadedRows
        /\ loaded[s].message.content \in Contents
        /\ call[s] \in Call
        /\ call[s].content \in Contents
        /\ SessionOK(s)
    BY DEF TypeOK, LoadedRows, MessageRow, Call
  <1>2. /\ \A st \in TurnStatus : st \in Results
        /\ "error" \in Results
        /\ "streaming" \in TurnStatus /\ "stopped" \in TurnStatus
        /\ Settled \subseteq TurnStatus
    BY DEF Results, TurnStatus, Active, Settled
  <1>3. CASE CommitConflict(s)
    BY <1>2, <1>3, ReturnType DEF CommitConflict, TypeOK
  <1>4. CASE UpdateCommit(s)
    <2>1. loaded[s].turn.assistant \in MessageIds
      BY <1>4, CommitTarget DEF UpdateCommit
    <2>2. WrittenMessage(s, "streaming", call[s].content) \in MessageRow
      BY <1>1, <1>2, <2>1, WrittenMessageType
    <2>3. messages' \in [MessageIds -> MessageRow]
      BY <1>4, <2>2 DEF UpdateCommit, TypeOK
    <2>4. turns' \in [Turns -> TurnRow] /\ overrun' \subseteq Turns
      BY <1>1, <1>2, <1>4, WriteTurnType DEF UpdateCommit, SessionOK
    <2>. QED  BY <1>2, <1>4, <2>3, <2>4, ReturnType DEF UpdateCommit, TypeOK
  <1>5. CASE CancelCommit(s)
    <2>1. loaded[s].turn.assistant \in MessageIds
      BY <1>5, CommitTarget DEF CancelCommit
    <2>2. WrittenMessage(s, "stopped", loaded[s].message.content) \in MessageRow
      BY <1>1, <1>2, <2>1, WrittenMessageType
    <2>3. messages' \in [MessageIds -> MessageRow]
      BY <1>5, <2>2 DEF CancelCommit, TypeOK
    <2>4. turns' \in [Turns -> TurnRow] /\ overrun' \subseteq Turns
      BY <1>1, <1>2, <1>5, WriteTurnType DEF CancelCommit, SessionOK
    <2>. QED  BY <1>2, <1>5, <2>3, <2>4, ReturnType DEF CancelCommit, TypeOK
  <1>6. CASE FinishCommit(s)
    <2>1. loaded[s].turn.assistant \in MessageIds
      BY <1>6, CommitTarget DEF FinishCommit
    <2>2. FinalStatus(s) \in TurnStatus /\ FinalContent(s) \in Contents
      BY <1>1, <1>2, <1>6 DEF FinishCommit, FinalStatus, FinalContent, SessionOK
    <2>3. WrittenMessage(s, FinalStatus(s), FinalContent(s)) \in MessageRow
      BY <2>1, <2>2, WrittenMessageType
    <2>. DEFINE a        == loaded[s].turn.assistant
                previous == loaded[s].turn.target
                answered == [messages EXCEPT ![a] =
                                WrittenMessage(s, FinalStatus(s), FinalContent(s))]
    <2>4. answered \in [MessageIds -> MessageRow]
      BY <2>3 DEF TypeOK
    <2>5. [answered EXCEPT ![previous].status = "superseded",
                           ![previous].supersededBy = a] \in [MessageIds -> MessageRow]
      <3>1. a \in 0 .. MaxMessages
        BY <2>1 DEF MessageIds
      <3>2. \A m \in MessageRow :
               [m EXCEPT !.status = "superseded", !.supersededBy = a] \in MessageRow
        BY <3>1 DEF MessageRow
      <3>. HIDE DEF answered, a, previous
      <3>3. previous \notin MessageIds =>
               [answered EXCEPT ![previous].status = "superseded",
                                ![previous].supersededBy = a] = answered
        BY <2>4
      <3>. QED  BY <2>4, <3>2, <3>3
    <2>6. messages' \in [MessageIds -> MessageRow]
      <3>1. messages' \in {answered, [answered EXCEPT ![previous].status = "superseded",
                                                      ![previous].supersededBy = a]}
        BY <1>6 DEF FinishCommit, Superseded
      <3>. QED  BY <2>4, <2>5, <3>1
    <2>7. turns' \in [Turns -> TurnRow] /\ overrun' \subseteq Turns
      BY <1>1, <1>6, <2>2, WriteTurnType DEF FinishCommit, SessionOK
    <2>8. summary' \in [Scopes -> Turns \cup {None}]
      BY <1>1, <1>6 DEF FinishCommit, TypeOK, SessionOK
    <2>. QED  BY <1>2, <1>6, <2>2, <2>6, <2>7, <2>8, ReturnType DEF FinishCommit, TypeOK
  <1>. QED  BY <1>3, <1>4, <1>5, <1>6

LEMMA DeleteType ==
    ASSUME TypeOK, NEW c \in Scopes, DeleteConversation(c)
    PROVE  TypeOK'
  <1>1. AbsentTurn \in TurnRow /\ AbsentMessage \in MessageRow
    BY MaxMessagesAssumption
       DEF AbsentTurn, AbsentMessage, TurnRow, MessageRow, Contents
  <1>2. turns' \in [Turns -> TurnRow] /\ messages' \in [MessageIds -> MessageRow]
    BY <1>1 DEF DeleteConversation, TypeOK
  <1>3. \A s \in Sessions : SessionOK(s)'
    BY DEF DeleteConversation, TypeOK, SessionOK
  <1>. QED  BY <1>2, <1>3 DEF DeleteConversation, TypeOK

LEMMA FailType ==
    ASSUME TypeOK, NEW s \in Sessions, Fail(s)
    PROVE  TypeOK'
  <1>1. "error" \in Results
    BY DEF Results
  <1>. QED  BY <1>1, ReturnType DEF Fail, TypeOK, rows

LEMMA MakeType ==
    ASSUME TypeOK, NEW c \in Scopes, MakeConversation(c)
    PROVE  TypeOK'
  <1>1. \A s \in Sessions : SessionOK(s)'
    BY DEF MakeConversation, TypeOK, SessionOK
  <1>. QED  BY <1>1 DEF MakeConversation, TypeOK

LEMMA InitType == Init => TypeOK
  <1>. SUFFICES ASSUME Init PROVE TypeOK
    OBVIOUS
  <1>1. AbsentTurn \in TurnRow /\ AbsentMessage \in MessageRow
    BY MaxMessagesAssumption
       DEF AbsentTurn, AbsentMessage, TurnRow, MessageRow, Contents
  <1>2. 1 \in 1 .. MaxMessages + 1
    BY MaxMessagesAssumption
  <1>3. \A s \in Sessions : SessionOK(s)
    BY DEF Init, SessionOK, StepFits, NoCall
  <1>. QED  BY <1>1, <1>2, <1>3, NoCallType, NothingLoadedType
            DEF Init, TypeOK, Stages, Results

LEMMA NextType == TypeOK /\ [Next]_vars => TypeOK'
  <1>. SUFFICES ASSUME TypeOK, [Next]_vars PROVE TypeOK'
    OBVIOUS
  <1>1. ASSUME NEW s \in Sessions, SessionStep(s)
        PROVE  TypeOK'
    BY <1>1, FailType, BeginStepType, ReadStepType, CommitStepType
       DEF SessionStep, CallStep
  <1>2. ASSUME NEW s \in Sessions, ClientCall(s)
        PROVE  TypeOK'
    BY <1>2, ClientCallType
  <1>3. ASSUME NEW c \in Scopes, MakeConversation(c) \/ DeleteConversation(c)
        PROVE  TypeOK'
    BY <1>3, MakeType, DeleteType
  <1>4. CASE UNCHANGED vars
    BY <1>4 DEF vars, rows, TypeOK, SessionOK
  <1>. QED  BY <1>1, <1>2, <1>3, <1>4 DEF Next

(* Every row, every call in progress and every cached read of every call   *)
(* has its type, and no step of a call is reached with a turn status that  *)
(* the checks of update_turn_content, cancel_turn and finish_turn exclude. *)
THEOREM TypeCorrect == Spec => []TypeOK
  <1>. QED  BY InitType, NextType, PTL DEF Spec

(***************************************************************************)
(* Outcomes                                                                *)
(***************************************************************************)

(* What a call writes to the turn it is about: nothing, unless it read the *)
(* turn as pending or streaming.                                           *)
LEMMA WriteNeedsActiveRead ==
    ASSUME TypeOK, NEW s \in Sessions, NEW t \in Turns,
           UpdateCommit(s) \/ CancelCommit(s) \/ FinishCommit(s),
           turns'[t].status # turns[t].status
    PROVE  /\ CanCommit(s)
           /\ stage[s] = "commit"
           /\ call[s].turn = t
           /\ loaded[s].turn.status \in Active
  <1>1. turns \in [Turns -> TurnRow] /\ SessionOK(s)
    BY DEF TypeOK
  <1>2. CanCommit(s) /\ stage[s] = "commit"
    BY DEF UpdateCommit, CancelCommit, FinishCommit
  <1>3. \A st : WriteTurn(s, st) =>
           /\ call[s].turn = t
           /\ turns'[t].status = Written(loaded[s].turn.status, st, turns[t].status)
    BY <1>1 DEF WriteTurn, TurnRow
  <1>4. CASE UpdateCommit(s) \/ CancelCommit(s)
    BY <1>1, <1>2, <1>3, <1>4 DEF UpdateCommit, CancelCommit, SessionOK, StepFits
  <1>5. CASE FinishCommit(s)
    <2>1. /\ WriteTurn(s, FinalStatus(s))
          /\ loaded[s].turn.status \in Active \cup {"stopped"}
      BY <1>1, <1>2, <1>5 DEF FinishCommit, SessionOK, StepFits
    <2>2. loaded[s].turn.status # "stopped"
      BY <1>3, <2>1 DEF FinalStatus, Written
    <2>. QED  BY <1>2, <1>3, <2>1, <2>2
  <1>. QED  BY <1>4, <1>5

(* The steps that can change the status of a turn that has a row.          *)
LEMMA StatusWriters ==
    ASSUME TypeOK, [Next]_vars, NEW t \in Turns,
           TurnExists(t), turns'[t].status # turns[t].status
    PROVE  \/ turns'[t].status = "absent"
           \/ \E s \in Sessions : UpdateCommit(s) \/ CancelCommit(s) \/ FinishCommit(s)
  <1>1. turns' # turns /\ turns \in [Turns -> TurnRow]
    BY DEF TypeOK
  <1>2. ASSUME NEW s \in Sessions, SessionStep(s)
        PROVE  UpdateCommit(s) \/ CancelCommit(s) \/ FinishCommit(s)
    <2>1. CASE InsertMessageTurn(s) \/ InsertReplayTurn(s)
      BY <1>1, <2>1 DEF InsertMessageTurn, InsertReplayTurn, CanInsert, TurnExists
    <2>. QED  BY <1>1, <1>2, <2>1
              DEF SessionStep, CallStep, Fail, EnsureConversation, BeginReadTurn, BeginReadTarget,
                  InsertConflict, ReadTurn, UpdateReadAssistant, CancelReadAssistant,
                  FinishReadAssistant, CommitConflict, rows
  <1>3. ASSUME NEW s \in Sessions, ClientCall(s)
        PROVE  turns' = turns
    BY <1>3 DEF ClientCall, Open, rows
  <1>4. ASSUME NEW c \in Scopes, DeleteConversation(c)
        PROVE  turns'[t].status = "absent"
    BY <1>1, <1>4 DEF DeleteConversation, AbsentTurn
  <1>5. ASSUME NEW c \in Scopes, MakeConversation(c)
        PROVE  turns' = turns
    BY <1>5 DEF MakeConversation
  <1>6. ~UNCHANGED vars
    BY <1>1 DEF vars, rows
  <1>. QED  BY <1>1, <1>2, <1>3, <1>4, <1>5, <1>6 DEF Next

(* However many calls overlap, an outcome is undone only by a call that    *)
(* had read the turn before it was settled.                                *)
THEOREM StaleCallsOnly == Spec => OnlyStaleCallsUndoOutcomes
  <1>1. TypeOK /\ [Next]_vars =>
           [\A t \in Turns :
              turns[t].status \in Settled /\ turns'[t].status # turns[t].status
                 => \/ turns'[t].status = "absent"
                    \/ \E s \in Sessions : /\ stage[s] = "commit"
                                           /\ call[s].turn = t
                                           /\ loaded[s].turn.status \in Active]_vars
    <2>. SUFFICES ASSUME TypeOK, [Next]_vars, NEW t \in Turns,
                         turns[t].status \in Settled, turns'[t].status # turns[t].status,
                         turns'[t].status # "absent"
                  PROVE  \E s \in Sessions : /\ stage[s] = "commit"
                                             /\ call[s].turn = t
                                             /\ loaded[s].turn.status \in Active
      OBVIOUS
    <2>1. TurnExists(t)
      BY DEF TurnExists, Settled
    <2>. QED  BY <2>1, StatusWriters, WriteNeedsActiveRead
  <1>. QED  BY <1>1, TypeCorrect, PTL DEF Spec, OnlyStaleCallsUndoOutcomes

(***************************************************************************)
(* Rows                                                                    *)
(***************************************************************************)

(* OneExchangePerTurn, NoOrphanRows and SupersededByItsReplay are not      *)
(* inductive: a commit writes what its call read some steps ago, and the   *)
(* conversation may have been deleted, and the turn id used again, in the  *)
(* meantime.  What saves them is that message ids are never reused, so the *)
(* assistant id that a call read identifies the turn row it came from.     *)
NotYetAllocated ==
    \A m \in MessageIds : m >= nextMessage => messages[m] = AbsentMessage

LoadedTurnStands(s) ==
    stage[s] \in {"assistant", "commit"} =>
        LET a == loaded[s].turn.assistant
        IN  /\ a < nextMessage
            /\ Message(a).role # "absent" =>
                  /\ Message(a).role = "assistant"
                  /\ Message(a).turn = call[s].turn
                  /\ Message(a).scope = call[s].scope
                  /\ turns[call[s].turn].target = loaded[s].turn.target

LoadedQuestionStands(s) ==
    stage[s] = "insert" /\ call[s].target # 0 =>
        LET u == loaded[s].question
        IN  /\ u < call[s].target
            /\ call[s].target < nextMessage
            /\ Message(u).role # "absent" =>
                  /\ Message(u).role = "user"
                  /\ Message(u).scope = call[s].scope
                  /\ Message(u).content = loaded[s].message.content

SupersederShares(m) ==
    messages[m].supersededBy # 0 =>
        Message(messages[m].supersededBy).scope = messages[m].scope

RowsInv ==
    /\ OneExchangePerTurn
    /\ NoOrphanRows
    /\ SupersededByItsReplay
    /\ NotYetAllocated
    /\ \A s \in Sessions : LoadedTurnStands(s) /\ LoadedQuestionStands(s)
    /\ \A m \in MessageIds : SupersederShares(m)

(* A step that changes no row but may add a conversation keeps RowsInv when *)
(* it keeps what the calls in progress rely on.                            *)
LEMMA RowsKept ==
    ASSUME RowsInv, UNCHANGED <<turns, messages, nextMessage, summary>>,
           conversations \subseteq conversations',
           \A s \in Sessions : (LoadedTurnStands(s) /\ LoadedQuestionStands(s))'
    PROVE  RowsInv'
  BY DEF RowsInv, OneExchangePerTurn, TurnHasExchange, MessageHasTurn, NoOrphanRows,
         SupersededByItsReplay, NotYetAllocated, SupersederShares, TurnExists, Message

(* A call that ends, or goes on to a step at which its reads are not used, *)
(* relies on nothing.                                                      *)
LEMMA CallStops ==
    ASSUME TypeOK, RowsInv, NEW s \in Sessions,
           UNCHANGED <<turns, messages, nextMessage>>,
           \A z \in Sessions \ {s} : /\ call'[z] = call[z]
                                    /\ stage'[z] = stage[z]
                                    /\ loaded'[z] = loaded[z],
           stage'[s] \in {"idle", "ensure", "turn", "target"}
    PROVE  \A z \in Sessions : (LoadedTurnStands(z) /\ LoadedQuestionStands(z))'
  <1>1. ASSUME NEW z \in Sessions
        PROVE  (LoadedTurnStands(z) /\ LoadedQuestionStands(z))'
    <2>1. CASE z = s
      BY <2>1 DEF LoadedTurnStands, LoadedQuestionStands
    <2>2. CASE z # s
      BY <2>2 DEF RowsInv, LoadedTurnStands, LoadedQuestionStands, Message
    <2>. QED  BY <2>1, <2>2
  <1>. QED  BY <1>1

LEMMA OthersOnReturn ==
    ASSUME TypeOK, NEW s \in Sessions, NEW r, Return(s, r)
    PROVE  /\ stage'[s] = "idle"
           /\ \A z \in Sessions \ {s} : /\ call'[z] = call[z]
                                       /\ stage'[z] = stage[z]
                                       /\ loaded'[z] = loaded[z]
  BY DEF Return, TypeOK

LEMMA OthersOnProceed ==
    ASSUME TypeOK, NEW s \in Sessions, NEW next, NEW read, Proceed(s, next, read)
    PROVE  /\ stage'[s] = next
           /\ loaded'[s] = read
           /\ call'[s] = call[s]
           /\ \A z \in Sessions \ {s} : /\ call'[z] = call[z]
                                       /\ stage'[z] = stage[z]
                                       /\ loaded'[z] = loaded[z]
  BY DEF Proceed, TypeOK

LEMMA ClientCallRows ==
    ASSUME TypeOK, RowsInv, NEW s \in Sessions, ClientCall(s)
    PROVE  RowsInv'
  <1>1. PICK c : Open(s, c)
    BY DEF ClientCall
  <1>2. /\ stage'[s] \in {"ensure", "turn"}
        /\ \A z \in Sessions \ {s} : /\ call'[z] = call[z]
                                    /\ stage'[z] = stage[z]
                                    /\ loaded'[z] = loaded[z]
    BY <1>1 DEF Open, TypeOK
  <1>. QED  BY <1>1, <1>2, CallStops, RowsKept DEF Open, rows

(* The steps that touch no row of a turn and no read of a call.            *)
LEMMA IdleStepRows ==
    ASSUME TypeOK, RowsInv, UNCHANGED <<turns, messages, nextMessage, summary>>,
           conversations \subseteq conversations',
           UNCHANGED <<call, stage, loaded>>
    PROVE  RowsInv'
  <1>1. \A s \in Sessions : (LoadedTurnStands(s) /\ LoadedQuestionStands(s))'
    BY DEF RowsInv, LoadedTurnStands, LoadedQuestionStands, Message
  <1>. QED  BY <1>1, RowsKept

(* The steps of a call that only read.                                     *)
LEMMA ReadStepRows ==
    ASSUME TypeOK, RowsInv, NEW s \in Sessions,
           \/ Fail(s) \/ EnsureConversation(s) \/ BeginReadTurn(s) \/ BeginReadTarget(s)
           \/ InsertConflict(s) \/ CommitConflict(s)
           \/ ReadTurn(s) \/ UpdateReadAssistant(s)
           \/ CancelReadAssistant(s) \/ FinishReadAssistant(s)
    PROVE  RowsInv'
  <1>1. /\ UNCHANGED <<turns, messages, nextMessage, summary>>
        /\ conversations \subseteq conversations'
    BY DEF Fail, EnsureConversation, BeginReadTurn, BeginReadTarget, InsertConflict,
           CommitConflict, ReadTurn, UpdateReadAssistant, CancelReadAssistant,
           FinishReadAssistant, rows
  <1>2. CASE \E r : Return(s, r)
    BY <1>1, <1>2, OthersOnReturn, CallStops, RowsKept
  <1>3. CASE EnsureConversation(s)
    BY <1>1, <1>3, OthersOnProceed, CallStops, RowsKept DEF EnsureConversation
  <1>4. ASSUME (LoadedTurnStands(s) /\ LoadedQuestionStands(s))',
               NEW next, NEW read, Proceed(s, next, read)
        PROVE  RowsInv'
    <2>1. \A z \in Sessions \ {s} : (LoadedTurnStands(z) /\ LoadedQuestionStands(z))'
      BY <1>1, <1>4, OthersOnProceed
         DEF RowsInv, LoadedTurnStands, LoadedQuestionStands, Message
    <2>. QED  BY <1>1, <1>4, <2>1, RowsKept
  <1>5. /\ OneExchangePerTurn /\ LoadedTurnStands(s) /\ NotYetAllocated
        /\ SessionOK(s) /\ loaded[s] \in LoadedRows /\ nextMessage \in Nat
    BY MaxMessagesAssumption DEF RowsInv, TypeOK
  <1>6. CASE BeginReadTurn(s)
    <2>1. CASE Proceed(s, IF call[s].target = 0 THEN "insert" ELSE "target", loaded[s])
      <3>1. (LoadedTurnStands(s) /\ LoadedQuestionStands(s))'
        BY <2>1, OthersOnProceed DEF LoadedTurnStands, LoadedQuestionStands
      <3>. QED  BY <1>4, <2>1, <3>1
    <2>. QED  BY <1>2, <1>6, <2>1 DEF BeginReadTurn
  <1>7. CASE BeginReadTarget(s)
    <2>1. SUFFICES ASSUME NEW u \in QuestionsBefore(call[s].scope, call[s].target),
                          Replayable(call[s].scope, call[s].target),
                          Proceed(s, "insert", [loaded[s] EXCEPT !.question = u,
                                                                 !.message = messages[u]])
                   PROVE  RowsInv'
      BY <1>2, <1>7 DEF BeginReadTarget
    <2>2. /\ loaded'[s].question = u
          /\ loaded'[s].message = messages[u]
          /\ stage'[s] = "insert"
          /\ call'[s] = call[s]
      <3>. DEFINE read == [loaded[s] EXCEPT !.question = u, !.message = messages[u]]
      <3>1. Proceed(s, "insert", read)
        BY <2>1
      <3>2. read.question = u /\ read.message = messages[u]
        BY <1>5 DEF LoadedRows
      <3>. HIDE DEF read
      <3>. QED  BY <3>1, <3>2, OthersOnProceed
    <2>3. call[s].target < nextMessage
      BY <1>5, <2>1, MaxMessagesAssumption
         DEF Replayable, Message, AbsentMessage, NotYetAllocated, MessageIds
    <2>4. LoadedTurnStands(s)'
      BY <2>2 DEF LoadedTurnStands
    <2>5. LoadedQuestionStands(s)'
      BY <1>1, <2>2, <2>3 DEF LoadedQuestionStands, QuestionsBefore, Message
    <2>. QED  BY <1>4, <2>1, <2>4, <2>5
  <1>8. CASE ReadTurn(s)
    <2>. DEFINE row == turns[call[s].turn]
    <2>1. SUFFICES ASSUME TurnExists(call[s].turn), row.scope = call[s].scope,
                          Proceed(s, "assistant", [loaded[s] EXCEPT !.turn = row])
                   PROVE  RowsInv'
      BY <1>2, <1>8 DEF ReadTurn
    <2>2. /\ loaded'[s].turn = row
          /\ stage'[s] = "assistant"
          /\ call'[s] = call[s]
      BY <1>5, <2>1, OthersOnProceed DEF LoadedRows
    <2>3. TurnHasExchange(call[s].turn) /\ row.assistant < nextMessage
      <3>1. call[s].turn \in Turns
        BY <1>5, <1>8 DEF ReadTurn, SessionOK
      <3>2. TurnHasExchange(call[s].turn)
        BY <1>5, <3>1 DEF OneExchangePerTurn
      <3>3. row.assistant \in MessageIds /\ messages[row.assistant].role = "assistant"
        BY <2>1, <3>2 DEF TurnHasExchange, Message, AbsentMessage
      <3>. QED  BY <1>5, <3>2, <3>3, MaxMessagesAssumption DEF NotYetAllocated, MessageIds, AbsentMessage
    <2>4. LoadedTurnStands(s)'
      BY <1>1, <2>1, <2>2, <2>3 DEF LoadedTurnStands, TurnHasExchange, Message
    <2>5. LoadedQuestionStands(s)'
      BY <2>2 DEF LoadedQuestionStands
    <2>. QED  BY <1>4, <2>1, <2>4, <2>5
  <1>9. ASSUME UpdateReadAssistant(s) \/ CancelReadAssistant(s) \/ FinishReadAssistant(s)
        PROVE  RowsInv'
    <2>1. SUFFICES ASSUME NEW row, Proceed(s, "commit", [loaded[s] EXCEPT !.message = row])
                   PROVE  RowsInv'
      BY <1>2, <1>9 DEF UpdateReadAssistant, CancelReadAssistant, FinishReadAssistant
    <2>2. /\ loaded'[s].turn = loaded[s].turn
          /\ stage'[s] = "commit"
          /\ stage[s] = "assistant"
          /\ call'[s] = call[s]
      BY <1>5, <1>9, <2>1, OthersOnProceed
         DEF LoadedRows, UpdateReadAssistant, CancelReadAssistant, FinishReadAssistant
    <2>3. (LoadedTurnStands(s) /\ LoadedQuestionStands(s))'
      BY <1>1, <1>5, <2>2 DEF LoadedTurnStands, LoadedQuestionStands, Message
    <2>. QED  BY <1>4, <2>1, <2>3
  <1>. QED  BY <1>2, <1>3, <1>6, <1>7, <1>8, <1>9 DEF Fail, InsertConflict, CommitConflict

(* A message that is there has an id that was allocated.                   *)
LEMMA PresentIsAllocated ==
    ASSUME TypeOK, RowsInv, NEW m, Message(m).role # "absent"
    PROVE  m \in MessageIds /\ m < nextMessage
  <1>1. m \in MessageIds /\ messages[m].role # "absent"
    BY DEF Message, AbsentMessage
  <1>. QED  BY <1>1, MaxMessagesAssumption
            DEF RowsInv, NotYetAllocated, AbsentMessage, TypeOK, MessageIds

(* An insert of begin_turn: new rows under ids and a turn id not in use.   *)
LEMMA InsertKeepsRows ==
    ASSUME TypeOK, RowsInv, NEW s \in Sessions,
           NEW new \in Turns, call[s].turn = new, CanInsert(call[s]),
           UNCHANGED <<conversations, summary>>,
           nextMessage' \in Nat, nextMessage < nextMessage',
           \A m \in MessageIds : m < nextMessage => messages'[m] = messages[m],
           \A t \in Turns \ {new} : turns'[t] = turns[t],
           turns'[new].scope = call[s].scope,
           TurnHasExchange(new)',
           \A m \in MessageIds : m >= nextMessage =>
              /\ MessageHasTurn(m)'
              /\ messages'[m].role # "absent" => messages'[m].scope = call[s].scope
              /\ messages'[m].supersededBy = 0
              /\ m >= nextMessage' => messages'[m] = AbsentMessage,
           stage'[s] = "idle",
           \A z \in Sessions \ {s} : /\ call'[z] = call[z]
                                    /\ stage'[z] = stage[z]
                                    /\ loaded'[z] = loaded[z]
    PROVE  RowsInv'
  <1>1. /\ MessageIds \subseteq Nat /\ nextMessage \in Nat
        /\ ~TurnExists(new) /\ call[s].scope \in conversations
        /\ \A t \in Turns : turns[t] \in TurnRow
        /\ \A z \in Sessions : loaded[z] \in LoadedRows /\ call[z] \in Call /\ SessionOK(z)
    BY MaxMessagesAssumption DEF MessageIds, TypeOK, CanInsert
  <1>2. \A m : m < nextMessage => Message(m)' = Message(m)
    BY DEF Message
  <1>3. \A m : Message(m).role # "absent" =>
           /\ m \in MessageIds /\ m < nextMessage /\ Message(m)' = Message(m)
           /\ Message(m) = messages[m]
    BY <1>2, PresentIsAllocated DEF Message, AbsentMessage
  <1>4. \A m : Message(m).role # "absent" =>
           /\ Message(m).turn \in Turns \ {new}
           /\ TurnExists(Message(m).turn)
    <2>1. ASSUME NEW m \in MessageIds, messages[m].role # "absent"
          PROVE  messages[m].turn \in Turns /\ TurnExists(messages[m].turn)
      BY <2>1 DEF RowsInv, OneExchangePerTurn, MessageHasTurn
    <2>2. ASSUME NEW m, Message(m).role # "absent"
          PROVE  Message(m).turn \in Turns \ {new} /\ TurnExists(Message(m).turn)
      <3>1. m \in MessageIds /\ Message(m) = messages[m]
        BY <1>3, <2>2
      <3>2. messages[m].turn \in Turns /\ TurnExists(messages[m].turn)
        BY <2>1, <2>2, <3>1
      <3>. QED  BY <1>1, <3>1, <3>2
    <2>. QED  BY <2>2
  <1>5. ASSUME NEW t \in Turns PROVE TurnHasExchange(t)'
    <2>1. CASE t # new /\ TurnExists(t)
      <3>1. TurnHasExchange(t) /\ turns'[t] = turns[t] /\ turns[t] \in TurnRow
        BY <1>1, <2>1 DEF RowsInv, OneExchangePerTurn
      <3>2. turns[t].assistant < nextMessage
        BY <1>3, <2>1, <3>1 DEF TurnHasExchange
      <3>3. turns[t].user < nextMessage
        BY <1>1, <2>1, <3>1, <3>2 DEF TurnHasExchange, TurnRow
      <3>4. /\ Message(turns[t].assistant)' = Message(turns[t].assistant)
            /\ Message(turns[t].user)' = Message(turns[t].user)
        BY <1>2, <3>1, <3>2, <3>3
      <3>. QED  BY <2>1, <3>1, <3>4 DEF TurnHasExchange, TurnExists
    <2>. QED  BY <2>1 DEF TurnHasExchange, TurnExists
  <1>6. ASSUME NEW m \in MessageIds PROVE MessageHasTurn(m)'
    <2>1. CASE m < nextMessage /\ messages[m].role # "absent"
      <3>1. MessageHasTurn(m) /\ messages'[m] = messages[m] /\ Message(m) = messages[m]
        BY <2>1 DEF RowsInv, OneExchangePerTurn, Message
      <3>. QED  BY <1>4, <2>1, <3>1 DEF MessageHasTurn, TurnExists
    <2>. QED  BY <1>1, <2>1 DEF MessageHasTurn
  <1>7. NoOrphanRows'
    <2>1. NoOrphanRows
      BY DEF RowsInv
    <2>2. \A t \in Turns : TurnExists(t)' => turns'[t].scope \in conversations'
      BY <1>1, <2>1 DEF NoOrphanRows, TurnExists
    <2>3. \A m \in MessageIds :
             messages'[m].role # "absent" => messages'[m].scope \in conversations'
      BY <1>1, <2>1 DEF NoOrphanRows
    <2>4. \A c \in Scopes : summary'[c] # None =>
             c \in conversations' /\ TurnExists(summary[c])' /\ turns'[summary'[c]].scope = c
      BY <1>1, <2>1 DEF NoOrphanRows, TurnExists, TypeOK
    <2>. QED  BY <2>2, <2>3, <2>4 DEF NoOrphanRows
  <1>8. /\ SupersededByItsReplay'
        /\ \A m \in MessageIds : SupersederShares(m)'
    <2>1. ASSUME NEW m \in MessageIds, NEW k, k = messages'[m].supersededBy, k # 0
          PROVE  /\ k > m
                 /\ Message(k)'.role = "assistant"
                 /\ turns'[Message(k)'.turn].target = m
                 /\ Message(k)'.scope = messages'[m].scope
      <3>1. messages'[m] = messages[m]
        BY <1>1, <2>1
      <3>2. /\ k > m /\ Message(k).role = "assistant"
            /\ turns[Message(k).turn].target = m /\ Message(k).scope = messages[m].scope
        BY <2>1, <3>1 DEF RowsInv, SupersededByItsReplay, SupersederShares
      <3>3. Message(k)' = Message(k) /\ turns'[Message(k).turn] = turns[Message(k).turn]
        BY <1>3, <1>4, <3>1, <3>2
      <3>. QED  BY <3>1, <3>2, <3>3
    <2>. QED  BY <2>1 DEF SupersededByItsReplay, SupersederShares
  <1>9. NotYetAllocated'
    BY <1>1 DEF RowsInv, NotYetAllocated
  <1>10. ASSUME NEW z \in Sessions
         PROVE  (LoadedTurnStands(z) /\ LoadedQuestionStands(z))'
    <2>1. CASE z = s
      BY <2>1 DEF LoadedTurnStands, LoadedQuestionStands
    <2>2. CASE z # s
      <3>1. LoadedTurnStands(z) /\ LoadedQuestionStands(z)
        BY DEF RowsInv
      <3>2. LoadedTurnStands(z)'
        <4>. PICK a : a = loaded[z].turn.assistant
          OBVIOUS
        <4>1. SUFFICES ASSUME stage[z] \in {"assistant", "commit"}
                       PROVE  LoadedTurnStands(z)'
          BY <2>2 DEF LoadedTurnStands
        <4>2. a < nextMessage /\ Message(a)' = Message(a) /\ a < nextMessage'
          BY <1>1, <1>2, <3>1, <4>1 DEF LoadedTurnStands, LoadedRows, TurnRow
        <4>3. Message(a).role # "absent" =>
                 Message(a).turn = call[z].turn /\ turns'[call[z].turn] = turns[call[z].turn]
          BY <1>4, <3>1, <4>1 DEF LoadedTurnStands
        <4>. QED  BY <2>2, <3>1, <4>1, <4>2, <4>3 DEF LoadedTurnStands
      <3>3. LoadedQuestionStands(z)'
        <4>. PICK u : u = loaded[z].question
          OBVIOUS
        <4>1. SUFFICES ASSUME stage[z] = "insert", call[z].target # 0
                       PROVE  LoadedQuestionStands(z)'
          BY <2>2 DEF LoadedQuestionStands
        <4>2. /\ u < call[z].target /\ call[z].target < nextMessage
              /\ u \in Nat /\ call[z].target \in Nat
          BY <1>1, <3>1, <4>1 DEF LoadedQuestionStands, LoadedRows, Call
        <4>3. Message(u)' = Message(u) /\ call[z].target < nextMessage'
          BY <1>1, <1>2, <4>2
        <4>. QED  BY <2>2, <3>1, <4>1, <4>2, <4>3 DEF LoadedQuestionStands
      <3>. QED  BY <3>2, <3>3
    <2>. QED  BY <2>1, <2>2
  <1>. QED  BY <1>5, <1>6, <1>7, <1>8, <1>9, <1>10 DEF RowsInv, OneExchangePerTurn

LEMMA InsertRows ==
    ASSUME TypeOK, RowsInv, NEW s \in Sessions,
           InsertMessageTurn(s) \/ InsertReplayTurn(s)
    PROVE  RowsInv'
  <1>. DEFINE c == call[s]
  <1>1. PICK new \in Turns : call[s].turn = new
    BY DEF InsertMessageTurn, InsertReplayTurn, TypeOK, SessionOK
  <1>2. PICK n : n = nextMessage
    OBVIOUS
  <1>3. /\ CanInsert(call[s]) /\ UNCHANGED <<conversations, summary>>
        /\ stage'[s] = "idle"
        /\ \A z \in Sessions \ {s} : /\ call'[z] = call[z]
                                    /\ stage'[z] = stage[z]
                                    /\ loaded'[z] = loaded[z]
        /\ \A t \in Turns \ {new} : turns'[t] = turns[t]
        /\ turns \in [Turns -> TurnRow] /\ messages \in [MessageIds -> MessageRow]
        /\ n \in Nat \ {0} /\ n = nextMessage /\ MessageIds \subseteq Nat
        /\ call[s] \in Call /\ SessionOK(s) /\ loaded[s] \in LoadedRows
    BY <1>1, <1>2, OthersOnReturn, MaxMessagesAssumption
       DEF InsertMessageTurn, InsertReplayTurn, TypeOK, MessageIds
  <1>4. CASE InsertMessageTurn(s)
    <2>1. /\ n \in MessageIds /\ n + 1 \in MessageIds
          /\ nextMessage' = n + 2 /\ c.target = 0
      BY <1>3, <1>4, MaxMessagesAssumption DEF InsertMessageTurn, MessageIds
    <2>2. turns'[new] = NewTurn(c, c.query, n, n + 1)
      BY <1>1, <1>3, <1>4 DEF InsertMessageTurn
    <2>3. /\ messages'[n] = UserMessage(c)
          /\ messages'[n + 1] = Placeholder(c)
          /\ \A m \in MessageIds \ {n, n + 1} : messages'[m] = messages[m]
      BY <1>3, <1>4, <2>1 DEF InsertMessageTurn
    <2>4. TurnHasExchange(new)'
      BY <1>1, <1>3, <2>1, <2>2, <2>3
         DEF TurnHasExchange, Message, NewTurn, UserMessage, Placeholder
    <2>5. ASSUME NEW m \in MessageIds, m >= n
          PROVE  /\ MessageHasTurn(m)'
                 /\ messages'[m].role # "absent" => messages'[m].scope = call[s].scope
                 /\ messages'[m].supersededBy = 0
                 /\ m >= nextMessage' => messages'[m] = AbsentMessage
      <3>1. CASE m = n
        BY <1>1, <1>3, <2>1, <2>2, <2>3, <3>1
           DEF MessageHasTurn, TurnExists, NewTurn, UserMessage
      <3>2. CASE m = n + 1
        BY <1>1, <1>3, <2>1, <2>2, <2>3, <3>2
           DEF MessageHasTurn, TurnExists, NewTurn, Placeholder
      <3>3. CASE m > n + 1
        BY <1>3, <2>1, <2>3, <3>3 DEF RowsInv, NotYetAllocated, MessageHasTurn, AbsentMessage
      <3>. QED  BY <1>3, <2>5, <3>1, <3>2, <3>3
    <2>. QED  BY <1>1, <1>3, <2>1, <2>2, <2>3, <2>4, <2>5, InsertKeepsRows DEF NewTurn
  <1>5. CASE InsertReplayTurn(s)
    <2>. PICK u : u = loaded[s].question
      OBVIOUS
    <2>1. /\ n \in MessageIds /\ c.target # 0
          /\ nextMessage' = n + 1
      BY <1>3, <1>5 DEF InsertReplayTurn
    <2>2. turns'[new] = NewTurn(c, loaded[s].message.content, u, n)
      BY <1>1, <1>3, <1>5 DEF InsertReplayTurn
    <2>3. /\ messages'[n] = Placeholder(c)
          /\ \A m \in MessageIds \ {n} : messages'[m] = messages[m]
      BY <1>3, <1>5, <2>1 DEF InsertReplayTurn
    <2>4. TurnHasExchange(new)'
      <3>1. stage[s] = "insert" /\ LoadedQuestionStands(s)
        BY <1>5 DEF InsertReplayTurn, RowsInv
      <3>2. u < n /\ c.target < n /\ u \in Nat /\ c.target \in Nat
        BY <1>3, <2>1, <3>1 DEF LoadedQuestionStands, LoadedRows, Call
      <3>3. Message(u)' = Message(u) /\ Message(n)' = Placeholder(c)
        BY <1>3, <2>1, <2>3, <3>2 DEF Message
      <3>. QED  BY <1>1, <1>3, <2>1, <2>2, <2>3, <3>1, <3>2, <3>3
                DEF TurnHasExchange, LoadedQuestionStands, NewTurn, Placeholder
    <2>5. ASSUME NEW m \in MessageIds, m >= n
          PROVE  /\ MessageHasTurn(m)'
                 /\ messages'[m].role # "absent" => messages'[m].scope = call[s].scope
                 /\ messages'[m].supersededBy = 0
                 /\ m >= nextMessage' => messages'[m] = AbsentMessage
      <3>1. CASE m = n
        BY <1>1, <1>3, <2>1, <2>2, <2>3, <3>1
           DEF MessageHasTurn, TurnExists, NewTurn, Placeholder
      <3>2. CASE m > n
        BY <1>3, <2>1, <2>3, <3>2 DEF RowsInv, NotYetAllocated, MessageHasTurn, AbsentMessage
      <3>. QED  BY <1>3, <2>5, <3>1, <3>2
    <2>. QED  BY <1>1, <1>3, <2>1, <2>2, <2>3, <2>4, <2>5, InsertKeepsRows DEF NewTurn
  <1>. QED  BY <1>4, <1>5

(* What a commit leaves alone: who a message is from and in which          *)
(* conversation and turn it is, the questions, and every column of the     *)
(* turns but the status; it removes no row.                                *)
LEMMA CommitKeepsIdentity ==
    ASSUME TypeOK, RowsInv, NEW s \in Sessions,
           UpdateCommit(s) \/ CancelCommit(s) \/ FinishCommit(s)
    PROVE  /\ \A m \in MessageIds :
                 /\ messages'[m].role = messages[m].role
                 /\ messages'[m].scope = messages[m].scope
                 /\ messages'[m].turn = messages[m].turn
                 /\ messages[m].role # "assistant" =>
                       messages'[m].content = messages[m].content
                 /\ messages[m].role = "absent" => messages'[m] = messages[m]
                 /\ messages'[m].supersededBy # messages[m].supersededBy =>
                       /\ m = loaded[s].turn.target
                       /\ messages'[m].supersededBy = loaded[s].turn.assistant
                       /\ messages[m].role # "absent"
                       /\ messages[m].scope = call[s].scope
           /\ \A t \in Turns :
                 /\ turns'[t].scope = turns[t].scope
                 /\ turns'[t].query = turns[t].query
                 /\ turns'[t].target = turns[t].target
                 /\ turns'[t].user = turns[t].user
                 /\ turns'[t].assistant = turns[t].assistant
                 /\ TurnExists(t)' <=> TurnExists(t)
           /\ UNCHANGED <<conversations, nextMessage>>
           /\ summary' \in {summary, [summary EXCEPT ![call[s].scope] = call[s].turn]}
           /\ stage'[s] = "idle"
           /\ \A z \in Sessions \ {s} : /\ call'[z] = call[z]
                                       /\ stage'[z] = stage[z]
                                       /\ loaded'[z] = loaded[z]
  <1>1. /\ CanCommit(s) /\ stage[s] = "commit" /\ LoadedTurnStands(s)
        /\ SessionOK(s) /\ messages \in [MessageIds -> MessageRow]
        /\ turns \in [Turns -> TurnRow]
    BY DEF UpdateCommit, CancelCommit, FinishCommit, RowsInv, TypeOK
  <1>2. PICK st \in TurnStatus, x \in Contents :
           /\ WriteTurn(s, st)
           /\ \/ messages' = [messages EXCEPT ![loaded[s].turn.assistant] =
                                  WrittenMessage(s, st, x)]
              \/ /\ Supersedes(s)
                 /\ messages' = [[messages EXCEPT ![loaded[s].turn.assistant] =
                                     WrittenMessage(s, st, x)]
                                   EXCEPT ![loaded[s].turn.target].status = "superseded",
                                          ![loaded[s].turn.target].supersededBy =
                                             loaded[s].turn.assistant]
    <2>. call[s].content \in Contents /\ loaded[s].message.content \in Contents
      BY DEF TypeOK, Call, LoadedRows, MessageRow
    <2>1. CASE UpdateCommit(s)
      BY <2>1 DEF UpdateCommit, TurnStatus, Active
    <2>2. CASE CancelCommit(s)
      BY <2>2 DEF CancelCommit, TurnStatus, Settled
    <2>3. CASE FinishCommit(s)
      <3>1. FinalStatus(s) \in TurnStatus /\ FinalContent(s) \in Contents
        BY <1>1, <2>3 DEF FinishCommit, FinalStatus, FinalContent, SessionOK, TurnStatus, Settled
      <3>. QED  BY <2>3, <3>1 DEF FinishCommit, Superseded
    <2>. QED  BY <2>1, <2>2, <2>3
  <1>3. PICK a \in MessageIds : a = loaded[s].turn.assistant
    BY <1>1, CommitTarget
  <1>4. messages[a].role = "assistant"
    BY <1>1, <1>3 DEF CanCommit, LoadedTurnStands, Message
  <1>5. PICK w : /\ w = WrittenMessage(s, st, x)
                 /\ w.role = messages[a].role /\ w.scope = messages[a].scope
                 /\ w.turn = messages[a].turn
                 /\ w.supersededBy = messages[a].supersededBy
                 /\ w \in MessageRow
    BY <1>1, <1>2, <1>3, WrittenMessageType DEF WrittenMessage, MessageRow
  <1>6. ASSUME NEW m \in MessageIds
        PROVE  /\ messages'[m].role = messages[m].role
               /\ messages'[m].scope = messages[m].scope
               /\ messages'[m].turn = messages[m].turn
               /\ messages[m].role # "assistant" =>
                     messages'[m].content = messages[m].content
               /\ messages[m].role = "absent" => messages'[m] = messages[m]
               /\ messages'[m].supersededBy # messages[m].supersededBy =>
                     /\ m = loaded[s].turn.target
                     /\ messages'[m].supersededBy = loaded[s].turn.assistant
                     /\ messages[m].role # "absent"
                     /\ messages[m].scope = call[s].scope
    <2>. DEFINE answered == [messages EXCEPT ![a] = w]
    <2>1. /\ answered \in [MessageIds -> MessageRow]
          /\ answered[m].role = messages[m].role /\ answered[m].scope = messages[m].scope
          /\ answered[m].turn = messages[m].turn
          /\ answered[m].supersededBy = messages[m].supersededBy
          /\ messages[m].role # "assistant" => answered[m].content = messages[m].content
          /\ messages[m].role = "absent" => answered[m] = messages[m]
      BY <1>1, <1>4, <1>5
    <2>2. CASE messages' = answered
      BY <2>1, <2>2
    <2>3. CASE /\ Supersedes(s)
               /\ messages' = [answered EXCEPT ![loaded[s].turn.target].status = "superseded",
                                               ![loaded[s].turn.target].supersededBy = a]
      <3>. HIDE DEF answered
      <3>1. CASE m # loaded[s].turn.target
        BY <2>1, <2>3, <3>1
      <3>2. CASE m = loaded[s].turn.target
        <4>1. messages[m].role # "absent" /\ messages[m].scope = call[s].scope
          BY <2>3, <3>2 DEF Supersedes, Message
        <4>2. messages'[m] = [answered[m] EXCEPT !.status = "superseded", !.supersededBy = a]
          BY <2>1, <2>3, <3>2
        <4>3. answered[m] \in MessageRow
          BY <2>1
        <4>. QED  BY <1>3, <2>1, <3>2, <4>1, <4>2, <4>3 DEF MessageRow
      <3>. QED  BY <3>1, <3>2
    <2>. QED  BY <1>2, <1>3, <1>5, <2>2, <2>3
  <1>7. ASSUME NEW t \in Turns
        PROVE  /\ turns'[t].scope = turns[t].scope
               /\ turns'[t].query = turns[t].query
               /\ turns'[t].target = turns[t].target
               /\ turns'[t].user = turns[t].user
               /\ turns'[t].assistant = turns[t].assistant
               /\ TurnExists(t)' <=> TurnExists(t)
    <2>1. /\ turns' = [turns EXCEPT ![call[s].turn].status =
                          Written(loaded[s].turn.status, st, @)]
          /\ TurnExists(call[s].turn)
      BY <1>1, <1>2 DEF WriteTurn, CanCommit
    <2>. QED  BY <1>1, <2>1 DEF TurnRow, TurnExists, Written, TurnStatus, Active, Settled
  <1>8. /\ UNCHANGED <<conversations, nextMessage>>
        /\ summary' \in {summary, [summary EXCEPT ![call[s].scope] = call[s].turn]}
        /\ stage'[s] = "idle"
        /\ \A z \in Sessions \ {s} : /\ call'[z] = call[z]
                                    /\ stage'[z] = stage[z]
                                    /\ loaded'[z] = loaded[z]
    BY OthersOnReturn DEF UpdateCommit, CancelCommit, FinishCommit
  <1>. QED  BY <1>6, <1>7, <1>8

(* What a commit writes: the turn of its call, and of texts only the one   *)
(* of that turn's answer.                                                  *)
LEMMA CommitWrites ==
    ASSUME TypeOK, RowsInv, NEW s \in Sessions,
           UpdateCommit(s) \/ CancelCommit(s) \/ FinishCommit(s),
           NEW t, t = call[s].turn, NEW a, a = loaded[s].turn.assistant
    PROVE  /\ t \in Turns /\ TurnExists(t) /\ turns[t].scope = call[s].scope
           /\ a \in MessageIds /\ turns[t].assistant = a /\ messages[a].turn = t
           /\ \A y \in Turns \ {t} : turns'[y] = turns[y]
           /\ \A m \in MessageIds \ {a} : messages'[m].content = messages[m].content
           /\ CancelCommit(s) => /\ turns'[t].status = "stopped"
                                /\ messages'[a].content = messages[a].content
           /\ UpdateCommit(s) => /\ turns'[t].status \in {"streaming", turns[t].status}
                                /\ messages'[a].content =
                                      Written(loaded[s].message.content, call[s].content,
                                              messages[a].content)
           /\ FinishCommit(s) => /\ turns'[t].status =
                                      Written(loaded[s].turn.status, FinalStatus(s),
                                              turns[t].status)
                                /\ messages'[a].content =
                                      Written(loaded[s].message.content, FinalContent(s),
                                              messages[a].content)
  <1>1. /\ CanCommit(s) /\ stage[s] = "commit" /\ LoadedTurnStands(s)
        /\ SessionOK(s) /\ messages \in [MessageIds -> MessageRow]
        /\ turns \in [Turns -> TurnRow]
    BY DEF UpdateCommit, CancelCommit, FinishCommit, RowsInv, TypeOK
  <1>2. /\ t \in Turns /\ TurnExists(t) /\ a \in MessageIds
        /\ messages[a].role = "assistant" /\ messages[a].turn = t
        /\ messages[a].scope = call[s].scope /\ Message(a) = messages[a]
        /\ turns[t].target = loaded[s].turn.target
    BY <1>1, CommitTarget DEF SessionOK, CanCommit, LoadedTurnStands, Message
  <1>3. turns[t].assistant = a /\ turns[t].scope = call[s].scope
    <2>1. MessageHasTurn(a) /\ TurnHasExchange(t)
      BY <1>2 DEF RowsInv, OneExchangePerTurn
    <2>. QED  BY <1>2, <2>1 DEF MessageHasTurn, TurnHasExchange
  <1>4. turns[t].target # a
    BY <1>1, <1>2, <1>3, MaxMessagesAssumption
       DEF RowsInv, OneExchangePerTurn, TurnHasExchange, TurnRow, MessageIds
  <1>5. ASSUME NEW st, WriteTurn(s, st)
        PROVE  /\ turns'[t].status = Written(loaded[s].turn.status, st, turns[t].status)
               /\ \A y \in Turns \ {t} : turns'[y] = turns[y]
    BY <1>1, <1>2, <1>5 DEF WriteTurn, TurnRow
  <1>6. ASSUME NEW st, NEW x, NEW rs, rs = [messages EXCEPT ![a] = WrittenMessage(s, st, x)]
        PROVE  /\ rs[a].content = Written(loaded[s].message.content, x, messages[a].content)
               /\ \A m \in MessageIds \ {a} : rs[m].content = messages[m].content
               /\ DOMAIN rs = MessageIds
    <2>1. rs[a] = WrittenMessage(s, st, x)
      BY <1>1, <1>2, <1>6
    <2>2. messages[a] \in MessageRow
      BY <1>1, <1>2
    <2>. QED  BY <1>1, <1>2, <1>6, <2>1, <2>2 DEF WrittenMessage, MessageRow
  <1>7. CASE UpdateCommit(s)
    <2>1. WriteTurn(s, "streaming")
      BY <1>7 DEF UpdateCommit
    <2>2. messages' = [messages EXCEPT ![a] = WrittenMessage(s, "streaming", call[s].content)]
      BY <1>7 DEF UpdateCommit
    <2>3. ~CancelCommit(s) /\ ~FinishCommit(s)
      BY <1>7 DEF UpdateCommit, CancelCommit, FinishCommit
    <2>. QED  BY <1>2, <1>3, <1>5, <1>6, <2>1, <2>2, <2>3 DEF Written
  <1>8. CASE CancelCommit(s)
    <2>1. WriteTurn(s, "stopped") /\ loaded[s].turn.status \in Active
      BY <1>1, <1>8 DEF CancelCommit, SessionOK, StepFits
    <2>2. messages' = [messages EXCEPT ![a] =
                          WrittenMessage(s, "stopped", loaded[s].message.content)]
      BY <1>8 DEF CancelCommit
    <2>3. ~UpdateCommit(s) /\ ~FinishCommit(s)
      BY <1>8 DEF UpdateCommit, CancelCommit, FinishCommit
    <2>4. turns'[t].status = "stopped"
      BY <1>5, <2>1 DEF Written, Active
    <2>. QED  BY <1>2, <1>3, <1>5, <1>6, <2>1, <2>2, <2>3, <2>4 DEF Written
  <1>9. CASE FinishCommit(s)
    <2>. PICK rs : rs = [messages EXCEPT ![a] =
                            WrittenMessage(s, FinalStatus(s), FinalContent(s))]
      OBVIOUS
    <2>1. /\ WriteTurn(s, FinalStatus(s))
          /\ messages' = rs \/ messages' = Superseded(rs, turns[t].target, a)
      BY <1>2, <1>9 DEF FinishCommit
    <2>2. ~UpdateCommit(s) /\ ~CancelCommit(s)
      BY <1>9 DEF UpdateCommit, CancelCommit, FinishCommit
    <2>3. /\ rs[a].content = Written(loaded[s].message.content, FinalContent(s),
                                     messages[a].content)
          /\ \A m \in MessageIds \ {a} : rs[m].content = messages[m].content
          /\ DOMAIN rs = MessageIds
      BY <1>6
    <2>4. ASSUME NEW m \in MessageIds PROVE messages'[m].content = rs[m].content
      <3>1. rs[m] \in MessageRow
        <4>1. WrittenMessage(s, FinalStatus(s), FinalContent(s)) \in MessageRow
          <5>1. FinalStatus(s) \in TurnStatus /\ FinalContent(s) \in Contents
            BY <1>1, <1>9
               DEF FinishCommit, FinalStatus, FinalContent, SessionOK, TypeOK, Call,
                   LoadedRows, MessageRow, TurnStatus, Settled
          <5>. QED  BY <1>2, <5>1, WrittenMessageType
        <4>. QED  BY <1>1, <4>1
      <3>2. CASE messages' = rs
        BY <3>2
      <3>3. CASE messages' = Superseded(rs, turns[t].target, a) /\ m # turns[t].target
        BY <2>3, <3>3 DEF Superseded
      <3>4. CASE messages' = Superseded(rs, turns[t].target, a) /\ m = turns[t].target
        <4>1. messages'[m] = [rs[m] EXCEPT !.status = "superseded", !.supersededBy = a]
          BY <2>3, <3>4 DEF Superseded
        <4>. QED  BY <3>1, <4>1 DEF MessageRow
      <3>. QED  BY <2>1, <3>2, <3>3, <3>4
    <2>. QED  BY <1>2, <1>3, <1>5, <2>1, <2>2, <2>3, <2>4
  <1>. QED  BY <1>7, <1>8, <1>9

LEMMA CommitRows ==
    ASSUME TypeOK, RowsInv, NEW s \in Sessions,
           UpdateCommit(s) \/ CancelCommit(s) \/ FinishCommit(s)
    PROVE  RowsInv'
  <1>0. ASSUME NEW m
        PROVE  /\ Message(m)'.role = Message(m).role
               /\ Message(m)'.scope = Message(m).scope
               /\ Message(m)'.turn = Message(m).turn
               /\ Message(m).role # "assistant" =>
                     Message(m)'.content = Message(m).content
    BY CommitKeepsIdentity DEF Message
  <1>1. /\ \A t \in Turns : TurnExists(t)' <=> TurnExists(t)
        /\ UNCHANGED <<conversations, nextMessage>>
    BY CommitKeepsIdentity
  <1>2. /\ CanCommit(s) /\ LoadedTurnStands(s) /\ SessionOK(s) /\ stage[s] = "commit"
        /\ TurnExists(call[s].turn) /\ call[s].turn \in Turns /\ call[s].scope \in Scopes
    BY DEF UpdateCommit, CancelCommit, FinishCommit, RowsInv, TypeOK, SessionOK, CanCommit
  <1>3. PICK a \in MessageIds : a = loaded[s].turn.assistant
    BY <1>2, CommitTarget
  <1>4. /\ Message(a) = messages[a]
        /\ messages[a].role = "assistant" /\ messages[a].turn = call[s].turn
        /\ messages[a].scope = call[s].scope
        /\ turns[call[s].turn].target = loaded[s].turn.target
        /\ turns[call[s].turn].assistant = a
        /\ turns[call[s].turn].scope = call[s].scope
        /\ loaded[s].turn.target < a
    <2>1. /\ Message(a) = messages[a]
          /\ messages[a].role = "assistant" /\ messages[a].turn = call[s].turn
          /\ messages[a].scope = call[s].scope
          /\ turns[call[s].turn].target = loaded[s].turn.target
      BY <1>2, <1>3 DEF CanCommit, LoadedTurnStands, Message
    <2>2. MessageHasTurn(a) /\ TurnHasExchange(call[s].turn)
      BY <1>2 DEF RowsInv, OneExchangePerTurn
    <2>3. turns[call[s].turn].assistant = a
      BY <2>1, <2>2 DEF MessageHasTurn
    <2>. QED  BY <1>2, <2>1, <2>2, <2>3 DEF TurnHasExchange
  <1>5. ASSUME NEW t \in Turns PROVE TurnHasExchange(t)'
    <2>1. TurnHasExchange(t)
      BY DEF RowsInv, OneExchangePerTurn
    <2>2. /\ turns'[t].scope = turns[t].scope /\ turns'[t].query = turns[t].query
          /\ turns'[t].target = turns[t].target /\ turns'[t].user = turns[t].user
          /\ turns'[t].assistant = turns[t].assistant
          /\ TurnExists(t)' <=> TurnExists(t)
      BY CommitKeepsIdentity
    <2>3. SUFFICES ASSUME TurnExists(t) PROVE TurnHasExchange(t)'
      BY <2>2 DEF TurnHasExchange
    <2>4. PICK u, b : u = turns[t].user /\ b = turns[t].assistant
      OBVIOUS
    <2>5. /\ Message(b).role = "assistant" /\ Message(b).turn = t
          /\ Message(b).scope = turns[t].scope
          /\ u < b /\ turns[t].target < b
          /\ turns[t].target = 0 => Message(u).role = "user" /\ Message(u).turn = t
          /\ Message(u).role # "absent" =>
                /\ Message(u).role = "user"
                /\ Message(u).scope = turns[t].scope
                /\ Message(u).content = turns[t].query
      BY <2>1, <2>3, <2>4 DEF TurnHasExchange
    <2>6. /\ Message(u)'.role = Message(u).role /\ Message(u)'.scope = Message(u).scope
          /\ Message(u)'.turn = Message(u).turn
          /\ Message(u).role # "assistant" => Message(u)'.content = Message(u).content
          /\ Message(b)'.role = Message(b).role /\ Message(b)'.scope = Message(b).scope
          /\ Message(b)'.turn = Message(b).turn
      BY <1>0
    <2>7. PICK mu, mb : mu = Message(u)' /\ mb = Message(b)'
      OBVIOUS
    <2>8. turns'[t].user = u /\ turns'[t].assistant = b
      BY <2>2, <2>4
    <2>9. /\ mb = Message(turns[t].assistant)'
          /\ mu = Message(turns[t].user)'
      BY <2>7, <2>8 DEF Message
    <2>10. /\ mb.role = "assistant" /\ mb.turn = t /\ mb.scope = turns[t].scope
           /\ turns[t].target = 0 => mu.role = "user" /\ mu.turn = t
           /\ mu.role # "absent" => /\ mu.role = "user"
                                   /\ mu.scope = turns[t].scope
                                   /\ mu.content = turns[t].query
      BY <2>5, <2>6, <2>7
    <2>. QED  BY <2>2, <2>5, <2>8, <2>9, <2>10 DEF TurnHasExchange
  <1>6. ASSUME NEW m \in MessageIds PROVE MessageHasTurn(m)'
    <2>1. MessageHasTurn(m)
      BY DEF RowsInv, OneExchangePerTurn
    <2>. QED  BY <1>1, <2>1, CommitKeepsIdentity DEF MessageHasTurn
  <1>7. NoOrphanRows'
    <2>1. NoOrphanRows /\ summary \in [Scopes -> Turns \cup {None}]
      BY DEF RowsInv, TypeOK
    <2>2. \A t \in Turns : TurnExists(t)' => turns'[t].scope \in conversations'
      BY <1>1, <2>1, CommitKeepsIdentity DEF NoOrphanRows
    <2>3. \A m \in MessageIds :
             messages'[m].role # "absent" => messages'[m].scope \in conversations'
      BY <1>1, <2>1, CommitKeepsIdentity DEF NoOrphanRows
    <2>4. ASSUME NEW c \in Scopes, NEW t, t = summary'[c], t # None
          PROVE  c \in conversations' /\ TurnExists(t)' /\ turns'[t].scope = c
      <3>1. t = summary[c] \/ (t = call[s].turn /\ c = call[s].scope)
        BY <2>1, <2>4, CommitKeepsIdentity
      <3>2. CASE t = summary[c]
        BY <1>1, <2>1, <2>4, <3>2, CommitKeepsIdentity DEF NoOrphanRows
      <3>3. CASE t = call[s].turn /\ c = call[s].scope
        BY <1>1, <1>2, <1>4, <2>1, <3>3, CommitKeepsIdentity DEF NoOrphanRows
      <3>. QED  BY <3>1, <3>2, <3>3
    <2>. QED  BY <2>2, <2>3, <2>4 DEF NoOrphanRows
  <1>8. ASSUME NEW m \in MessageIds, NEW k, k = messages'[m].supersededBy, k # 0
        PROVE  /\ k > m
               /\ Message(k)'.role = "assistant"
               /\ turns'[Message(k)'.turn].target = m
               /\ Message(k)'.scope = messages'[m].scope
    <2>1. /\ Message(k)'.role = Message(k).role /\ Message(k)'.scope = Message(k).scope
          /\ Message(k)'.turn = Message(k).turn
          /\ messages'[m].scope = messages[m].scope
      BY <1>0, CommitKeepsIdentity
    <2>2. CASE k = messages[m].supersededBy
      <3>1. /\ k > m /\ Message(k).role = "assistant"
            /\ turns[Message(k).turn].target = m /\ Message(k).scope = messages[m].scope
        BY <1>8, <2>2 DEF RowsInv, SupersededByItsReplay, SupersederShares
      <3>2. Message(k).turn \in Turns
        <4>1. k \in MessageIds /\ Message(k) = messages[k]
          BY <3>1 DEF Message, AbsentMessage
        <4>2. MessageHasTurn(k)
          BY <4>1 DEF RowsInv, OneExchangePerTurn
        <4>. QED  BY <3>1, <4>1, <4>2 DEF MessageHasTurn
      <3>. QED  BY <2>1, <3>1, <3>2, CommitKeepsIdentity
    <2>3. CASE k # messages[m].supersededBy
      <3>1. k = a /\ m = loaded[s].turn.target /\ messages[m].scope = call[s].scope
        BY <1>3, <1>8, <2>3, CommitKeepsIdentity
      <3>2. a > m
        BY <1>3, <1>4, <3>1, MaxMessagesAssumption DEF MessageIds
      <3>. QED  BY <1>2, <1>4, <2>1, <3>1, <3>2, CommitKeepsIdentity
    <2>. QED  BY <2>2, <2>3
  <1>9. SupersededByItsReplay' /\ \A m \in MessageIds : SupersederShares(m)'
    BY <1>8 DEF SupersededByItsReplay, SupersederShares
  <1>10. NotYetAllocated'
    <2>1. ASSUME NEW m \in MessageIds, messages[m] = AbsentMessage
          PROVE  messages'[m] = AbsentMessage
      <3>1. messages[m].role = "absent"
        BY <2>1 DEF AbsentMessage
      <3>. QED  BY <2>1, <3>1, CommitKeepsIdentity
    <2>. QED  BY <1>1, <2>1 DEF RowsInv, NotYetAllocated
  <1>11. ASSUME NEW z \in Sessions
         PROVE  (LoadedTurnStands(z) /\ LoadedQuestionStands(z))'
    <2>1. CASE z = s
      BY <2>1, CommitKeepsIdentity DEF LoadedTurnStands, LoadedQuestionStands
    <2>2. CASE z # s
      <3>1. /\ LoadedTurnStands(z) /\ LoadedQuestionStands(z) /\ SessionOK(z)
            /\ call'[z] = call[z] /\ stage'[z] = stage[z] /\ loaded'[z] = loaded[z]
        BY <2>2, CommitKeepsIdentity DEF RowsInv, TypeOK
      <3>2. PICK b, u : b = loaded[z].turn.assistant /\ u = loaded[z].question
        OBVIOUS
      <3>3. /\ Message(u)'.role = Message(u).role /\ Message(u)'.scope = Message(u).scope
            /\ Message(u).role # "assistant" => Message(u)'.content = Message(u).content
            /\ Message(b)'.role = Message(b).role /\ Message(b)'.scope = Message(b).scope
            /\ Message(b)'.turn = Message(b).turn
        BY <1>0
      <3>4. stage[z] # "idle" => turns'[call[z].turn].target = turns[call[z].turn].target
        BY <3>1, CommitKeepsIdentity DEF SessionOK
      <3>. QED  BY <1>1, <3>1, <3>2, <3>3, <3>4 DEF LoadedTurnStands, LoadedQuestionStands
    <2>. QED  BY <2>1, <2>2
  <1>. QED  BY <1>5, <1>6, <1>7, <1>9, <1>10, <1>11 DEF RowsInv, OneExchangePerTurn

LEMMA DeleteRows ==
    ASSUME TypeOK, RowsInv, NEW c \in Scopes, DeleteConversation(c)
    PROVE  RowsInv'
  <1>1. /\ \A t \in Turns : turns'[t] = IF turns[t].scope = c THEN AbsentTurn ELSE turns[t]
        /\ \A m \in MessageIds :
              messages'[m] = IF messages[m].scope = c THEN AbsentMessage ELSE messages[m]
        /\ conversations' = conversations \ {c}
        /\ summary' = [summary EXCEPT ![c] = None]
        /\ UNCHANGED <<nextMessage, call, stage, loaded>>
    BY DEF DeleteConversation
  <1>2. ASSUME NEW m
        PROVE  /\ Message(m).scope # c => Message(m)' = Message(m)
               /\ Message(m).scope = c => Message(m)' = AbsentMessage
    BY <1>1 DEF Message
  <1>3. AbsentMessage.role = "absent" /\ AbsentTurn.status = "absent"
        /\ AbsentMessage.supersededBy = 0
    BY DEF AbsentMessage, AbsentTurn
  <1>4. ASSUME NEW t \in Turns PROVE TurnHasExchange(t)'
    <2>1. SUFFICES ASSUME TurnExists(t)' PROVE TurnHasExchange(t)'
      BY DEF TurnHasExchange
    <2>2. turns'[t] = turns[t] /\ turns[t].scope # c /\ TurnExists(t) /\ TurnHasExchange(t)
      BY <1>1, <1>3, <2>1 DEF TurnExists, RowsInv, OneExchangePerTurn
    <2>3. PICK u, b : u = turns[t].user /\ b = turns[t].assistant
      OBVIOUS
    <2>4. Message(b)' = Message(b)
      BY <1>2, <2>2, <2>3 DEF TurnHasExchange
    <2>5. Message(u).role # "absent" => Message(u)' = Message(u)
      BY <1>2, <2>2, <2>3 DEF TurnHasExchange
    <2>6. Message(u)' = Message(u) \/ Message(u)' = AbsentMessage
      BY <1>2
    <2>7. turns[t].target = 0 => Message(u).role = "user"
      BY <2>2, <2>3 DEF TurnHasExchange
    <2>8. /\ Message(turns[t].assistant)' = Message(b)
          /\ Message(turns[t].user)' \in {Message(u), AbsentMessage}
          /\ Message(u).role # "absent" => Message(turns[t].user)' = Message(u)
      BY <2>2, <2>3, <2>4, <2>5, <2>6 DEF Message
    <2>. QED  BY <1>3, <2>2, <2>3, <2>7, <2>8 DEF TurnHasExchange
  <1>5. ASSUME NEW m \in MessageIds PROVE MessageHasTurn(m)'
    <2>1. SUFFICES ASSUME messages'[m].role # "absent" PROVE MessageHasTurn(m)'
      BY DEF MessageHasTurn
    <2>2. /\ messages'[m] = messages[m] /\ messages[m].scope # c
          /\ MessageHasTurn(m)
      BY <1>1, <1>3, <2>1 DEF RowsInv, OneExchangePerTurn
    <2>3. messages[m].role \in {"user", "assistant"} /\ Message(m) = messages[m]
      BY <2>1, <2>2 DEF TypeOK, MessageRow, Message
    <2>4. /\ messages[m].turn \in Turns /\ TurnExists(messages[m].turn)
          /\ TurnHasExchange(messages[m].turn)
      BY <2>1, <2>2 DEF MessageHasTurn, RowsInv, OneExchangePerTurn
    <2>5. turns[messages[m].turn].scope = messages[m].scope
      BY <2>1, <2>2, <2>3, <2>4 DEF MessageHasTurn, TurnHasExchange
    <2>6. turns'[messages[m].turn] = turns[messages[m].turn]
      BY <1>1, <2>2, <2>4, <2>5
    <2>. QED  BY <2>2, <2>4, <2>6 DEF MessageHasTurn, TurnExists
  <1>6. NoOrphanRows'
    <2>1. NoOrphanRows /\ summary \in [Scopes -> Turns \cup {None}]
      BY DEF RowsInv, TypeOK
    <2>2. \A t \in Turns : TurnExists(t)' => turns'[t].scope \in conversations'
      BY <1>1, <1>3, <2>1 DEF NoOrphanRows, TurnExists
    <2>3. \A m \in MessageIds :
             messages'[m].role # "absent" => messages'[m].scope \in conversations'
      BY <1>1, <1>3, <2>1 DEF NoOrphanRows
    <2>4. ASSUME NEW d \in Scopes, NEW t, t = summary'[d], t # None
          PROVE  d \in conversations' /\ TurnExists(t)' /\ turns'[t].scope = d
      <3>1. d # c /\ t = summary[d] /\ t \in Turns
        BY <1>1, <2>1, <2>4
      <3>2. turns'[t] = turns[t]
        BY <1>1, <2>1, <2>4, <3>1 DEF NoOrphanRows
      <3>. QED  BY <1>1, <2>1, <2>4, <3>1, <3>2 DEF NoOrphanRows, TurnExists
    <2>. QED  BY <2>2, <2>3, <2>4 DEF NoOrphanRows
  <1>7. ASSUME NEW m \in MessageIds, NEW k, k = messages'[m].supersededBy, k # 0
        PROVE  /\ k > m
               /\ Message(k)'.role = "assistant"
               /\ turns'[Message(k)'.turn].target = m
               /\ Message(k)'.scope = messages'[m].scope
    <2>1. messages'[m] = messages[m] /\ messages[m].scope # c
      BY <1>1, <1>3, <1>7
    <2>2. /\ k > m /\ Message(k).role = "assistant"
          /\ turns[Message(k).turn].target = m /\ Message(k).scope = messages[m].scope
      BY <1>7, <2>1 DEF RowsInv, SupersededByItsReplay, SupersederShares
    <2>3. Message(k)' = Message(k)
      BY <1>2, <2>1, <2>2
    <2>4. k \in MessageIds /\ Message(k) = messages[k]
      BY <2>2 DEF Message, AbsentMessage
    <2>5. /\ messages[k].turn \in Turns
          /\ turns[messages[k].turn].scope = messages[k].scope
      <3>1. MessageHasTurn(k)
        BY <2>4 DEF RowsInv, OneExchangePerTurn
      <3>2. /\ messages[k].turn \in Turns /\ TurnExists(messages[k].turn)
            /\ turns[messages[k].turn].assistant = k
        BY <2>2, <2>4, <3>1 DEF MessageHasTurn
      <3>3. TurnHasExchange(messages[k].turn)
        BY <3>2 DEF RowsInv, OneExchangePerTurn
      <3>. QED  BY <2>4, <3>2, <3>3 DEF TurnHasExchange
    <2>. QED  BY <1>1, <2>1, <2>2, <2>3, <2>4, <2>5
  <1>8. SupersededByItsReplay' /\ \A m \in MessageIds : SupersederShares(m)'
    BY <1>7 DEF SupersededByItsReplay, SupersederShares
  <1>9. NotYetAllocated'
    BY <1>1 DEF RowsInv, NotYetAllocated
  <1>10. ASSUME NEW z \in Sessions
         PROVE  (LoadedTurnStands(z) /\ LoadedQuestionStands(z))'
    <2>1. LoadedTurnStands(z) /\ LoadedQuestionStands(z) /\ SessionOK(z)
      BY DEF RowsInv, TypeOK
    <2>2. PICK b, u : b = loaded[z].turn.assistant /\ u = loaded[z].question
      OBVIOUS
    <2>3. /\ Message(b)' = Message(b) \/ Message(b)'.role = "absent"
          /\ Message(u)' = Message(u) \/ Message(u)'.role = "absent"
      BY <1>2, <1>3
    <2>4. LoadedTurnStands(z)'
      <3>1. SUFFICES ASSUME stage[z] \in {"assistant", "commit"}, Message(b)'.role # "absent"
                     PROVE  LoadedTurnStands(z)'
        BY <1>1, <2>1, <2>2 DEF LoadedTurnStands
      <3>2. Message(b)' = Message(b) /\ Message(b).scope # c
        BY <1>2, <1>3, <2>3, <3>1
      <3>3. /\ b < nextMessage /\ Message(b).role = "assistant"
            /\ Message(b).turn = call[z].turn /\ Message(b).scope = call[z].scope
            /\ turns[call[z].turn].target = loaded[z].turn.target
        BY <2>1, <2>2, <3>1, <3>2 DEF LoadedTurnStands
      <3>4. b \in MessageIds /\ Message(b) = messages[b] /\ call[z].turn \in Turns
        BY <2>1, <3>1, <3>3 DEF Message, AbsentMessage, SessionOK
      <3>5. turns[call[z].turn].scope = call[z].scope
        <4>1. MessageHasTurn(b) /\ TurnHasExchange(call[z].turn)
          BY <3>4 DEF RowsInv, OneExchangePerTurn
        <4>. QED  BY <3>3, <3>4, <4>1 DEF MessageHasTurn, TurnHasExchange
      <3>6. turns'[call[z].turn] = turns[call[z].turn]
        BY <1>1, <3>2, <3>3, <3>4, <3>5
      <3>. QED  BY <1>1, <2>2, <3>2, <3>3, <3>6 DEF LoadedTurnStands
    <2>5. LoadedQuestionStands(z)'
      BY <1>1, <2>1, <2>2, <2>3 DEF LoadedQuestionStands
    <2>. QED  BY <2>4, <2>5
  <1>. QED  BY <1>4, <1>5, <1>6, <1>8, <1>9, <1>10 DEF RowsInv, OneExchangePerTurn

LEMMA InitRows == Init => RowsInv
  <1>. SUFFICES ASSUME Init PROVE RowsInv
    OBVIOUS
  <1>1. /\ \A t \in Turns : ~TurnExists(t)
        /\ \A m \in MessageIds : messages[m] = AbsentMessage
        /\ AbsentMessage.role = "absent" /\ AbsentMessage.supersededBy = 0
    BY DEF Init, TurnExists, AbsentTurn, AbsentMessage
  <1>2. OneExchangePerTurn
    BY <1>1 DEF OneExchangePerTurn, TurnHasExchange, MessageHasTurn
  <1>3. NoOrphanRows
    BY <1>1 DEF NoOrphanRows, Init
  <1>4. /\ SupersededByItsReplay /\ NotYetAllocated
        /\ \A m \in MessageIds : SupersederShares(m)
    BY <1>1 DEF SupersededByItsReplay, NotYetAllocated, SupersederShares
  <1>5. \A s \in Sessions : LoadedTurnStands(s) /\ LoadedQuestionStands(s)
    BY DEF Init, LoadedTurnStands, LoadedQuestionStands
  <1>. QED  BY <1>2, <1>3, <1>4, <1>5 DEF RowsInv

LEMMA RowsInvariant == Spec => []RowsInv
  <1>1. TypeOK /\ RowsInv /\ [Next]_vars => RowsInv'
    <2>. SUFFICES ASSUME TypeOK, RowsInv, [Next]_vars PROVE RowsInv'
      OBVIOUS
    <2>1. ASSUME NEW s \in Sessions, SessionStep(s)
          PROVE  RowsInv'
      BY <2>1, ReadStepRows, InsertRows, CommitRows DEF SessionStep, CallStep
    <2>2. ASSUME NEW s \in Sessions, ClientCall(s)
          PROVE  RowsInv'
      BY <2>2, ClientCallRows
    <2>3. ASSUME NEW c \in Scopes, DeleteConversation(c)
          PROVE  RowsInv'
      BY <2>3, DeleteRows
    <2>4. ASSUME NEW c \in Scopes, MakeConversation(c)
          PROVE  RowsInv'
      BY <2>4, IdleStepRows DEF MakeConversation
    <2>5. CASE UNCHANGED vars
      BY <2>5, IdleStepRows DEF vars, rows
    <2>. QED  BY <2>1, <2>2, <2>3, <2>4, <2>5 DEF Next
  <1>. QED  BY <1>1, InitRows, TypeCorrect, PTL DEF Spec

(* However calls, deletions and failures overlap, a turn id stands for one *)
(* exchange.                                                               *)
THEOREM OneExchange == Spec => []OneExchangePerTurn
  <1>1. RowsInv => OneExchangePerTurn
    BY DEF RowsInv
  <1>. QED  BY <1>1, RowsInvariant, PTL

(* No message, turn or summary survives the deletion of its conversation,  *)
(* not even one that a call in progress writes after it.                   *)
THEOREM NoOrphans == Spec => []NoOrphanRows
  <1>1. RowsInv => NoOrphanRows
    BY DEF RowsInv
  <1>. QED  BY <1>1, RowsInvariant, PTL

(* An answer is superseded only by a younger answer that replays it, so    *)
(* the superseded_by_message_id chains of a history end.                   *)
THEOREM SupersedingTerminates == Spec => []SupersededByItsReplay
  <1>1. RowsInv => SupersededByItsReplay
    BY DEF RowsInv
  <1>. QED  BY <1>1, RowsInvariant, PTL

(***************************************************************************)
(* Agreement                                                               *)
(***************************************************************************)

(* HistoryAgreesWithTurns is not inductive either.  A completing replay    *)
(* hides the answer it was asked to replace, and nothing that               *)
(* HistoryAgreesWithTurns says keeps that answer's own turn from writing   *)
(* to it again.  It does not because begin_turn takes only a settled       *)
(* answer, message ids are not reused and a settled turn stays settled     *)
(* unless it is overrun.  And a commit leaves the columns alone that it    *)
(* does not change, so what it read must still stand where it matters.     *)
AnswerAgrees(t) ==
    TurnExists(t) /\ t \notin overrun =>
        Message(turns[t].assistant).status \in {turns[t].status, "superseded"}

HiddenByCompletion(m) ==
    messages[m].status = "superseded" =>
        LET t == Message(messages[m].supersededBy).turn
        IN  messages[m].supersededBy # 0 /\ (t \in overrun \/ turns[t].status = "complete")

SummaryTellsOfCompletion(c) ==
    summary[c] # None => summary[c] \in overrun \/ turns[summary[c]].status = "complete"

IsOver(t) == t \in overrun \/ turns[t].status \in Settled

(* An answer that may be replaced: its own turn is over.                   *)
IsSettledAnswer(m) ==
    Message(m).role # "absent" => Message(m).role = "assistant" /\ IsOver(Message(m).turn)

ReplaysSettled(t) ==
    TurnExists(t) /\ turns[t].target # 0 => IsSettledAnswer(turns[t].target)

AsksForSettled(s) ==
    stage[s] = "insert" /\ call[s].target # 0 => IsSettledAnswer(call[s].target)

(* What a call has read of a turn and of its answer, as far as the turn    *)
(* can have moved since: on, but not out of an outcome.                    *)
StillSo(read, now) ==
    /\ read = "streaming" => now # "pending"
    /\ read \in Settled => now = read

ReadsStand(s) ==
    LET t == call[s].turn
    IN  /\ stage[s] \in {"assistant", "commit"}
        /\ Message(loaded[s].turn.assistant).role # "absent"
        /\ t \notin overrun
        => /\ StillSo(loaded[s].turn.status, turns[t].status)
           /\ stage[s] = "commit" =>
                 /\ loaded[s].message.status = "streaming" => turns[t].status # "pending"
                 /\ loaded[s].message.status \in Settled => turns[t].status \in Settled

(* What the refinement of TurnLifecycle needs besides: a turn that is not  *)
(* there has no answer, and a call that writes a text has one.             *)
NothingOfAbsent(t) == ~TurnExists(t) => turns[t] = AbsentTurn

WritesText(s) == call[s].op \in {"update", "finish"} => call[s].content \in Texts

CallAgrees(s) == AsksForSettled(s) /\ WritesText(s) /\ ReadsStand(s)

AgreementInv ==
    /\ \A t \in Turns : AnswerAgrees(t) /\ ReplaysSettled(t) /\ NothingOfAbsent(t)
    /\ \A m \in MessageIds : HiddenByCompletion(m)
    /\ \A c \in Scopes : SummaryTellsOfCompletion(c)
    /\ \A s \in Sessions : CallAgrees(s)

(* What a commit does to the turn t of its call and its answer a: the      *)
(* status st of the turn, status ms and text x of the answer, and the      *)
(* answer that a completing replay hides.                                  *)
CommitsAs(s, st, ms, x) ==
    LET t        == call[s].turn
        a        == turns[t].assistant
        target   == turns[t].target
        answered == [messages EXCEPT ![a].status = ms, ![a].content = x]
    IN  /\ turns' = [turns EXCEPT ![t].status = st]
        /\ \/ messages' = answered
           \/ /\ st = "complete" /\ target # 0 /\ Message(target).role # "absent"
              /\ messages' = Superseded(answered, target, a)
        /\ \/ summary' = summary
           \/ st = "complete" /\ summary' = [summary EXCEPT ![call[s].scope] = t]

(* What it may leave of the turn and of its text, by what it had seen.     *)
MayBecome(s, st, x) ==
    LET saw  == loaded[s].turn.status
        now  == turns[call[s].turn].status
        text == messages[turns[call[s].turn].assistant].content
    IN  \/ saw \in Active /\ st \in {"streaming", now} /\ x \in Texts \cup {text}
        \/ saw \in Active /\ st = "stopped" /\ x = text
        \/ saw \in Active /\ st \in Settled /\ x \in Texts \cup {text}
        \/ saw = "stopped" /\ st = now /\ x \in Texts \cup {text}

(* Unless it overruns the turn, it keeps an outcome, and the answer tells  *)
(* the status of the turn.                                                 *)
KeepsStep(s, st, ms) ==
    call[s].turn \notin overrun' =>
        /\ StillSo(turns[call[s].turn].status, st)
        /\ ms \in {st, "superseded"}

LEMMA CommitEffect ==
    ASSUME TypeOK, RowsInv, AgreementInv,
           NEW s \in Sessions, UpdateCommit(s) \/ CancelCommit(s) \/ FinishCommit(s)
    PROVE  /\ call[s].turn \in Turns /\ TurnExists(call[s].turn)
           /\ loaded[s].turn.assistant = turns[call[s].turn].assistant
           /\ turns[call[s].turn].assistant \in MessageIds
           /\ messages[turns[call[s].turn].assistant].role = "assistant"
           /\ messages[turns[call[s].turn].assistant].turn = call[s].turn
           /\ overrun \subseteq overrun' /\ overrun' \subseteq overrun \cup {call[s].turn}
           /\ \E st \in TurnStatus, x \in Contents :
                 \E ms \in TurnStatus \cup {messages[turns[call[s].turn].assistant].status} :
                    CommitsAs(s, st, ms, x) /\ MayBecome(s, st, x) /\ KeepsStep(s, st, ms)
  <1>1. /\ CanCommit(s) /\ stage[s] = "commit" /\ LoadedTurnStands(s)
        /\ SessionOK(s) /\ messages \in [MessageIds -> MessageRow]
        /\ turns \in [Turns -> TurnRow] /\ WritesText(s) /\ ReadsStand(s)
    BY DEF UpdateCommit, CancelCommit, FinishCommit, RowsInv, TypeOK, AgreementInv, CallAgrees
  <1>2. PICK t \in Turns : t = call[s].turn
    BY <1>1 DEF SessionOK
  <1>3. PICK a \in MessageIds : a = loaded[s].turn.assistant
    BY <1>1, CommitTarget
  <1>. DEFINE saw  == loaded[s].turn.status
              now  == turns[t].status
              text == messages[a].content
              said == messages[a].status
              read == loaded[s].message
  <1>4. /\ messages[a].role = "assistant" /\ messages[a].turn = t
        /\ turns[t].target = loaded[s].turn.target
    BY <1>1, <1>2, <1>3 DEF CanCommit, LoadedTurnStands, Message
  <1>5. turns[t].assistant = a /\ TurnExists(t)
    <2>1. MessageHasTurn(a)
      BY DEF RowsInv, OneExchangePerTurn
    <2>. QED  BY <1>4, <2>1 DEF MessageHasTurn
  <1>6. /\ text \in Contents /\ call[s].content \in Contents
        /\ now \in TurnStatus
    BY <1>1, <1>5 DEF MessageRow, TypeOK, Call, TurnRow, TurnExists
  <1>7. /\ t \notin overrun => said \in {now, "superseded"}
        /\ t \notin overrun => StillSo(saw, now)
        /\ t \notin overrun /\ read.status = "streaming" => now # "pending"
        /\ t \notin overrun /\ read.status \in Settled => now \in Settled
    <2>1. AnswerAgrees(t)
      BY DEF AgreementInv
    <2>. QED  BY <1>1, <1>2, <1>3, <1>4, <1>5, <2>1 DEF ReadsStand, AnswerAgrees, Message
  <1>8. /\ WriteTurn(s, FinalStatus(s)) \/ WriteTurn(s, "streaming") \/ WriteTurn(s, "stopped")
           => /\ overrun \subseteq overrun' /\ overrun' \subseteq overrun \cup {t}
              /\ t \notin overrun' => t \notin overrun /\ (saw \in Active => now \in Active)
    BY <1>2, <1>6 DEF WriteTurn, Overruns, TurnStatus
  <1>9. ASSUME NEW st, NEW x
        PROVE  /\ WriteTurn(s, st) => turns' = [turns EXCEPT ![t].status = Written(saw, st, now)]
               /\ [messages EXCEPT ![a] = WrittenMessage(s, st, x)]
                     = [messages EXCEPT ![a].status = Written(read.status, st, said),
                                        ![a].content = Written(read.content, x, text)]
    <2>1. messages[a] \in MessageRow
      BY <1>1
    <2>2. WrittenMessage(s, st, x) = [messages[a] EXCEPT
              !.status = Written(read.status, st, said),
              !.content = Written(read.content, x, text)]
      BY <1>3, <2>1 DEF WrittenMessage
    <2>. QED  BY <1>1, <1>2, <2>2 DEF WriteTurn
  <1>10. \A w, x, y : Written(w, x, y) \in {x, y}
    BY DEF Written
  <1>11. CASE UpdateCommit(s)
    <2>. DEFINE st == Written(saw, "streaming", now)
                ms == Written(read.status, "streaming", said)
                x  == Written(read.content, call[s].content, text)
    <2>1. /\ saw \in Active /\ call[s].content \in Texts
          /\ "streaming" \in TurnStatus /\ WriteTurn(s, "streaming")
      BY <1>1, <1>11 DEF UpdateCommit, SessionOK, StepFits, WritesText, TurnStatus, Active
    <2>2. CommitsAs(s, st, ms, x)
      <3>1. turns' = [turns EXCEPT ![t].status = st]
        BY <1>9, <2>1
      <3>2. messages' = [messages EXCEPT ![a].status = ms, ![a].content = x]
        <4>1. [messages EXCEPT ![a] = WrittenMessage(s, "streaming", call[s].content)]
                 = [messages EXCEPT ![a].status = ms, ![a].content = x]
          BY <1>9
        <4>. QED  BY <1>3, <1>11, <4>1 DEF UpdateCommit
      <3>. QED  BY <1>2, <1>5, <1>11, <3>1, <3>2 DEF CommitsAs, UpdateCommit
    <2>3. MayBecome(s, st, x)
      BY <1>2, <1>5, <1>10, <2>1 DEF MayBecome
    <2>4. KeepsStep(s, st, ms)
      BY <1>2, <1>7, <1>8, <2>1 DEF KeepsStep, StillSo, Written, Active, Settled
    <2>5. /\ st \in TurnStatus /\ x \in Contents /\ ms \in TurnStatus \cup {said}
          /\ overrun \subseteq overrun' /\ overrun' \subseteq overrun \cup {t}
      BY <1>6, <1>8, <1>10, <2>1
    <2>. HIDE DEF st, ms, x
    <2>. QED  BY <1>2, <1>3, <1>4, <1>5, <2>2, <2>3, <2>4, <2>5
  <1>12. CASE CancelCommit(s)
    <2>. DEFINE ms == Written(read.status, "stopped", said)
    <2>1. saw \in Active /\ "stopped" \in TurnStatus /\ WriteTurn(s, "stopped")
      BY <1>1, <1>12 DEF CancelCommit, SessionOK, StepFits, TurnStatus, Settled
    <2>2. Written(saw, "stopped", now) = "stopped"
      BY <2>1 DEF Written, Active
    <2>3. CommitsAs(s, "stopped", ms, text)
      <3>1. turns' = [turns EXCEPT ![t].status = "stopped"]
        BY <1>9, <2>1, <2>2
      <3>2. messages' = [messages EXCEPT ![a].status = ms, ![a].content = text]
        <4>1. [messages EXCEPT ![a] = WrittenMessage(s, "stopped", loaded[s].message.content)]
                 = [messages EXCEPT ![a].status = ms,
                                    ![a].content = Written(read.content, loaded[s].message.content, text)]
          BY <1>9
        <4>2. Written(read.content, loaded[s].message.content, text) = text
          BY DEF Written
        <4>. QED  BY <1>3, <1>12, <4>1, <4>2 DEF CancelCommit
      <3>. QED  BY <1>2, <1>5, <1>12, <3>1, <3>2 DEF CommitsAs, CancelCommit
    <2>4. MayBecome(s, "stopped", text)
      BY <1>2, <1>5, <2>1 DEF MayBecome
    <2>5. KeepsStep(s, "stopped", ms)
      BY <1>2, <1>7, <1>8, <2>1 DEF KeepsStep, StillSo, Written, Active, Settled
    <2>6. /\ ms \in TurnStatus \cup {said}
          /\ overrun \subseteq overrun' /\ overrun' \subseteq overrun \cup {t}
      BY <1>8, <1>10, <2>1
    <2>. HIDE DEF ms
    <2>. QED  BY <1>2, <1>3, <1>4, <1>5, <1>6, <2>1, <2>3, <2>4, <2>5, <2>6
  <1>13. CASE FinishCommit(s)
    <2>. DEFINE st == Written(saw, FinalStatus(s), now)
                ms == Written(read.status, FinalStatus(s), said)
                x  == Written(read.content, FinalContent(s), text)
    <2>1. /\ saw \in Active \cup {"stopped"} /\ call[s].content \in Texts
          /\ call[s].status \in Settled /\ WriteTurn(s, FinalStatus(s))
      BY <1>1, <1>13 DEF FinishCommit, SessionOK, StepFits, WritesText
    <2>2. /\ FinalStatus(s) \in TurnStatus /\ FinalStatus(s) \in Settled
          /\ saw \in Active => st = FinalStatus(s)
          /\ saw = "stopped" => FinalStatus(s) = "stopped" /\ st = now
      BY <2>1 DEF FinalStatus, TurnStatus, Settled, Active, Written
    <2>3. x \in Texts \cup {text}
      BY <2>1 DEF FinalContent, Written
    <2>4. MayBecome(s, st, x)
      BY <1>2, <1>5, <2>1, <2>2, <2>3 DEF MayBecome
    <2>5. KeepsStep(s, st, ms)
      BY <1>2, <1>7, <1>8, <2>1, <2>2 DEF KeepsStep, StillSo, Written, Active, Settled
    <2>6. FinalStatus(s) = "complete" => st = "complete"
      BY <2>1, <2>2
    <2>7. CommitsAs(s, st, ms, x)
      <3>1. turns' = [turns EXCEPT ![t].status = st]
        BY <1>9, <2>1
      <3>2. [messages EXCEPT ![a] = WrittenMessage(s, FinalStatus(s), FinalContent(s))]
               = [messages EXCEPT ![a].status = ms, ![a].content = x]
        BY <1>9
      <3>3. \/ messages' = [messages EXCEPT ![a].status = ms, ![a].content = x]
            \/ /\ st = "complete" /\ turns[t].target # 0
               /\ Message(turns[t].target).role # "absent"
               /\ messages' = Superseded([messages EXCEPT ![a].status = ms, ![a].content = x],
                                         turns[t].target, a)
        BY <1>3, <1>4, <1>13, <2>6, <3>2 DEF FinishCommit, Supersedes
      <3>4. summary' = summary
               \/ (st = "complete" /\ summary' = [summary EXCEPT ![call[s].scope] = t])
        BY <1>2, <1>13, <2>6 DEF FinishCommit
      <3>. QED  BY <1>2, <1>5, <3>1, <3>3, <3>4 DEF CommitsAs
    <2>8. x \in Contents /\ st \in TurnStatus /\ ms \in TurnStatus \cup {said}
      BY <1>6, <1>10, <2>2, <2>3 DEF Contents
    <2>9. overrun \subseteq overrun' /\ overrun' \subseteq overrun \cup {t}
      BY <1>8, <2>1
    <2>. HIDE DEF st, ms, x
    <2>. QED  BY <1>2, <1>3, <1>4, <1>5, <2>4, <2>5, <2>7, <2>8, <2>9
  <1>. QED  BY <1>11, <1>12, <1>13

(* The same, one row at a time.                                            *)
LEMMA CommitRowByRow ==
    ASSUME TypeOK, RowsInv, NEW s \in Sessions, NEW t \in Turns, t = call[s].turn,
           TurnExists(t), NEW a \in MessageIds, a = turns[t].assistant,
           NEW st \in TurnStatus, NEW ms \in TurnStatus \cup {messages[a].status}, NEW x,
           CommitsAs(s, st, ms, x)
    PROVE  /\ turns'[t].status = st
           /\ \A y \in Turns \ {t} : turns'[y] = turns[y]
           /\ messages'[a].status = ms
           /\ messages'[a].content = x
           /\ messages'[a].supersededBy = messages[a].supersededBy
           /\ \A m \in MessageIds \ {a} :
                 /\ messages'[m].content = messages[m].content
                 /\ \/ /\ messages'[m].status = messages[m].status
                       /\ messages'[m].supersededBy = messages[m].supersededBy
                    \/ /\ st = "complete"
                       /\ messages'[m].status = "superseded"
                       /\ messages'[m].supersededBy = a
           /\ \A c \in Scopes : \/ summary'[c] = summary[c]
                                \/ st = "complete" /\ summary'[c] = t
  <1>1. /\ turns \in [Turns -> TurnRow] /\ messages \in [MessageIds -> MessageRow]
        /\ summary \in [Scopes -> Turns \cup {None}]
    BY DEF TypeOK
  <1>2. turns[t].target < a /\ turns[t].target \in Nat /\ a \in Nat
    BY <1>1, MaxMessagesAssumption
       DEF RowsInv, OneExchangePerTurn, TurnHasExchange, TurnRow, MessageIds
  <1>. DEFINE target   == turns[t].target
              answered == [messages EXCEPT ![a].status = ms, ![a].content = x]
  <1>3. /\ answered[a].status = ms /\ answered[a].content = x
        /\ answered[a].supersededBy = messages[a].supersededBy
        /\ \A m \in MessageIds \ {a} : answered[m] = messages[m]
        /\ DOMAIN answered = MessageIds
    <2>1. messages[a] \in MessageRow /\ answered[a] = [messages[a] EXCEPT !.status = ms, !.content = x]
      BY <1>1
    <2>2. /\ answered[a].status = ms /\ answered[a].content = x
          /\ answered[a].supersededBy = messages[a].supersededBy
      <3>. HIDE DEF answered
      <3>. QED  BY <2>1 DEF MessageRow
    <2>. QED  BY <1>1, <2>2
  <1>4. target # a
    BY <1>2
  <1>5. turns'[t].status = st /\ \A y \in Turns \ {t} : turns'[y] = turns[y]
    BY <1>1 DEF CommitsAs, TurnRow
  <1>6. \A c \in Scopes : summary'[c] = summary[c] \/ (st = "complete" /\ summary'[c] = t)
    BY <1>1 DEF CommitsAs
  <1>7. CASE messages' = answered
    BY <1>3, <1>5, <1>6, <1>7
  <1>8. CASE st = "complete" /\ messages' = Superseded(answered, target, a)
    <2>1. messages'[a] = answered[a]
      BY <1>3, <1>4, <1>8 DEF Superseded
    <2>2. ASSUME NEW m \in MessageIds \ {a}
          PROVE  /\ messages'[m].content = messages[m].content
                 /\ \/ messages'[m] = messages[m]
                    \/ /\ messages'[m].status = "superseded"
                       /\ messages'[m].supersededBy = a
      <3>1. CASE m # target
        BY <1>3, <1>8, <3>1 DEF Superseded
      <3>2. CASE m = target
        <4>1. messages'[m] = [messages[m] EXCEPT !.status = "superseded", !.supersededBy = a]
          BY <1>3, <1>8, <3>2 DEF Superseded
        <4>. QED  BY <1>1, <4>1 DEF MessageRow
      <3>. QED  BY <3>1, <3>2
    <2>3. /\ messages'[a].status = ms /\ messages'[a].content = x
          /\ messages'[a].supersededBy = messages[a].supersededBy
      BY <1>3, <2>1
    <2>. HIDE DEF answered
    <2>. QED  BY <1>5, <1>6, <1>8, <2>2, <2>3
  <1>. QED  BY <1>7, <1>8 DEF CommitsAs

(* A message that is there belongs to a turn that is, and an answer is the *)
(* answer of its turn.                                                     *)
LEMMA MessagesHaveTurns ==
    ASSUME TypeOK, RowsInv, NEW m, Message(m).role # "absent"
    PROVE  /\ m \in MessageIds /\ Message(m) = messages[m] /\ m < nextMessage
           /\ Message(m).turn \in Turns /\ TurnExists(Message(m).turn)
           /\ Message(m).role = "assistant" => turns[Message(m).turn].assistant = m
           /\ turns[Message(m).turn].scope = Message(m).scope
  <1>1. m \in MessageIds /\ Message(m) = messages[m] /\ m < nextMessage
    BY PresentIsAllocated DEF Message
  <1>2. /\ MessageHasTurn(m) /\ messages[m].role \in {"user", "assistant"}
        /\ Message(m).turn \in Turns
    BY <1>1 DEF RowsInv, OneExchangePerTurn, MessageHasTurn, TypeOK, MessageRow
  <1>3. TurnHasExchange(Message(m).turn)
    BY <1>2 DEF RowsInv, OneExchangePerTurn
  <1>. QED  BY <1>1, <1>2, <1>3 DEF MessageHasTurn, TurnHasExchange

(* The answer that hides another one belongs to a turn that is there.      *)
LEMMA SupersederHasTurn ==
    ASSUME TypeOK, RowsInv, NEW m \in MessageIds, messages[m].supersededBy # 0
    PROVE  LET k == messages[m].supersededBy
           IN  /\ k \in MessageIds /\ Message(k) = messages[k] /\ k < nextMessage
               /\ Message(k).role # "absent"
               /\ Message(k).scope = messages[m].scope
               /\ Message(k).turn \in Turns /\ TurnExists(Message(k).turn)
               /\ turns[Message(k).turn].scope = messages[m].scope
  <1>1. PICK k : k = messages[m].supersededBy
    OBVIOUS
  <1>2. Message(k).role # "absent" /\ Message(k).scope = messages[m].scope
    BY <1>1 DEF RowsInv, SupersededByItsReplay, SupersederShares
  <1>. QED  BY <1>1, <1>2, MessagesHaveTurns

(* While the answer that a call read is there, so is its turn.             *)
LEMMA ReadTurnStands ==
    ASSUME TypeOK, RowsInv, NEW z \in Sessions, stage[z] \in {"assistant", "commit"},
           NEW b, b = loaded[z].turn.assistant, Message(b).role # "absent"
    PROVE  /\ call[z].turn \in Turns /\ TurnExists(call[z].turn)
           /\ turns[call[z].turn].assistant = b
           /\ b \in MessageIds /\ b < nextMessage
           /\ turns[call[z].turn].scope = Message(b).scope
           /\ turns[call[z].turn].status \in TurnStatus
  <1>1. Message(b).role = "assistant" /\ Message(b).turn = call[z].turn
    BY DEF RowsInv, LoadedTurnStands
  <1>. QED  BY <1>1, MessagesHaveTurns DEF TypeOK, TurnRow, TurnExists

LEMMA StillSoChains ==
    ASSUME NEW read, NEW now \in TurnStatus, NEW next, StillSo(read, now), StillSo(now, next)
    PROVE  /\ StillSo(read, next)
           /\ now # "pending" => next # "pending"
           /\ now \in Settled => next \in Settled
  BY DEF StillSo, TurnStatus, Active, Settled

LEMMA CommitAgreement ==
    ASSUME TypeOK, RowsInv, AgreementInv,
           NEW s \in Sessions, UpdateCommit(s) \/ CancelCommit(s) \/ FinishCommit(s)
    PROVE  AgreementInv'
  <1>1. PICK t \in Turns : t = call[s].turn /\ TurnExists(t)
    BY CommitEffect
  <1>2. PICK a \in MessageIds : /\ a = turns[t].assistant
                                /\ messages[a].role = "assistant" /\ messages[a].turn = t
    BY <1>1, CommitEffect
  <1>3. PICK st \in TurnStatus, x \in Contents, ms \in TurnStatus \cup {messages[a].status} :
           CommitsAs(s, st, ms, x) /\ KeepsStep(s, st, ms)
    BY <1>1, <1>2, CommitEffect
  <1>4. /\ turns'[t].status = st
        /\ \A y \in Turns \ {t} : turns'[y] = turns[y]
        /\ messages'[a].status = ms
        /\ messages'[a].supersededBy = messages[a].supersededBy
        /\ \A m \in MessageIds \ {a} :
              /\ messages'[m].content = messages[m].content
              /\ \/ /\ messages'[m].status = messages[m].status
                    /\ messages'[m].supersededBy = messages[m].supersededBy
                 \/ /\ st = "complete"
                    /\ messages'[m].status = "superseded"
                    /\ messages'[m].supersededBy = a
        /\ \A c \in Scopes : \/ summary'[c] = summary[c]
                             \/ st = "complete" /\ summary'[c] = t
    BY <1>1, <1>2, <1>3, CommitRowByRow
  <1>5. overrun \subseteq overrun' /\ overrun' \subseteq overrun \cup {t}
    BY <1>1, CommitEffect
  <1>6. /\ \A y \in Turns : /\ turns'[y].target = turns[y].target
                            /\ turns'[y].assistant = turns[y].assistant
                            /\ TurnExists(y)' <=> TurnExists(y)
        /\ \A m : /\ Message(m)'.role = Message(m).role
                  /\ Message(m)'.turn = Message(m).turn
    BY CommitKeepsIdentity DEF Message
  <1>7. ASSUME NEW y \in Turns, y \notin overrun'
        PROVE  StillSo(turns[y].status, turns'[y].status)
    <2>1. CASE y = t
      BY <1>1, <1>3, <1>4, <1>7, <2>1 DEF KeepsStep
    <2>2. CASE y # t
      BY <1>4, <2>2 DEF StillSo, Settled
    <2>. QED  BY <2>1, <2>2
  <1>8. ASSUME NEW y \in Turns
        PROVE  /\ IsOver(y) => IsOver(y)'
               /\ y \in overrun \/ turns[y].status = "complete"
                     => y \in overrun' \/ turns'[y].status = "complete"
    BY <1>5, <1>7 DEF IsOver, StillSo, Settled
  <1>9. ASSUME NEW y \in Turns PROVE AnswerAgrees(y)'
    <2>1. SUFFICES ASSUME TurnExists(y), y \notin overrun'
                   PROVE  Message(turns[y].assistant)'.status \in {turns'[y].status, "superseded"}
      BY <1>6 DEF AnswerAgrees
    <2>2. PICK b \in MessageIds : /\ b = turns[y].assistant /\ messages[b].turn = y
                                  /\ messages[b].status \in {turns[y].status, "superseded"}
      BY <1>5, <2>1 DEF RowsInv, OneExchangePerTurn, TurnHasExchange, Message, AbsentMessage,
                        AgreementInv, AnswerAgrees
    <2>3. Message(turns[y].assistant)' = messages'[b]
      BY <1>6, <2>2 DEF Message
    <2>4. CASE y = t
      <3>1. ms \in {st, "superseded"}
        BY <1>1, <1>3, <2>1, <2>4 DEF KeepsStep
      <3>. QED  BY <1>2, <1>4, <2>2, <2>3, <2>4, <3>1
    <2>5. CASE y # t
      BY <1>2, <1>4, <2>2, <2>3, <2>5
    <2>. QED  BY <2>4, <2>5
  <1>10. ASSUME NEW g, IsSettledAnswer(g) PROVE IsSettledAnswer(g)'
    <2>1. SUFFICES ASSUME Message(g).role # "absent"
                   PROVE  /\ Message(g).role = "assistant"
                          /\ \/ Message(g).turn \in overrun'
                             \/ turns'[Message(g).turn].status \in Settled
      BY <1>6 DEF IsSettledAnswer, IsOver
    <2>2. PICK y \in Turns : y = Message(g).turn
      BY <2>1, MessagesHaveTurns
    <2>. QED  BY <1>8, <1>10, <2>1, <2>2 DEF IsSettledAnswer, IsOver
  <1>11. ASSUME NEW y \in Turns PROVE (ReplaysSettled(y) /\ NothingOfAbsent(y))'
    <2>1. ReplaysSettled(y) /\ NothingOfAbsent(y)
      BY DEF AgreementInv
    <2>2. ReplaysSettled(y)'
      <3>1. PICK g : g = turns[y].target
        OBVIOUS
      <3>2. IsSettledAnswer(g) => IsSettledAnswer(g)'
        BY <1>10
      <3>. QED  BY <1>6, <2>1, <3>1, <3>2 DEF ReplaysSettled, IsSettledAnswer, IsOver, Message
    <2>3. NothingOfAbsent(y)'
      BY <1>1, <1>4, <1>6, <2>1 DEF NothingOfAbsent
    <2>. QED  BY <2>2, <2>3
  <1>12. ASSUME NEW m \in MessageIds PROVE HiddenByCompletion(m)'
    <2>1. SUFFICES ASSUME messages'[m].status = "superseded",
                          NEW k, k = messages'[m].supersededBy, NEW y, y = Message(k)'.turn
                   PROVE  k # 0 /\ (y \in overrun' \/ turns'[y].status = "complete")
      BY DEF HiddenByCompletion
    <2>2. CASE messages'[m].status = messages[m].status /\ k = messages[m].supersededBy
      <3>1. HiddenByCompletion(m) /\ Message(k)'.turn = Message(k).turn
        BY <1>6 DEF AgreementInv
      <3>2. k # 0 /\ (y \in overrun \/ turns[y].status = "complete")
        BY <2>1, <2>2, <3>1 DEF HiddenByCompletion
      <3>3. y \in Turns
        BY <2>1, <2>2, <3>1, <3>2, SupersederHasTurn
      <3>. QED  BY <1>8, <3>2, <3>3
    <2>3. CASE st = "complete" /\ k = a
      <3>1. Message(a) = messages[a] /\ a # 0
        BY MaxMessagesAssumption DEF Message, MessageIds
      <3>2. y = t
        BY <1>2, <1>6, <2>1, <2>3, <3>1
      <3>. QED  BY <1>4, <2>3, <3>1, <3>2
    <2>4. m = a => messages'[m].status = messages[m].status
      BY <1>3, <1>4, <2>1 DEF TurnStatus, Active, Settled
    <2>. QED  BY <1>4, <2>1, <2>2, <2>3, <2>4
  <1>13. ASSUME NEW c \in Scopes PROVE SummaryTellsOfCompletion(c)'
    <2>1. SUFFICES ASSUME summary'[c] # None, NEW y, y = summary'[c]
                   PROVE  y \in overrun' \/ turns'[y].status = "complete"
      BY DEF SummaryTellsOfCompletion
    <2>2. CASE summary'[c] = summary[c]
      <3>1. y \in Turns /\ (y \in overrun \/ turns[y].status = "complete")
        BY <2>1, <2>2 DEF AgreementInv, SummaryTellsOfCompletion, TypeOK
      <3>. QED  BY <1>8, <3>1
    <2>. QED  BY <1>4, <2>1, <2>2
  <1>14. ASSUME NEW z \in Sessions PROVE CallAgrees(z)'
    <2>1. CASE z = s
      <3>1. stage'[s] = "idle" /\ call'[s] = NoCall
        BY DEF UpdateCommit, CancelCommit, FinishCommit, Return, TypeOK
      <3>. QED  BY <2>1, <3>1 DEF CallAgrees, AsksForSettled, WritesText, ReadsStand, NoCall
    <2>2. CASE z # s
      <3>1. /\ call'[z] = call[z] /\ stage'[z] = stage[z] /\ loaded'[z] = loaded[z]
            /\ AsksForSettled(z) /\ WritesText(z) /\ ReadsStand(z)
        BY <2>2, CommitKeepsIdentity DEF AgreementInv, CallAgrees
      <3>2. PICK g : g = call[z].target
        OBVIOUS
      <3>3. IsSettledAnswer(g) => IsSettledAnswer(g)'
        BY <1>10
      <3>4. ReadsStand(z)'
        <4>. DEFINE y == call[z].turn
                    b == loaded[z].turn.assistant
        <4>1. SUFFICES ASSUME stage[z] \in {"assistant", "commit"}, Message(b).role # "absent",
                              y \notin overrun'
                       PROVE  /\ StillSo(loaded[z].turn.status, turns'[y].status)
                              /\ stage[z] = "commit" =>
                                    /\ loaded[z].message.status = "streaming"
                                          => turns'[y].status # "pending"
                                    /\ loaded[z].message.status \in Settled
                                          => turns'[y].status \in Settled
          BY <1>6, <3>1 DEF ReadsStand
        <4>2. y \in Turns /\ turns[y].status \in TurnStatus
          BY <4>1, ReadTurnStands
        <4>3. StillSo(turns[y].status, turns'[y].status)
          BY <1>7, <4>1, <4>2
        <4>4. /\ StillSo(loaded[z].turn.status, turns[y].status)
              /\ stage[z] = "commit" =>
                    /\ loaded[z].message.status = "streaming" => turns[y].status # "pending"
                    /\ loaded[z].message.status \in Settled => turns[y].status \in Settled
          BY <1>5, <3>1, <4>1 DEF ReadsStand
        <4>. QED  BY <4>2, <4>3, <4>4, StillSoChains
      <3>. QED  BY <3>1, <3>2, <3>3, <3>4
                DEF CallAgrees, AsksForSettled, WritesText, IsSettledAnswer, IsOver, Message
    <2>. QED  BY <2>1, <2>2
  <1>. QED  BY <1>9, <1>11, <1>12, <1>13, <1>14 DEF AgreementInv

(* The steps that change no row keep the agreement when what a call goes   *)
(* on to insert or to write is still what it may.                          *)
LEMMA RowsStandAgreement ==
    ASSUME TypeOK, RowsInv, AgreementInv, UNCHANGED <<turns, messages, summary, overrun>>,
           \A z \in Sessions : CallAgrees(z)'
    PROVE  AgreementInv'
  BY DEF AgreementInv, AnswerAgrees, ReplaysSettled, NothingOfAbsent, HiddenByCompletion,
         SummaryTellsOfCompletion, IsSettledAnswer, IsOver, TurnExists, Message

LEMMA OthersStandAgreement ==
    ASSUME TypeOK, RowsInv, AgreementInv, UNCHANGED <<turns, messages, summary, overrun>>,
           NEW s \in Sessions,
           \A z \in Sessions \ {s} :
              call'[z] = call[z] /\ stage'[z] = stage[z] /\ loaded'[z] = loaded[z],
           CallAgrees(s)'
    PROVE  AgreementInv'
  <1>1. ASSUME NEW z \in Sessions PROVE CallAgrees(z)'
    <2>1. CASE z # s
      BY <2>1 DEF AgreementInv, CallAgrees, AsksForSettled, WritesText, ReadsStand,
                  IsSettledAnswer, IsOver, Message
    <2>. QED  BY <2>1
  <1>. QED  BY <1>1, RowsStandAgreement

LEMMA ClientCallAgreement ==
    ASSUME TypeOK, RowsInv, AgreementInv, NEW s \in Sessions, ClientCall(s)
    PROVE  AgreementInv'
  <1>1. PICK c : Open(s, c) /\ (c.op \in {"update", "finish"} => c.content \in Texts)
    <2>1. \A c, t, q : BeginMessage(c, t, q).op = "begin"
      BY DEF BeginMessage, NoCall
    <2>2. \A c, t, m : BeginReplay(c, t, m).op = "begin"
      BY DEF BeginReplay, NoCall
    <2>3. \A c, t : CancelTurn(c, t).op = "cancel"
      BY DEF CancelTurn, NoCall
    <2>4. \A c, t, x : UpdateContent(c, t, x).content = x
      BY DEF UpdateContent, NoCall
    <2>5. \A c, t, x, st : FinishTurn(c, t, x, st).content = x
      BY DEF FinishTurn, NoCall
    <2>. QED  BY <2>1, <2>2, <2>3, <2>4, <2>5 DEF ClientCall
  <1>2. /\ stage'[s] \in {"ensure", "turn"} /\ call'[s] = c
        /\ \A z \in Sessions \ {s} :
              call'[z] = call[z] /\ stage'[z] = stage[z] /\ loaded'[z] = loaded[z]
    BY <1>1 DEF Open, TypeOK
  <1>3. CallAgrees(s)'
    BY <1>1, <1>2 DEF CallAgrees, AsksForSettled, WritesText, ReadsStand
  <1>. QED  BY <1>1, <1>2, <1>3, OthersStandAgreement DEF Open, rows

LEMMA ReadStepAgreement ==
    ASSUME TypeOK, RowsInv, AgreementInv, NEW s \in Sessions,
           \/ Fail(s) \/ EnsureConversation(s) \/ BeginReadTurn(s) \/ BeginReadTarget(s)
           \/ InsertConflict(s) \/ CommitConflict(s)
           \/ ReadTurn(s) \/ UpdateReadAssistant(s)
           \/ CancelReadAssistant(s) \/ FinishReadAssistant(s)
    PROVE  AgreementInv'
  <1>1. UNCHANGED <<turns, messages, summary, overrun>>
    BY DEF Fail, EnsureConversation, BeginReadTurn, BeginReadTarget, InsertConflict,
           CommitConflict, ReadTurn, UpdateReadAssistant, CancelReadAssistant,
           FinishReadAssistant, rows
  <1>2. CASE \E r : Return(s, r)
    <2>1. /\ stage'[s] = "idle" /\ call'[s] = NoCall
          /\ \A z \in Sessions \ {s} :
                call'[z] = call[z] /\ stage'[z] = stage[z] /\ loaded'[z] = loaded[z]
      BY <1>2 DEF Return, TypeOK
    <2>2. CallAgrees(s)'
      BY <2>1 DEF CallAgrees, AsksForSettled, WritesText, ReadsStand, NoCall
    <2>. QED  BY <1>1, <2>1, <2>2, OthersStandAgreement
  <1>3. ASSUME NEW next, NEW read, Proceed(s, next, read),
               next = "insert" /\ call[s].target # 0 => IsSettledAnswer(call[s].target),
               ReadsStand(s)'
        PROVE  AgreementInv'
    <2>1. /\ stage'[s] = next /\ call'[s] = call[s]
          /\ \A z \in Sessions \ {s} :
                call'[z] = call[z] /\ stage'[z] = stage[z] /\ loaded'[z] = loaded[z]
      BY <1>3, OthersOnProceed DEF Proceed, TypeOK
    <2>2. CallAgrees(s)'
      BY <1>1, <1>3, <2>1
         DEF CallAgrees, AsksForSettled, WritesText, AgreementInv, IsSettledAnswer, IsOver, Message
    <2>. QED  BY <1>1, <2>1, <2>2, OthersStandAgreement
  <1>4. ASSUME NEW next, NEW read, Proceed(s, next, read), next \notin {"assistant", "commit"}
        PROVE  ReadsStand(s)'
    BY <1>4 DEF Proceed, ReadsStand, TypeOK
  <1>5. CASE EnsureConversation(s)
    <2>1. Proceed(s, "turn", loaded[s])
      BY <1>5 DEF EnsureConversation
    <2>. QED  BY <1>3, <1>4, <2>1
  <1>6. CASE BeginReadTurn(s)
    <2>1. ASSUME NEW next, next = IF call[s].target = 0 THEN "insert" ELSE "target",
                 Proceed(s, next, loaded[s])
          PROVE  AgreementInv'
      BY <1>3, <1>4, <2>1
    <2>. QED  BY <1>2, <1>6, <2>1 DEF BeginReadTurn
  <1>7. CASE BeginReadTarget(s)
    <2>1. ASSUME Replayable(call[s].scope, call[s].target)
          PROVE  IsSettledAnswer(call[s].target)
      <3>1. PICK m : m = call[s].target
        OBVIOUS
      <3>2. Message(m).role = "assistant" /\ Message(m).status \in Settled
        BY <2>1, <3>1 DEF Replayable
      <3>3. /\ Message(m).turn \in Turns /\ TurnExists(Message(m).turn)
            /\ turns[Message(m).turn].assistant = m
        BY <3>2, MessagesHaveTurns
      <3>4. \/ Message(m).turn \in overrun
            \/ Message(m).status \in {turns[Message(m).turn].status, "superseded"}
        BY <3>3 DEF AgreementInv, AnswerAgrees
      <3>. QED  BY <3>1, <3>2, <3>4 DEF IsSettledAnswer, IsOver, Settled
    <2>2. ASSUME NEW read, Proceed(s, "insert", read) PROVE ReadsStand(s)'
      BY <1>4, <2>2
    <2>. QED  BY <1>2, <1>3, <1>7, <2>1, <2>2 DEF BeginReadTarget
  <1>8. CASE ReadTurn(s)
    <2>1. ASSUME Proceed(s, "assistant", [loaded[s] EXCEPT !.turn = turns[call[s].turn]])
          PROVE  AgreementInv'
      <3>1. loaded'[s].turn = turns[call[s].turn] /\ stage'[s] = "assistant"
            /\ call'[s] = call[s]
        BY <2>1 DEF Proceed, TypeOK, LoadedRows
      <3>2. ReadsStand(s)'
        BY <1>1, <3>1 DEF ReadsStand, StillSo, Settled
      <3>. QED  BY <1>3, <2>1, <3>2
    <2>. QED  BY <1>2, <1>8, <2>1 DEF ReadTurn
  <1>9. CASE UpdateReadAssistant(s) \/ CancelReadAssistant(s) \/ FinishReadAssistant(s)
    <2>. DEFINE b == loaded[s].turn.assistant
                t == call[s].turn
    <2>1. ASSUME Proceed(s, "commit", [loaded[s] EXCEPT !.message = Message(b)]),
                 stage[s] = "assistant"
          PROVE  AgreementInv'
      <3>1. /\ loaded'[s].turn = loaded[s].turn /\ loaded'[s].message = Message(b)
            /\ stage'[s] = "commit" /\ call'[s] = call[s]
        BY <2>1 DEF Proceed, TypeOK, LoadedRows
      <3>2. SUFFICES ASSUME Message(b).role # "absent", t \notin overrun
                     PROVE  /\ StillSo(loaded[s].turn.status, turns[t].status)
                            /\ Message(b).status = "streaming" => turns[t].status # "pending"
                            /\ Message(b).status \in Settled => turns[t].status \in Settled
        <4>1. ReadsStand(s)'
          BY <1>1, <3>1, <3>2 DEF ReadsStand, Message
        <4>. QED  BY <1>3, <2>1, <4>1
      <3>3. /\ t \in Turns /\ TurnExists(t) /\ turns[t].assistant = b
        BY <2>1, <3>2, ReadTurnStands
      <3>4. Message(b).status \in {turns[t].status, "superseded"}
        BY <3>2, <3>3 DEF AgreementInv, AnswerAgrees
      <3>5. StillSo(loaded[s].turn.status, turns[t].status)
        BY <2>1, <3>2 DEF AgreementInv, CallAgrees, ReadsStand
      <3>. QED  BY <3>4, <3>5 DEF Settled
    <2>. QED  BY <1>2, <1>9, <2>1
              DEF UpdateReadAssistant, CancelReadAssistant, FinishReadAssistant
  <1>. QED  BY <1>2, <1>5, <1>6, <1>7, <1>8, <1>9 DEF Fail, InsertConflict, CommitConflict

(* The answer a replay asks for was allocated before the replay inserts.   *)
LEMMA InsertReplayTarget ==
    ASSUME RowsInv, NEW s \in Sessions, stage[s] = "insert", call[s].target # 0
    PROVE  call[s].target < nextMessage
  BY DEF RowsInv, LoadedQuestionStands

(* What begin_turn inserts, whichever of its two ways it goes.             *)
LEMMA InsertEffect ==
    ASSUME TypeOK, RowsInv, NEW s \in Sessions,
           InsertMessageTurn(s) \/ InsertReplayTurn(s)
    PROVE  /\ call[s].turn \in Turns /\ ~TurnExists(call[s].turn) /\ stage[s] = "insert"
           /\ summary' = summary /\ overrun' = overrun
           /\ turns'[call[s].turn].status = "pending"
           /\ turns'[call[s].turn].target = call[s].target
           /\ turns'[call[s].turn].assistant \in MessageIds
           /\ turns'[call[s].turn].assistant >= nextMessage
           /\ messages'[turns'[call[s].turn].assistant].status = "pending"
           /\ messages'[turns'[call[s].turn].assistant].content = None
           /\ \A t \in Turns \ {call[s].turn} : turns'[t] = turns[t]
           /\ \A m : m < nextMessage => Message(m)' = Message(m)
           /\ \A m \in MessageIds : m >= nextMessage => messages'[m].status # "superseded"
           /\ stage'[s] = "idle" /\ call'[s] = NoCall
           /\ \A z \in Sessions \ {s} :
                 call'[z] = call[z] /\ stage'[z] = stage[z] /\ loaded'[z] = loaded[z]
  <1>. DEFINE c == call[s]
  <1>1. /\ c.turn \in Turns /\ ~TurnExists(c.turn) /\ stage[s] = "insert"
        /\ summary' = summary /\ overrun' = overrun
        /\ turns \in [Turns -> TurnRow] /\ messages \in [MessageIds -> MessageRow]
        /\ nextMessage \in Nat /\ MessageIds \subseteq Nat
        /\ \A m \in MessageIds : m >= nextMessage => messages[m].status # "superseded"
    BY MaxMessagesAssumption
       DEF InsertMessageTurn, InsertReplayTurn, CanInsert, TypeOK, SessionOK, MessageIds,
           RowsInv, NotYetAllocated, AbsentMessage
  <1>2. /\ stage'[s] = "idle" /\ call'[s] = NoCall
        /\ \A z \in Sessions \ {s} :
              call'[z] = call[z] /\ stage'[z] = stage[z] /\ loaded'[z] = loaded[z]
    BY DEF InsertMessageTurn, InsertReplayTurn, Return, TypeOK
  <1>3. CASE InsertMessageTurn(s)
    <2>1. PICK n : n = nextMessage /\ n + 1 \in MessageIds /\ n \in MessageIds
      BY <1>1, <1>3, MaxMessagesAssumption DEF InsertMessageTurn, TypeOK, MessageIds
    <2>2. turns'[c.turn] = NewTurn(c, c.query, n, n + 1)
      BY <1>1, <1>3, <2>1 DEF InsertMessageTurn
    <2>3. \A t \in Turns \ {c.turn} : turns'[t] = turns[t]
      BY <1>1, <1>3 DEF InsertMessageTurn
    <2>4. /\ messages'[n] = UserMessage(c) /\ messages'[n + 1] = Placeholder(c)
          /\ \A m \in MessageIds \ {n, n + 1} : messages'[m] = messages[m]
      BY <1>1, <1>3, <2>1 DEF InsertMessageTurn
    <2>5. \A m : m < nextMessage => Message(m)' = Message(m)
      <3>0. n = nextMessage /\ nextMessage \in Nat /\ MessageIds \subseteq Nat
        BY <1>1, <2>1
      <3>1. ASSUME NEW m \in MessageIds, m < nextMessage
            PROVE  messages'[m] = messages[m]
        <4>1. m \in MessageIds \ {n, n + 1}
          BY <3>0, <3>1
        <4>. QED  BY <2>4, <4>1
      <3>. QED  BY <3>1 DEF Message
    <2>6. \A m \in MessageIds : m >= nextMessage => messages'[m].status # "superseded"
      BY <1>1, <2>1, <2>4 DEF UserMessage, Placeholder
    <2>. QED  BY <1>1, <1>2, <2>1, <2>2, <2>3, <2>4, <2>5, <2>6 DEF NewTurn, Placeholder
  <1>4. CASE InsertReplayTurn(s)
    <2>1. PICK n : n = nextMessage /\ n \in MessageIds
      BY <1>4 DEF InsertReplayTurn
    <2>2. turns'[c.turn] = NewTurn(c, loaded[s].message.content, loaded[s].question, n)
      BY <1>1, <1>4, <2>1 DEF InsertReplayTurn
    <2>3. \A t \in Turns \ {c.turn} : turns'[t] = turns[t]
      BY <1>1, <1>4 DEF InsertReplayTurn
    <2>4. /\ messages'[n] = Placeholder(c)
          /\ \A m \in MessageIds \ {n} : messages'[m] = messages[m]
      BY <1>1, <1>4, <2>1 DEF InsertReplayTurn
    <2>5. \A m : m < nextMessage => Message(m)' = Message(m)
      <3>0. n = nextMessage /\ nextMessage \in Nat /\ MessageIds \subseteq Nat
        BY <1>1, <2>1
      <3>1. ASSUME NEW m \in MessageIds, m < nextMessage
            PROVE  messages'[m] = messages[m]
        <4>1. m \in MessageIds \ {n}
          BY <3>0, <3>1
        <4>. QED  BY <2>4, <4>1
      <3>. QED  BY <3>1 DEF Message
    <2>6. \A m \in MessageIds : m >= nextMessage => messages'[m].status # "superseded"
      BY <1>1, <2>1, <2>4 DEF Placeholder
    <2>. QED  BY <1>1, <1>2, <2>1, <2>2, <2>3, <2>4, <2>5, <2>6 DEF NewTurn, Placeholder
  <1>. QED  BY <1>3, <1>4

LEMMA InsertAgreement ==
    ASSUME TypeOK, RowsInv, AgreementInv, NEW s \in Sessions,
           InsertMessageTurn(s) \/ InsertReplayTurn(s)
    PROVE  AgreementInv'
  <1>1. PICK new \in Turns : new = call[s].turn
    BY InsertEffect
  <1>2. PICK a \in MessageIds : a = turns'[new].assistant
    BY <1>1, InsertEffect
  <1>3. /\ ~TurnExists(new)
        /\ turns'[new].status = "pending" /\ messages'[a].status = "pending"
        /\ turns'[new].target = call[s].target /\ AsksForSettled(s) /\ stage[s] = "insert"
        /\ summary' = summary /\ overrun' = overrun
        /\ \A t \in Turns \ {new} : turns'[t] = turns[t]
        /\ \A m \in MessageIds : m >= nextMessage => messages'[m].status # "superseded"
    BY <1>1, <1>2, InsertEffect DEF AgreementInv, CallAgrees
  <1>4. \A m : Message(m).role # "absent" =>
           /\ Message(m)' = Message(m)
           /\ Message(m).turn \in Turns
           /\ turns'[Message(m).turn] = turns[Message(m).turn]
    BY <1>1, <1>3, InsertEffect, MessagesHaveTurns
  <1>5. ASSUME NEW g, IsSettledAnswer(g), Message(g).role # "absent" \/ g < nextMessage
        PROVE  IsSettledAnswer(g)'
    <2>1. Message(g)' = Message(g)
      BY <1>5, <1>4, InsertEffect
    <2>. QED  BY <1>3, <1>4, <1>5, <2>1 DEF IsSettledAnswer, IsOver
  <1>6. ASSUME NEW t \in Turns PROVE AnswerAgrees(t)'
    <2>1. CASE t = new
      <3>1. Message(turns[t].assistant)' = messages'[a]
        BY <1>2, <2>1 DEF Message
      <3>. QED  BY <1>3, <2>1, <3>1 DEF AnswerAgrees
    <2>2. CASE t # new /\ TurnExists(t)
      <3>1. PICK b : b = turns[t].assistant
        OBVIOUS
      <3>2. /\ Message(b).role # "absent"
            /\ t \notin overrun => Message(b).status \in {turns[t].status, "superseded"}
        BY <2>2, <3>1 DEF RowsInv, OneExchangePerTurn, TurnHasExchange, AgreementInv, AnswerAgrees
      <3>3. Message(turns[t].assistant)' = Message(b)
        BY <1>3, <1>4, <2>2, <3>1, <3>2 DEF Message
      <3>. QED  BY <1>3, <2>2, <3>2, <3>3 DEF AnswerAgrees
    <2>. QED  BY <1>3, <2>1, <2>2 DEF AnswerAgrees, TurnExists
  <1>7. ASSUME NEW t \in Turns PROVE ReplaysSettled(t)'
    <2>1. PICK g : g = turns'[t].target
      OBVIOUS
    <2>2. SUFFICES ASSUME TurnExists(t)', g # 0 PROVE IsSettledAnswer(g)'
      BY <2>1 DEF ReplaysSettled, IsSettledAnswer, IsOver, Message
    <2>3. IsSettledAnswer(g) /\ g < nextMessage
      <3>1. CASE t = new
        BY <1>1, <1>3, <2>1, <2>2, <3>1, InsertReplayTarget DEF AsksForSettled
      <3>2. CASE t # new
        <4>1. /\ TurnExists(t) /\ g = turns[t].target /\ ReplaysSettled(t)
              /\ TurnHasExchange(t) /\ turns[t] \in TurnRow
          BY <1>3, <2>1, <2>2, <3>2
             DEF AgreementInv, TurnExists, RowsInv, OneExchangePerTurn, TypeOK
        <4>2. /\ Message(turns[t].assistant).role # "absent"
              /\ g < turns[t].assistant
          BY <4>1 DEF TurnHasExchange
        <4>3. turns[t].assistant < nextMessage
          BY <4>2, PresentIsAllocated
        <4>. QED  BY <2>2, <4>1, <4>2, <4>3, MaxMessagesAssumption
                  DEF ReplaysSettled, TurnRow, TypeOK
      <3>. QED  BY <3>1, <3>2
    <2>. QED  BY <1>5, <2>3
  <1>8. ASSUME NEW t \in Turns PROVE NothingOfAbsent(t)'
    BY <1>3 DEF AgreementInv, NothingOfAbsent, TurnExists
  <1>9. ASSUME NEW m \in MessageIds PROVE HiddenByCompletion(m)'
    <2>1. SUFFICES ASSUME messages'[m].status = "superseded",
                          NEW k, k = messages'[m].supersededBy, NEW y, y = Message(k)'.turn
                   PROVE  k # 0 /\ (y \in overrun' \/ turns'[y].status = "complete")
      BY DEF HiddenByCompletion
    <2>2. messages'[m] = messages[m]
      <3>1. m < nextMessage
        BY <1>3, <2>1, MaxMessagesAssumption DEF TypeOK, MessageIds
      <3>2. Message(m)' = Message(m)
        BY <3>1, InsertEffect
      <3>. QED  BY <3>2 DEF Message
    <2>3. HiddenByCompletion(m)
      BY DEF AgreementInv
    <2>4. /\ k # 0
          /\ Message(k).turn \in overrun \/ turns[Message(k).turn].status = "complete"
      BY <2>1, <2>2, <2>3 DEF HiddenByCompletion
    <2>5. Message(k).role # "absent"
      BY <2>1, <2>2, <2>4, SupersederHasTurn
    <2>. QED  BY <1>3, <1>4, <2>1, <2>4, <2>5
  <1>10. ASSUME NEW c \in Scopes PROVE SummaryTellsOfCompletion(c)'
    <2>1. summary[c] # None => summary[c] \in Turns \ {new}
      BY <1>3 DEF RowsInv, NoOrphanRows, TypeOK
    <2>. QED  BY <1>3, <2>1 DEF AgreementInv, SummaryTellsOfCompletion
  <1>11. ASSUME NEW z \in Sessions PROVE CallAgrees(z)'
    <2>1. CASE z = s
      <3>1. stage'[s] = "idle" /\ call'[s] = NoCall
        BY InsertEffect
      <3>. QED  BY <2>1, <3>1 DEF CallAgrees, AsksForSettled, WritesText, ReadsStand, NoCall
    <2>2. CASE z # s
      <3>1. /\ call'[z] = call[z] /\ stage'[z] = stage[z] /\ loaded'[z] = loaded[z]
            /\ AsksForSettled(z) /\ WritesText(z) /\ ReadsStand(z)
        BY <2>2, InsertEffect DEF AgreementInv, CallAgrees
      <3>2. PICK g : g = call[z].target
        OBVIOUS
      <3>3. stage[z] = "insert" /\ g # 0 => g < nextMessage
        BY <3>2, InsertReplayTarget
      <3>4. IsSettledAnswer(g) /\ g < nextMessage => IsSettledAnswer(g)'
        BY <1>5
      <3>5. AsksForSettled(z)'
        BY <3>1, <3>2, <3>3, <3>4 DEF AsksForSettled, IsSettledAnswer, IsOver, Message
      <3>6. ReadsStand(z)'
        <4>. DEFINE y == call[z].turn
        <4>1. PICK d : d = loaded[z].turn.assistant
          OBVIOUS
        <4>2. SUFFICES ASSUME stage[z] \in {"assistant", "commit"}, Message(d)'.role # "absent"
                       PROVE  /\ Message(d).role # "absent"
                              /\ turns'[y] = turns[y]
          BY <1>3, <3>1, <4>1 DEF ReadsStand, Message
        <4>3. Message(d)' = Message(d)
          <5>1. d < nextMessage
            BY <4>1, <4>2 DEF RowsInv, LoadedTurnStands
          <5>. QED  BY <5>1, InsertEffect
        <4>4. TurnExists(y) /\ y \in Turns
          BY <4>1, <4>2, <4>3, ReadTurnStands
        <4>. QED  BY <1>3, <4>2, <4>3, <4>4
      <3>. QED  BY <3>1, <3>5, <3>6 DEF CallAgrees, WritesText
    <2>. QED  BY <2>1, <2>2
  <1>. QED  BY <1>6, <1>7, <1>8, <1>9, <1>10, <1>11 DEF AgreementInv

LEMMA DeleteAgreement ==
    ASSUME TypeOK, RowsInv, AgreementInv, NEW c \in Scopes, DeleteConversation(c)
    PROVE  AgreementInv'
  <1>1. /\ \A t \in Turns : turns'[t] = IF turns[t].scope = c THEN AbsentTurn ELSE turns[t]
        /\ \A m \in MessageIds :
              messages'[m] = IF messages[m].scope = c THEN AbsentMessage ELSE messages[m]
        /\ summary' = [summary EXCEPT ![c] = None]
        /\ UNCHANGED <<call, stage, loaded>>
        /\ \A t \in Turns : turns[t].scope # c => (t \in overrun' <=> t \in overrun)
        /\ AbsentMessage.role = "absent" /\ AbsentTurn.status = "absent"
        /\ AbsentMessage.status = "absent"
    BY DEF DeleteConversation, AbsentMessage, AbsentTurn
  <1>2. ASSUME NEW m
        PROVE  /\ Message(m).scope # c => Message(m)' = Message(m)
               /\ Message(m).scope = c => Message(m)' = AbsentMessage
    BY <1>1 DEF Message
  <1>3. \A m : Message(m)'.role # "absent" =>
           /\ Message(m)' = Message(m) /\ Message(m).scope # c
           /\ Message(m).turn \in Turns
           /\ turns'[Message(m).turn] = turns[Message(m).turn]
           /\ Message(m).turn \in overrun' <=> Message(m).turn \in overrun
    BY <1>1, <1>2, MessagesHaveTurns
  <1>4. ASSUME NEW g, IsSettledAnswer(g) PROVE IsSettledAnswer(g)'
    BY <1>3, <1>4 DEF IsSettledAnswer, IsOver
  <1>5. \A t \in Turns : TurnExists(t)' => turns'[t] = turns[t] /\ TurnExists(t)
                                             /\ turns[t].scope # c
    BY <1>1 DEF TurnExists
  <1>6. ASSUME NEW t \in Turns PROVE AnswerAgrees(t)'
    <2>1. SUFFICES ASSUME TurnExists(t)' PROVE AnswerAgrees(t)'
      BY DEF AnswerAgrees
    <2>2. PICK b : b = turns[t].assistant
      OBVIOUS
    <2>3. /\ Message(b).scope = turns[t].scope
          /\ t \notin overrun => Message(b).status \in {turns[t].status, "superseded"}
      BY <1>5, <2>1, <2>2 DEF RowsInv, OneExchangePerTurn, TurnHasExchange, AgreementInv, AnswerAgrees
    <2>4. Message(turns[t].assistant)' = Message(b)
      BY <1>2, <1>5, <2>1, <2>2, <2>3 DEF Message
    <2>. QED  BY <1>1, <1>5, <2>1, <2>3, <2>4 DEF AnswerAgrees
  <1>7. ASSUME NEW t \in Turns PROVE ReplaysSettled(t)'
    <2>1. PICK g : g = turns'[t].target
      OBVIOUS
    <2>2. SUFFICES ASSUME TurnExists(t)', g # 0 PROVE IsSettledAnswer(g)'
      BY <2>1 DEF ReplaysSettled, IsSettledAnswer, IsOver, Message
    <2>3. IsSettledAnswer(g)
      BY <1>5, <2>1, <2>2 DEF AgreementInv, ReplaysSettled
    <2>. QED  BY <1>4, <2>3
  <1>8. ASSUME NEW t \in Turns PROVE NothingOfAbsent(t)'
    BY <1>1 DEF AgreementInv, NothingOfAbsent, TurnExists
  <1>9. ASSUME NEW m \in MessageIds PROVE HiddenByCompletion(m)'
    <2>1. SUFFICES ASSUME messages'[m].status = "superseded",
                          NEW k, k = messages'[m].supersededBy, NEW y, y = Message(k)'.turn
                   PROVE  k # 0 /\ (y \in overrun' \/ turns'[y].status = "complete")
      BY DEF HiddenByCompletion
    <2>2. messages'[m] = messages[m] /\ messages[m].scope # c
      BY <1>1, <2>1
    <2>3. HiddenByCompletion(m)
      BY DEF AgreementInv
    <2>4. /\ k # 0
          /\ Message(k).turn \in overrun \/ turns[Message(k).turn].status = "complete"
      BY <2>1, <2>2, <2>3 DEF HiddenByCompletion
    <2>5. /\ Message(k).role # "absent" /\ Message(k).scope # c
      BY <2>1, <2>2, <2>4, SupersederHasTurn
    <2>6. Message(k)' = Message(k)
      BY <1>2, <2>5
    <2>. QED  BY <1>3, <2>1, <2>4, <2>5, <2>6
  <1>10. ASSUME NEW d \in Scopes PROVE SummaryTellsOfCompletion(d)'
    <2>1. SUFFICES ASSUME summary'[d] # None PROVE SummaryTellsOfCompletion(d)'
      BY DEF SummaryTellsOfCompletion
    <2>2. d # c /\ summary'[d] = summary[d]
      BY <1>1, <2>1 DEF TypeOK
    <2>3. summary[d] \in Turns /\ turns[summary[d]].scope = d
      BY <2>1, <2>2 DEF TypeOK, RowsInv, NoOrphanRows
    <2>4. /\ turns'[summary[d]] = turns[summary[d]]
          /\ summary[d] \in overrun' <=> summary[d] \in overrun
      BY <1>1, <2>2, <2>3
    <2>. QED  BY <2>2, <2>4 DEF AgreementInv, SummaryTellsOfCompletion
  <1>11. ASSUME NEW z \in Sessions PROVE CallAgrees(z)'
    <2>1. PICK g, d : g = call[z].target /\ d = loaded[z].turn.assistant
      OBVIOUS
    <2>2. IsSettledAnswer(g) => IsSettledAnswer(g)'
      BY <1>4
    <2>3. AsksForSettled(z) /\ WritesText(z) /\ ReadsStand(z)
      BY DEF AgreementInv, CallAgrees
    <2>4. (AsksForSettled(z) /\ WritesText(z))'
      BY <1>1, <2>1, <2>2, <2>3 DEF AsksForSettled, WritesText, IsSettledAnswer, IsOver, Message
    <2>5. ReadsStand(z)'
      <3>. DEFINE y == call[z].turn
      <3>1. SUFFICES ASSUME stage[z] \in {"assistant", "commit"}, Message(d)'.role # "absent"
                     PROVE  /\ Message(d).role # "absent"
                            /\ turns'[y] = turns[y]
                            /\ y \in overrun' <=> y \in overrun
        BY <1>1, <2>1, <2>3 DEF ReadsStand, Message
      <3>2. Message(d).role # "absent" /\ Message(d).scope # c
        BY <1>3, <3>1
      <3>3. y \in Turns /\ turns[y].scope # c
        BY <2>1, <3>1, <3>2, ReadTurnStands
      <3>. QED  BY <1>1, <3>2, <3>3
    <2>. QED  BY <2>4, <2>5 DEF CallAgrees
  <1>. QED  BY <1>6, <1>7, <1>8, <1>9, <1>10, <1>11 DEF AgreementInv

LEMMA InitAgreement == Init => AgreementInv
  <1>. SUFFICES ASSUME Init PROVE AgreementInv
    OBVIOUS
  <1>1. ASSUME NEW t \in Turns
        PROVE  AnswerAgrees(t) /\ ReplaysSettled(t) /\ NothingOfAbsent(t)
    BY DEF Init, AnswerAgrees, ReplaysSettled, NothingOfAbsent, TurnExists, AbsentTurn
  <1>2. \A m \in MessageIds : HiddenByCompletion(m)
    BY DEF Init, HiddenByCompletion, AbsentMessage
  <1>3. \A c \in Scopes : SummaryTellsOfCompletion(c)
    BY DEF Init, SummaryTellsOfCompletion
  <1>4. \A s \in Sessions : CallAgrees(s)
    BY DEF Init, CallAgrees, AsksForSettled, WritesText, ReadsStand, NoCall
  <1>. QED  BY <1>1, <1>2, <1>3, <1>4 DEF AgreementInv

LEMMA NextAgreement ==
    ASSUME TypeOK, RowsInv, AgreementInv, [Next]_vars
    PROVE  AgreementInv'
  <1>1. ASSUME NEW s \in Sessions, SessionStep(s)
        PROVE  AgreementInv'
    BY <1>1, ReadStepAgreement, InsertAgreement, CommitAgreement DEF SessionStep, CallStep
  <1>2. ASSUME NEW s \in Sessions, ClientCall(s)
        PROVE  AgreementInv'
    BY <1>2, ClientCallAgreement
  <1>3. ASSUME NEW c \in Scopes, DeleteConversation(c)
        PROVE  AgreementInv'
    BY <1>3, DeleteAgreement
  <1>4. CASE UNCHANGED <<turns, messages, summary, overrun, call, stage, loaded>>
    BY <1>4, RowsStandAgreement
       DEF AgreementInv, CallAgrees, AsksForSettled, WritesText, ReadsStand, IsSettledAnswer,
           IsOver, Message
  <1>. QED  BY <1>1, <1>2, <1>3, <1>4 DEF Next, MakeConversation, vars, rows

LEMMA AgreementInvariant == Spec => []AgreementInv
  <1>1. TypeOK /\ RowsInv /\ AgreementInv /\ [Next]_vars => AgreementInv'
    BY NextAgreement
  <1>. QED  BY <1>1, InitAgreement, TypeCorrect, RowsInvariant, PTL DEF Spec

(* However calls overlap, the message and the turn of an answer disagree,  *)
(* an answer is hidden or a conversation summarised by a turn that is not  *)
(* complete, only where a call that had read the turn before its outcome   *)
(* has written after it.                                                   *)
THEOREM HistoryAgrees == Spec => []HistoryAgreesWithTurns
  <1>1. AgreementInv => HistoryAgreesWithTurns
    BY DEF AgreementInv, HistoryAgreesWithTurns, AnswerAgrees, HiddenByCompletion,
           SummaryTellsOfCompletion
  <1>. QED  BY <1>1, AgreementInvariant, PTL

(***************************************************************************)
(* The refinement of TurnLifecycle                                         *)
(***************************************************************************)
(* What Lifecycle sees of the rows and of the calls.                       *)
statusNow == [t \in Turns |-> turns[t].status]
answerNow == [t \in Turns |-> AnswerOf(t)]
seenNow   == [s \in Sessions |-> SeenBy(s)]

nothingSeen == [turn |-> None, status |-> "absent"]

(* The first state of the rows is the first state of the lifecycle.        *)
LEMMA LifecycleInit == Init => Lifecycle!Init
  <1>1. ASSUME Init PROVE statusNow = [t \in Turns |-> "absent"]
    BY <1>1 DEF Init, statusNow, AbsentTurn
  <1>2. ASSUME Init PROVE answerNow = [t \in Turns |-> None]
    BY <1>2 DEF Init, answerNow, AnswerOf, Message, AbsentTurn, AbsentMessage
  <1>3. ASSUME Init PROVE seenNow = [s \in Sessions |-> nothingSeen]
    BY <1>3 DEF Init, seenNow, SeenBy, MayWrite, nothingSeen
  <1>. QED  BY <1>1, <1>2, <1>3
            DEF Lifecycle!Init, Lifecycle!NothingSeen, statusNow, answerNow, seenNow, nothingSeen

(* A step that leaves the status and the answer of every turn, and what    *)
(* every call has seen, is a stutter of the lifecycle.                     *)
LEMMA LifecycleStutter ==
    ASSUME UNCHANGED <<statusNow, answerNow, seenNow>>
    PROVE  [Lifecycle!Next]_(Lifecycle!lifecycle)
  BY DEF Lifecycle!lifecycle, statusNow, answerNow, seenNow

(* The steps that change no turn and no message.                           *)
LEMMA RowsStandLifecycle ==
    ASSUME UNCHANGED <<turns, messages>>
    PROVE  /\ UNCHANGED <<statusNow, answerNow>>
           /\ \A z \in Sessions :
                 call'[z] = call[z] /\ stage'[z] = stage[z] /\ loaded'[z] = loaded[z]
                    => SeenBy(z)' = SeenBy(z)
  BY DEF statusNow, answerNow, AnswerOf, Message, SeenBy, MayWrite, TurnExists

(* A call that is over has nothing to write: Forget.                       *)
LEMMA LifecycleReturn ==
    ASSUME TypeOK, NEW s \in Sessions, NEW r, Return(s, r), UNCHANGED <<turns, messages>>
    PROVE  Lifecycle!Next
  <1>1. SeenBy(s)' = nothingSeen
    BY DEF Return, TypeOK, SeenBy, MayWrite, nothingSeen
  <1>2. ASSUME NEW z \in Sessions \ {s} PROVE SeenBy(z)' = SeenBy(z)
    BY RowsStandLifecycle DEF Return, TypeOK
  <1>3. seenNow' = [seenNow EXCEPT ![s] = nothingSeen]
    BY <1>1, <1>2 DEF seenNow
  <1>4. Lifecycle!Forget(s)
    BY <1>3, RowsStandLifecycle
       DEF Lifecycle!Forget, Lifecycle!NothingSeen, statusNow, answerNow, seenNow, nothingSeen
  <1>. QED  BY <1>4 DEF Lifecycle!Next

(* A call that goes on, without having read the turn, shows nothing.       *)
LEMMA LifecycleProceed ==
    ASSUME TypeOK, NEW s \in Sessions, NEW next, NEW read, Proceed(s, next, read),
           UNCHANGED <<turns, messages>>,
           \/ stage[s] \notin {"assistant", "commit"} /\ next \notin {"assistant", "commit"}
           \/ stage[s] = "assistant" /\ next = "commit" /\ read.turn = loaded[s].turn
    PROVE  [Lifecycle!Next]_(Lifecycle!lifecycle)
  <1>1. /\ call'[s] = call[s] /\ stage'[s] = next /\ loaded'[s] = read
        /\ \A z \in Sessions \ {s} :
              call'[z] = call[z] /\ stage'[z] = stage[z] /\ loaded'[z] = loaded[z]
    BY DEF Proceed, TypeOK
  <1>2. SeenBy(s)' = SeenBy(s)
    BY <1>1 DEF SeenBy, MayWrite, TurnExists
  <1>3. seenNow' = seenNow
    BY <1>1, <1>2, RowsStandLifecycle DEF seenNow
  <1>. QED  BY <1>3, RowsStandLifecycle, LifecycleStutter

(* The read of the turn is See, unless the turn is over for good.          *)
LEMMA LifecycleReadTurn ==
    ASSUME TypeOK, NEW s \in Sessions, ReadTurn(s)
    PROVE  [Lifecycle!Next]_(Lifecycle!lifecycle)
  <1>0. UNCHANGED <<turns, messages>> /\ stage[s] = "turn"
    BY DEF ReadTurn, rows
  <1>1. CASE \E r : Return(s, r)
    BY <1>0, <1>1, LifecycleReturn
  <1>2. PICK t : t = call[s].turn
    OBVIOUS
  <1>3. t \in Turns
    BY <1>0, <1>2 DEF TypeOK, SessionOK
  <1>4. CASE /\ TurnExists(t)
             /\ Proceed(s, "assistant", [loaded[s] EXCEPT !.turn = turns[t]])
    <2>1. /\ call'[s] = call[s] /\ stage'[s] = "assistant" /\ loaded'[s].turn = turns[t]
          /\ \A z \in Sessions \ {s} :
                call'[z] = call[z] /\ stage'[z] = stage[z] /\ loaded'[z] = loaded[z]
      BY <1>4 DEF Proceed, TypeOK, LoadedRows
    <2>2. SeenBy(s) = nothingSeen
      BY <1>0 DEF SeenBy, MayWrite, nothingSeen
    <2>3. \A z \in Sessions \ {s} : SeenBy(z)' = SeenBy(z)
      BY <1>0, <2>1, RowsStandLifecycle
    <2>4. CASE turns[t].status \in Active \cup {"stopped"}
      <3>1. SeenBy(s)' = [turn |-> t, status |-> turns[t].status]
        BY <1>0, <1>2, <1>4, <2>1, <2>4 DEF SeenBy, MayWrite, TurnExists
      <3>2. seenNow' = [seenNow EXCEPT ![s] = [turn |-> t, status |-> statusNow[t]]]
        BY <1>3, <2>3, <3>1 DEF seenNow, statusNow
      <3>3. statusNow[t] \in Active \cup {"stopped"}
        BY <1>3, <2>4 DEF statusNow
      <3>4. Lifecycle!See(s, t)
        BY <1>0, <3>2, <3>3, RowsStandLifecycle
           DEF Lifecycle!See, Lifecycle!Active, Active, statusNow, answerNow, seenNow
      <3>. QED  BY <1>3, <3>4 DEF Lifecycle!Next
    <2>5. CASE turns[t].status \notin Active \cup {"stopped"}
      <3>1. SeenBy(s)' = nothingSeen
        BY <2>1, <2>5 DEF SeenBy, MayWrite, nothingSeen
      <3>2. seenNow' = seenNow
        BY <2>2, <2>3, <3>1 DEF seenNow
      <3>. QED  BY <1>0, <3>2, RowsStandLifecycle, LifecycleStutter
    <2>. QED  BY <2>4, <2>5
  <1>. QED  BY <1>1, <1>2, <1>4 DEF ReadTurn

(* The turns that are not there have no answer, and those that are have    *)
(* one that is there.                                                      *)
LEMMA AnswerIsThere ==
    ASSUME TypeOK, RowsInv, AgreementInv, NEW t \in Turns, NEW b, b = turns[t].assistant
    PROVE  /\ TurnExists(t) => /\ b \in MessageIds /\ b < nextMessage
                               /\ Message(b).role # "absent" /\ Message(b).turn = t
                               /\ Message(b).scope = turns[t].scope
           /\ ~TurnExists(t) => b = 0 /\ b \notin MessageIds
  <1>1. CASE TurnExists(t)
    BY <1>1, MessagesHaveTurns DEF RowsInv, OneExchangePerTurn, TurnHasExchange
  <1>2. CASE ~TurnExists(t)
    BY <1>2, MaxMessagesAssumption DEF AgreementInv, NothingOfAbsent, AbsentTurn, MessageIds
  <1>. QED  BY <1>1, <1>2

(* An insert of begin_turn is Begin: one turn changes, the others stay,    *)
(* and no call has read the new one.                                       *)
LEMMA LifecycleInsert ==
    ASSUME TypeOK, RowsInv, AgreementInv, NEW s \in Sessions,
           InsertMessageTurn(s) \/ InsertReplayTurn(s)
    PROVE  Lifecycle!Next
  <1>1. PICK new \in Turns : new = call[s].turn /\ ~TurnExists(new)
    BY InsertEffect
  <1>2. /\ turns'[new].status = "pending"
        /\ turns'[new].assistant >= nextMessage
        /\ \A t \in Turns \ {new} : turns'[t] = turns[t]
        /\ AnswerOf(new)' = None
    BY <1>1, InsertEffect DEF AnswerOf, Message
  <1>3. AnswerOf(new) = None
    BY <1>1, AnswerIsThere DEF AnswerOf, Message, AbsentMessage
  <1>4. ASSUME NEW t \in Turns \ {new} PROVE AnswerOf(t)' = AnswerOf(t)
    <2>1. PICK b : b = turns[t].assistant
      OBVIOUS
    <2>2. Message(b)' = Message(b)
      <3>1. CASE TurnExists(t)
        BY <2>1, <3>1, AnswerIsThere, InsertEffect
      <3>2. CASE ~TurnExists(t)
        BY <2>1, <3>2, AnswerIsThere DEF Message
      <3>. QED  BY <3>1, <3>2
    <2>. QED  BY <1>2, <2>1, <2>2 DEF AnswerOf, Message
  <1>5. /\ statusNow[new] = "absent"
        /\ statusNow' = [statusNow EXCEPT ![new] = "pending"]
    BY <1>1, <1>2 DEF statusNow, TurnExists
  <1>6. answerNow' = answerNow
    BY <1>2, <1>3, <1>4 DEF answerNow
  <1>7. ASSUME NEW z \in Sessions PROVE SeenBy(z)' = SeenBy(z)
    <2>1. CASE z = s
      BY <2>1, InsertEffect DEF SeenBy, MayWrite
    <2>2. CASE z # s /\ stage[z] \in {"assistant", "commit"}
      <3>1. call'[z] = call[z] /\ stage'[z] = stage[z] /\ loaded'[z] = loaded[z]
        BY <2>2, InsertEffect
      <3>2. call[z].turn \in Turns /\ loaded[z].turn.assistant < nextMessage
        BY <2>2 DEF TypeOK, SessionOK, RowsInv, LoadedTurnStands
      <3>3. loaded[z].turn.assistant \in Nat /\ nextMessage \in Nat
        BY MaxMessagesAssumption DEF TypeOK, LoadedRows, TurnRow
      <3>4. CASE call[z].turn = new
        <4>1. turns'[new].assistant # loaded[z].turn.assistant
          BY <1>1, <1>2, <3>2, <3>3, InsertEffect, MaxMessagesAssumption DEF MessageIds
        <4>. QED  BY <1>1, <3>1, <3>4, <4>1 DEF SeenBy, MayWrite
      <3>5. CASE call[z].turn # new
        BY <1>2, <3>1, <3>2, <3>5 DEF SeenBy, MayWrite, TurnExists
      <3>. QED  BY <3>4, <3>5
    <2>3. CASE z # s /\ stage[z] \notin {"assistant", "commit"}
      BY <2>3, InsertEffect DEF SeenBy, MayWrite
    <2>. QED  BY <2>1, <2>2, <2>3
  <1>8. seenNow' = seenNow
    BY <1>7 DEF seenNow
  <1>9. Lifecycle!Begin(new)
    BY <1>5, <1>6, <1>8 DEF Lifecycle!Begin, statusNow, answerNow, seenNow
  <1>. QED  BY <1>9 DEF Lifecycle!Next

(* A commit is Grow, Stop, End or Restate of a writer that saw the turn,   *)
(* or writes what is there.                                                *)
LEMMA LifecycleCommit ==
    ASSUME TypeOK, RowsInv, AgreementInv,
           NEW s \in Sessions, UpdateCommit(s) \/ CancelCommit(s) \/ FinishCommit(s)
    PROVE  [Lifecycle!Next]_(Lifecycle!lifecycle)
  <1>1. PICK t \in Turns : /\ t = call[s].turn /\ TurnExists(t)
                           /\ loaded[s].turn.assistant = turns[t].assistant
    BY CommitEffect
  <1>2. PICK a \in MessageIds : /\ a = turns[t].assistant
                                /\ messages[a].role = "assistant" /\ messages[a].turn = t
    BY <1>1, CommitEffect
  <1>3. PICK st \in TurnStatus, x \in Contents, ms \in TurnStatus \cup {messages[a].status} :
           CommitsAs(s, st, ms, x) /\ MayBecome(s, st, x)
    BY <1>1, <1>2, CommitEffect
  <1>4. /\ turns'[t].status = st
        /\ \A y \in Turns \ {t} : turns'[y] = turns[y]
        /\ messages'[a].content = x
        /\ \A m \in MessageIds \ {a} : messages'[m].content = messages[m].content
    BY <1>1, <1>2, <1>3, CommitRowByRow
  <1>5. /\ AnswerOf(t) = messages[a].content
        /\ AnswerOf(t)' = x
    BY <1>2, <1>4, CommitKeepsIdentity DEF AnswerOf, Message
  <1>6. ASSUME NEW y \in Turns \ {t} PROVE AnswerOf(y)' = AnswerOf(y)
    <2>1. PICK b : b = turns[y].assistant
      OBVIOUS
    <2>2. Message(b)'.content = Message(b).content
      <3>1. CASE TurnExists(y)
        <4>1. b \in MessageIds /\ Message(b).turn = y
          BY <2>1, <3>1, AnswerIsThere
        <4>2. b # a
          BY <1>2, <4>1 DEF Message
        <4>. QED  BY <1>4, <4>1, <4>2 DEF Message
      <3>2. CASE ~TurnExists(y)
        BY <2>1, <3>2, AnswerIsThere DEF Message
      <3>. QED  BY <3>1, <3>2
    <2>. QED  BY <1>4, <2>1, <2>2 DEF AnswerOf, Message
  <1>7. /\ statusNow[t] = turns[t].status
        /\ statusNow' = [statusNow EXCEPT ![t] = st]
    BY <1>4 DEF statusNow
  <1>8. /\ answerNow[t] = messages[a].content
        /\ answerNow' = [answerNow EXCEPT ![t] = x]
        /\ x = messages[a].content => answerNow' = answerNow
    BY <1>5, <1>6 DEF answerNow
  <1>. DEFINE saw == loaded[s].turn.status
  <1>9. \/ saw \in Active /\ st \in {"streaming", statusNow[t]} /\ x \in Texts \cup {answerNow[t]}
        \/ saw \in Active /\ st = "stopped" /\ x = answerNow[t]
        \/ saw \in Active /\ st \in Settled /\ x \in Texts \cup {answerNow[t]}
        \/ saw = "stopped" /\ st = statusNow[t] /\ x \in Texts \cup {answerNow[t]}
    BY <1>1, <1>2, <1>3, <1>7, <1>8 DEF MayBecome
  <1>10. seenNow[s] = [turn |-> t, status |-> saw]
    <2>1. stage[s] = "commit" /\ saw \in Active \cup {"stopped"}
      BY <1>9 DEF UpdateCommit, CancelCommit, FinishCommit
    <2>. QED  BY <1>1, <2>1 DEF seenNow, SeenBy, MayWrite
  <1>11. seenNow' = [seenNow EXCEPT ![s] = nothingSeen]
    <2>1. SeenBy(s)' = nothingSeen
      BY DEF UpdateCommit, CancelCommit, FinishCommit, Return, TypeOK, SeenBy, MayWrite, nothingSeen
    <2>2. ASSUME NEW z \in Sessions \ {s} PROVE SeenBy(z)' = SeenBy(z)
      <3>1. call'[z] = call[z] /\ stage'[z] = stage[z] /\ loaded'[z] = loaded[z]
        BY CommitKeepsIdentity
      <3>2. stage[z] # "idle" => call[z].turn \in Turns
        BY DEF TypeOK, SessionOK
      <3>3. \A y \in Turns : /\ TurnExists(y)' <=> TurnExists(y)
                             /\ turns'[y].assistant = turns[y].assistant
        BY CommitKeepsIdentity
      <3>. QED  BY <3>1, <3>2, <3>3 DEF SeenBy, MayWrite
    <2>. QED  BY <2>1, <2>2 DEF seenNow
  <1>. HIDE DEF saw
  <1>12. CASE saw \in Active /\ st \in {"streaming", statusNow[t]} /\ x \in Texts \cup {answerNow[t]}
    <2>1. seenNow[s].status \in Active /\ seenNow[s].turn = t
      BY <1>10, <1>12
    <2>2. \E u \in {"streaming", statusNow[t]} : statusNow' = [statusNow EXCEPT ![t] = u]
      BY <1>7, <1>12
    <2>3. \E v \in Texts \cup {answerNow[t]} : answerNow' = [answerNow EXCEPT ![t] = v]
      BY <1>8, <1>12, Zenon
    <2>4. /\ seenNow[s].status \in Active /\ seenNow[s].turn = t
          /\ \E u \in {"streaming", statusNow[t]} : statusNow' = [statusNow EXCEPT ![t] = u]
          /\ \E v \in Texts \cup {answerNow[t]} : answerNow' = [answerNow EXCEPT ![t] = v]
          /\ seenNow' = [seenNow EXCEPT ![s] = nothingSeen]
      BY <1>11, <2>1, <2>2, <2>3
    <2>5. Lifecycle!Grow(s)
      BY <2>4
         DEF Lifecycle!Grow, Lifecycle!Write, Lifecycle!Kept, Lifecycle!NothingSeen,
             Lifecycle!Active, Active,
             statusNow, answerNow, seenNow, nothingSeen
    <2>. QED  BY <2>5 DEF Lifecycle!Next
  <1>13. CASE saw \in Active /\ st = "stopped" /\ x = answerNow[t]
    <2>1. /\ seenNow[s].status \in Active /\ seenNow[s].turn = t
          /\ \E u \in {"stopped"} : statusNow' = [statusNow EXCEPT ![t] = u]
          /\ \E v \in {answerNow[t]} : answerNow' = [answerNow EXCEPT ![t] = v]
          /\ seenNow' = [seenNow EXCEPT ![s] = nothingSeen]
      BY <1>7, <1>8, <1>10, <1>11, <1>13
    <2>2. Lifecycle!Stop(s)
      BY <2>1
         DEF Lifecycle!Stop, Lifecycle!Write, Lifecycle!Kept, Lifecycle!NothingSeen,
             Lifecycle!Active, Active,
             statusNow, answerNow, seenNow, nothingSeen
    <2>. QED  BY <2>2 DEF Lifecycle!Next
  <1>14. CASE saw \in Active /\ st \in Settled /\ x \in Texts \cup {answerNow[t]}
    <2>1. seenNow[s].status \in Active /\ seenNow[s].turn = t
      BY <1>10, <1>14
    <2>2. \E u \in Settled : statusNow' = [statusNow EXCEPT ![t] = u]
      BY <1>7, <1>14
    <2>3. \E v \in Texts \cup {answerNow[t]} : answerNow' = [answerNow EXCEPT ![t] = v]
      BY <1>8, <1>14, Zenon
    <2>4. /\ seenNow[s].status \in Active /\ seenNow[s].turn = t
          /\ \E u \in Settled : statusNow' = [statusNow EXCEPT ![t] = u]
          /\ \E v \in Texts \cup {answerNow[t]} : answerNow' = [answerNow EXCEPT ![t] = v]
          /\ seenNow' = [seenNow EXCEPT ![s] = nothingSeen]
      BY <1>11, <2>1, <2>2, <2>3
    <2>5. Lifecycle!End(s)
      BY <2>4
         DEF Lifecycle!End, Lifecycle!Write, Lifecycle!Kept, Lifecycle!NothingSeen,
             Lifecycle!Outcomes, Settled, Lifecycle!Active, Active,
             statusNow, answerNow, seenNow, nothingSeen
    <2>. QED  BY <2>5 DEF Lifecycle!Next
  <1>15. ASSUME saw = "stopped", st = statusNow[t]
         PROVE  statusNow' = statusNow
    BY <1>7, <1>15 DEF statusNow
  <1>16. CASE saw = "stopped" /\ st = statusNow[t] /\ x \in Texts
    <2>1. seenNow[s].status = "stopped" /\ seenNow[s].turn = t
      BY <1>10, <1>16
    <2>2. \E v \in Texts : answerNow' = [answerNow EXCEPT ![t] = v]
      BY <1>8, <1>16, Zenon
    <2>3. Lifecycle!Restate(s)
      BY <1>11, <1>15, <1>16, <2>1, <2>2
         DEF Lifecycle!Restate, Lifecycle!NothingSeen, statusNow, answerNow, seenNow, nothingSeen
    <2>. QED  BY <2>3 DEF Lifecycle!Next
  <1>17. CASE saw = "stopped" /\ st = statusNow[t] /\ x = answerNow[t]
    <2>1. Lifecycle!Forget(s)
      BY <1>8, <1>11, <1>15, <1>17
         DEF Lifecycle!Forget, Lifecycle!NothingSeen, statusNow, answerNow, seenNow, nothingSeen
    <2>. QED  BY <2>1 DEF Lifecycle!Next
  <1>. QED  BY <1>9, <1>12, <1>13, <1>14, <1>16, <1>17 DEF saw

(* delete_conversation is Remove.                                          *)
LEMMA LifecycleDelete ==
    ASSUME TypeOK, RowsInv, AgreementInv, NEW c \in Scopes, DeleteConversation(c)
    PROVE  Lifecycle!Next
  <1>. PICK ts \in SUBSET Turns : ts = {t \in Turns : turns[t].scope = c}
    OBVIOUS
  <1>1. /\ \A t \in Turns : turns'[t] = IF turns[t].scope = c THEN AbsentTurn ELSE turns[t]
        /\ \A m \in MessageIds :
              messages'[m] = IF messages[m].scope = c THEN AbsentMessage ELSE messages[m]
        /\ AbsentTurn.status = "absent" /\ AbsentTurn.assistant = 0
        /\ UNCHANGED <<call, stage, loaded>>
    BY DEF DeleteConversation, AbsentTurn
  <1>2. \A m : Message(m).scope # c => Message(m)' = Message(m)
    BY <1>1 DEF Message
  <1>3. Message(0)' = AbsentMessage /\ Message(0) = AbsentMessage
    BY MaxMessagesAssumption DEF Message, MessageIds
  <1>4. ASSUME NEW t \in ts PROVE turns'[t].status = "absent" /\ AnswerOf(t)' = None
    BY <1>1, <1>3 DEF AnswerOf, Message, AbsentMessage
  <1>5. ASSUME NEW t \in Turns \ ts
        PROVE  turns'[t] = turns[t] /\ AnswerOf(t)' = AnswerOf(t)
    <2>1. turns'[t] = turns[t] /\ turns[t].scope # c
      BY <1>1
    <2>2. PICK b : b = turns[t].assistant
      OBVIOUS
    <2>3. Message(b)' = Message(b)
      <3>1. CASE TurnExists(t)
        BY <1>2, <2>1, <2>2, <3>1, AnswerIsThere
      <3>2. CASE ~TurnExists(t)
        BY <1>3, <2>2, <3>2, AnswerIsThere
      <3>. QED  BY <3>1, <3>2
    <2>. QED  BY <2>1, <2>2, <2>3 DEF AnswerOf, Message
  <1>6. /\ statusNow' = [t \in Turns |-> IF t \in ts THEN "absent" ELSE statusNow[t]]
        /\ answerNow' = [t \in Turns |-> IF t \in ts THEN None ELSE answerNow[t]]
    BY <1>4, <1>5 DEF statusNow, answerNow
  <1>7. ASSUME NEW z \in Sessions
        PROVE  SeenBy(z)' = IF SeenBy(z).turn \in ts THEN nothingSeen ELSE SeenBy(z)
    <2>1. CASE stage[z] \notin {"assistant", "commit"}
      BY <1>1, <2>1, NoneAssumption DEF SeenBy, MayWrite, nothingSeen
    <2>2. CASE stage[z] \in {"assistant", "commit"}
      <3>1. PICK y \in Turns : y = call[z].turn
        BY <2>2 DEF TypeOK, SessionOK
      <3>2. CASE y \in ts
        <4>1. ~TurnExists(y)'
          BY <1>4, <3>2 DEF TurnExists
        <4>2. SeenBy(z)' = nothingSeen
          BY <1>1, <3>1, <4>1 DEF SeenBy, MayWrite, nothingSeen
        <4>. QED  BY <3>1, <3>2, <4>2 DEF SeenBy, nothingSeen
      <3>3. CASE y \notin ts
        <4>1. SeenBy(z)' = SeenBy(z)
          BY <1>1, <1>5, <3>1, <3>3 DEF SeenBy, MayWrite, TurnExists
        <4>. QED  BY <3>1, <3>3, <4>1, NoneAssumption DEF SeenBy, nothingSeen
      <3>. QED  BY <3>2, <3>3
    <2>. QED  BY <2>1, <2>2
  <1>8. seenNow' = [z \in Sessions |-> IF seenNow[z].turn \in ts THEN nothingSeen ELSE seenNow[z]]
    BY <1>7 DEF seenNow
  <1>9. Lifecycle!Remove(ts)
    BY <1>6, <1>8
       DEF Lifecycle!Remove, Lifecycle!NothingSeen, statusNow, answerNow, seenNow, nothingSeen
  <1>. QED  BY <1>9 DEF Lifecycle!Next

LEMMA LifecycleSessionStep ==
    ASSUME TypeOK, RowsInv, AgreementInv, NEW s \in Sessions, SessionStep(s)
    PROVE  [Lifecycle!Next]_(Lifecycle!lifecycle)
  <1>1. CASE InsertMessageTurn(s) \/ InsertReplayTurn(s)
    BY <1>1, LifecycleInsert
  <1>2. CASE UpdateCommit(s) \/ CancelCommit(s) \/ FinishCommit(s)
    BY <1>2, LifecycleCommit
  <1>3. CASE ReadTurn(s)
    BY <1>3, LifecycleReadTurn
  <1>4. CASE (\E r : Return(s, r)) /\ UNCHANGED <<turns, messages>>
    BY <1>4, LifecycleReturn
  <1>5. CASE EnsureConversation(s)
    BY <1>5, LifecycleProceed DEF EnsureConversation
  <1>6. CASE BeginReadTurn(s)
    <2>1. ASSUME NEW next, Proceed(s, next, loaded[s]), next \in {"insert", "target"}
          PROVE  [Lifecycle!Next]_(Lifecycle!lifecycle)
      BY <1>6, <2>1, LifecycleProceed DEF BeginReadTurn, rows
    <2>2. UNCHANGED <<turns, messages>>
      BY <1>6 DEF BeginReadTurn, rows
    <2>. QED  BY <1>4, <1>6, <2>1, <2>2 DEF BeginReadTurn
  <1>7. CASE BeginReadTarget(s)
    <2>1. ASSUME NEW read, Proceed(s, "insert", read)
          PROVE  [Lifecycle!Next]_(Lifecycle!lifecycle)
      BY <1>7, <2>1, LifecycleProceed DEF BeginReadTarget, rows
    <2>2. UNCHANGED <<turns, messages>>
      BY <1>7 DEF BeginReadTarget, rows
    <2>. QED  BY <1>4, <1>7, <2>1, <2>2 DEF BeginReadTarget
  <1>8. CASE UpdateReadAssistant(s) \/ CancelReadAssistant(s) \/ FinishReadAssistant(s)
    <2>1. UNCHANGED <<turns, messages>> /\ stage[s] = "assistant"
      BY <1>8 DEF UpdateReadAssistant, CancelReadAssistant, FinishReadAssistant, rows
    <2>2. ASSUME NEW row, Proceed(s, "commit", [loaded[s] EXCEPT !.message = row])
          PROVE  [Lifecycle!Next]_(Lifecycle!lifecycle)
      <3>1. [loaded[s] EXCEPT !.message = row].turn = loaded[s].turn
        BY DEF TypeOK, LoadedRows
      <3>. QED  BY <2>1, <2>2, <3>1, LifecycleProceed
    <2>. QED  BY <1>4, <1>8, <2>1, <2>2
              DEF UpdateReadAssistant, CancelReadAssistant, FinishReadAssistant
  <1>. QED  BY <1>1, <1>2, <1>3, <1>4, <1>5, <1>6, <1>7, <1>8
            DEF SessionStep, CallStep, Fail, InsertConflict, CommitConflict, rows

LEMMA LifecycleStep ==
    ASSUME TypeOK, RowsInv, AgreementInv, [Next]_vars
    PROVE  [Lifecycle!Next]_(Lifecycle!lifecycle)
  <1>1. CASE UNCHANGED <<turns, messages, call, stage, loaded>>
    <2>1. seenNow' = seenNow
      BY <1>1, RowsStandLifecycle DEF seenNow
    <2>. QED  BY <1>1, <2>1, RowsStandLifecycle, LifecycleStutter
  <1>2. ASSUME NEW s \in Sessions, ClientCall(s)
        PROVE  [Lifecycle!Next]_(Lifecycle!lifecycle)
    <2>1. PICK c : Open(s, c)
      BY <1>2 DEF ClientCall
    <2>2. /\ UNCHANGED <<turns, messages>> /\ stage[s] = "idle"
          /\ stage'[s] \in {"ensure", "turn"}
          /\ \A z \in Sessions \ {s} :
                call'[z] = call[z] /\ stage'[z] = stage[z] /\ loaded'[z] = loaded[z]
      BY <2>1 DEF Open, Idle, rows, TypeOK
    <2>3. SeenBy(s)' = SeenBy(s)
      BY <2>2 DEF SeenBy, MayWrite
    <2>4. seenNow' = seenNow
      BY <2>2, <2>3, RowsStandLifecycle DEF seenNow
    <2>. QED  BY <2>2, <2>4, RowsStandLifecycle, LifecycleStutter
  <1>3. ASSUME NEW c \in Scopes, MakeConversation(c) \/ DeleteConversation(c)
        PROVE  [Lifecycle!Next]_(Lifecycle!lifecycle)
    BY <1>1, <1>3, LifecycleDelete DEF MakeConversation
  <1>. QED  BY <1>1, <1>2, <1>3, LifecycleSessionStep DEF Next, vars, rows

(* The rows keep what TurnLifecycle promises: a turn is begun once, every  *)
(* commit is the one write of a call that saw the turn active, or the      *)
(* restatement of one that saw it stopped, and no other step of a call     *)
(* shows.                                                                  *)
THEOREM ImplementsLifecycle == Spec => KeepsLifecycle
  <1>1. TypeOK /\ RowsInv /\ AgreementInv /\ [Next]_vars
           => [Lifecycle!Next]_(Lifecycle!lifecycle)
    BY LifecycleStep
  <1>. QED  BY <1>1, LifecycleInit, TypeCorrect, RowsInvariant, AgreementInvariant, PTL
            DEF Spec, KeepsLifecycle, Lifecycle!Spec

(***************************************************************************)
(* For the clients that implement this: what a step does to the session    *)
(***************************************************************************)

(* A turn with an exchange has an answer that is there.                    *)
LEMMA TurnHasAnswer ==
    ASSUME TypeOK, RowsInv, NEW t \in Turns, TurnExists(t), NEW b, b = turns[t].assistant
    PROVE  /\ b \in MessageIds /\ b < nextMessage /\ Message(b) = messages[b]
           /\ Message(b).role = "assistant" /\ Message(b).turn = t
           /\ Message(b).scope = turns[t].scope
           /\ AnswerOf(t) = messages[b].content
  <1>1. /\ Message(b).role = "assistant" /\ Message(b).turn = t
        /\ Message(b).scope = turns[t].scope
    BY DEF RowsInv, OneExchangePerTurn, TurnHasExchange
  <1>. QED  BY <1>1, MessagesHaveTurns DEF AnswerOf

LEMMA ReturnMoves ==
    ASSUME TypeOK, NEW s \in Sessions, NEW r, Return(s, r)
    PROVE  /\ call'[s] = NoCall /\ stage'[s] = "idle" /\ result'[s] = r
           /\ \A z \in Sessions \ {s} :
                 /\ call'[z] = call[z] /\ stage'[z] = stage[z]
                 /\ loaded'[z] = loaded[z] /\ result'[z] = result[z]
  BY DEF Return, TypeOK

LEMMA ProceedMoves ==
    ASSUME TypeOK, NEW s \in Sessions, NEW next, NEW read, Proceed(s, next, read)
    PROVE  /\ call'[s] = call[s] /\ stage'[s] = next /\ loaded'[s] = read
           /\ result'[s] = result[s]
           /\ \A z \in Sessions \ {s} :
                 /\ call'[z] = call[z] /\ stage'[z] = stage[z]
                 /\ loaded'[z] = loaded[z] /\ result'[z] = result[z]
  BY DEF Proceed, TypeOK

(* A step of a call moves nobody else, and either ends the call or leaves  *)
(* it what it is.                                                          *)
LEMMA CallMoves ==
    ASSUME TypeOK, NEW s \in Sessions, CallStep(s) \/ Fail(s)
    PROVE  /\ ~Idle(s)
           /\ \A z \in Sessions \ {s} :
                 /\ call'[z] = call[z] /\ stage'[z] = stage[z]
                 /\ loaded'[z] = loaded[z] /\ result'[z] = result[z]
           /\ Idle(s)' \/ call'[s] = call[s]
  <1>1. ~Idle(s)
    BY DEF CallStep, Fail, Idle, EnsureConversation, BeginReadTurn, BeginReadTarget,
           InsertMessageTurn, InsertReplayTurn, InsertConflict, ReadTurn, UpdateReadAssistant,
           CancelReadAssistant, FinishReadAssistant, CommitConflict, UpdateCommit,
           CancelCommit, FinishCommit
  <1>2. (\E r : Return(s, r)) \/ (\E next, read : Proceed(s, next, read))
    BY DEF CallStep, Fail, EnsureConversation, BeginReadTurn, BeginReadTarget,
           InsertMessageTurn, InsertReplayTurn, InsertConflict, ReadTurn, UpdateReadAssistant,
           CancelReadAssistant, FinishReadAssistant, CommitConflict, UpdateCommit,
           CancelCommit, FinishCommit
  <1>. QED  BY <1>1, <1>2, ReturnMoves, ProceedMoves DEF Idle
=============================================================================
