------------------------------ MODULE TurnStore ------------------------------
(***************************************************************************)
(* The durable turns of infra/persistence.py: the conversation, message,   *)
(* turn and summary rows, and the transactions of PersistenceStore that    *)
(* change them (begin_turn, update_turn_content, cancel_turn, finish_turn, *)
(* delete_conversation).                                                   *)
(*                                                                         *)
(* A method is one coroutine that awaits its SELECTs and then its COMMIT,  *)
(* so other coroutines and other processes run in between.  Here a call is *)
(* a sequence of steps of one session: it reads the turn row, reads the    *)
(* assistant row, and commits all its UPDATEs at once.  No SELECT locks    *)
(* (there is no FOR UPDATE in the code), an UPDATE names only the columns  *)
(* whose value the ORM saw change, and it writes over whatever is there:   *)
(* the code leaves the isolation level at PostgreSQL's read committed.     *)
(*                                                                         *)
(* A scope stands for one conversation together with the user who owns it; *)
(* a question stands for the query text together with its mode.            *)
(***************************************************************************)
EXTENDS Naturals

CONSTANTS
    Sessions,     \* database sessions, one per call in progress
    Scopes,       \* (user, conversation) pairs
    Turns,        \* turn ids chosen by clients
    Questions,    \* (query, mode) pairs of new messages
    Texts,        \* assistant texts
    None,         \* no row, no text, no value
    MaxMessages   \* bound: message ids that are ever allocated

ASSUME NoneAssumption == None \notin Scopes \cup Turns \cup Questions \cup Texts
ASSUME MaxMessagesAssumption == MaxMessages \in Nat

VARIABLES
    conversations,  \* scopes whose conversation row exists
    turns,          \* rows of conversation_turns
    messages,       \* rows of messages
    nextMessage,    \* next value of the message id sequence
    summary,        \* per scope, the turn its conversation summary tells of
    call,           \* per session, the method call in progress
    stage,          \* per session, the next step of that call
    loaded,         \* per session, the rows its transaction has read
    result,         \* per session, how its last call ended
    overrun         \* history: turns written to, once settled, by a call that
                    \* had read them as pending or streaming

rows == <<conversations, turns, messages, nextMessage, summary, overrun>>
vars == <<rows, call, stage, loaded, result>>

(***************************************************************************)
(* Rows                                                                    *)
(***************************************************************************)
MessageIds   == 1 .. MaxMessages
Active       == {"pending", "streaming"}
Settled      == {"complete", "stopped", "failed"}
TurnStatus   == Active \cup Settled
Contents     == Questions \cup Texts \cup {None}

TurnRow == [status : TurnStatus \cup {"absent"}, scope : Scopes \cup {None},
            query : Contents, target : 0 .. MaxMessages,
            user : 0 .. MaxMessages, assistant : 0 .. MaxMessages]

MessageRow == [role : {"absent", "user", "assistant"}, scope : Scopes \cup {None},
               turn : Turns \cup {None},
               status : TurnStatus \cup {"absent", "superseded"},
               content : Contents, supersededBy : 0 .. MaxMessages]

AbsentTurn == [status |-> "absent", scope |-> None, query |-> None,
               target |-> 0, user |-> 0, assistant |-> 0]

AbsentMessage == [role |-> "absent", scope |-> None, turn |-> None,
                  status |-> "absent", content |-> None, supersededBy |-> 0]

(* session.get(MessageRecord, id), None when there is no such row. *)
Message(m) == IF m \in MessageIds THEN messages[m] ELSE AbsentMessage

TurnExists(t) == turns[t].status # "absent"

(***************************************************************************)
(* Calls                                                                   *)
(***************************************************************************)
Call == [op : {"none", "begin", "update", "cancel", "finish"},
         scope : Scopes \cup {None}, turn : Turns \cup {None},
         query : Questions \cup {None}, target : 0 .. MaxMessages,
         content : Contents, status : Settled \cup {"none"}]

NoCall == [op |-> "none", scope |-> None, turn |-> None, query |-> None,
           target |-> 0, content |-> None, status |-> "none"]

BeginMessage(c, t, q) ==
    [NoCall EXCEPT !.op = "begin", !.scope = c, !.turn = t, !.query = q]

BeginReplay(c, t, m) ==
    [NoCall EXCEPT !.op = "begin", !.scope = c, !.turn = t, !.target = m]

UpdateContent(c, t, x) ==
    [NoCall EXCEPT !.op = "update", !.scope = c, !.turn = t, !.content = x]

CancelTurn(c, t) ==
    [NoCall EXCEPT !.op = "cancel", !.scope = c, !.turn = t]

FinishTurn(c, t, x, st) ==
    [NoCall EXCEPT !.op = "finish", !.scope = c, !.turn = t,
                   !.content = x, !.status = st]

Stages  == {"idle", "ensure", "turn", "target", "assistant", "insert", "commit"}
Results == TurnStatus \cup {"none", "missing", "refused", "error"}

NothingLoaded == [turn |-> AbsentTurn, message |-> AbsentMessage, question |-> 0]

Idle(s) == stage[s] = "idle"

LoadedRows == [turn : TurnRow, message : MessageRow, question : 0 .. MaxMessages]

(* What reaching a step says of the call and of the turn status it read.   *)
StepFits(step, op, read) ==
    /\ step \in {"ensure", "target", "insert"} => op = "begin"
    /\ step = "assistant" => read \in IF op = "update" THEN Active ELSE TurnStatus
    /\ step = "commit" => read \in IF op = "finish" THEN Active \cup {"stopped"} ELSE Active

SessionOK(s) ==
    /\ stage[s] # "idle" => call[s].scope \in Scopes /\ call[s].turn \in Turns
    /\ call[s].op = "begin" /\ call[s].target = 0 => call[s].query \in Questions
    /\ call[s].op = "finish" => call[s].status \in Settled
    /\ StepFits(stage[s], call[s].op, loaded[s].turn.status)

TypeOK ==
    /\ conversations \subseteq Scopes
    /\ turns \in [Turns -> TurnRow]
    /\ messages \in [MessageIds -> MessageRow]
    /\ nextMessage \in 1 .. MaxMessages + 1
    /\ summary \in [Scopes -> Turns \cup {None}]
    /\ call \in [Sessions -> Call]
    /\ stage \in [Sessions -> Stages]
    /\ loaded \in [Sessions -> LoadedRows]
    /\ result \in [Sessions -> Results]
    /\ overrun \subseteq Turns
    /\ \A s \in Sessions : SessionOK(s)

Init ==
    /\ conversations = {}
    /\ turns = [t \in Turns |-> AbsentTurn]
    /\ messages = [m \in MessageIds |-> AbsentMessage]
    /\ nextMessage = 1
    /\ summary = [c \in Scopes |-> None]
    /\ call = [s \in Sessions |-> NoCall]
    /\ stage = [s \in Sessions |-> "idle"]
    /\ loaded = [s \in Sessions |-> NothingLoaded]
    /\ result = [s \in Sessions |-> "none"]
    /\ overrun = {}

(***************************************************************************)
(* The life of a call                                                      *)
(***************************************************************************)
Open(s, c) ==
    /\ Idle(s)
    /\ call' = [call EXCEPT ![s] = c]
    /\ stage' = [stage EXCEPT ![s] = IF c.op = "begin" THEN "ensure" ELSE "turn"]
    /\ result' = [result EXCEPT ![s] = "none"]
    /\ UNCHANGED <<rows, loaded>>

(* The call returns or raises; its transaction is over. *)
Return(s, r) ==
    /\ call' = [call EXCEPT ![s] = NoCall]
    /\ stage' = [stage EXCEPT ![s] = "idle"]
    /\ loaded' = [loaded EXCEPT ![s] = NothingLoaded]
    /\ result' = [result EXCEPT ![s] = r]

Proceed(s, next, read) ==
    /\ stage' = [stage EXCEPT ![s] = next]
    /\ loaded' = [loaded EXCEPT ![s] = read]
    /\ UNCHANGED <<call, result>>

(* A lost connection or any other database exception: the rows stay. *)
Fail(s) ==
    /\ ~Idle(s)
    /\ Return(s, "error")
    /\ UNCHANGED rows

(***************************************************************************)
(* begin_turn                                                              *)
(***************************************************************************)
EnsureConversation(s) ==
    /\ stage[s] = "ensure"
    /\ conversations' = conversations \cup {call[s].scope}
    /\ Proceed(s, "turn", loaded[s])
    /\ UNCHANGED <<turns, messages, nextMessage, summary, overrun>>

SameRequest(row, c) ==
    /\ row.target = c.target
    /\ c.target = 0 => row.query = c.query

BeginReadTurn(s) ==
    LET c   == call[s]
        row == turns[c.turn]
    IN  /\ stage[s] = "turn"
        /\ c.op = "begin"
        /\ \/ /\ c.scope \notin conversations
              /\ Return(s, "refused")
           \/ /\ c.scope \in conversations
              /\ TurnExists(c.turn)
              /\ IF row.scope = c.scope /\ SameRequest(row, c)
                   THEN Return(s, row.status)
                   ELSE Return(s, "refused")
           \/ /\ c.scope \in conversations
              /\ ~TurnExists(c.turn)
              /\ Proceed(s, IF c.target = 0 THEN "insert" ELSE "target", loaded[s])
        /\ UNCHANGED rows

(* The user messages of the conversation that are older than m. *)
QuestionsBefore(c, m) ==
    {u \in MessageIds : u < m /\ messages[u].role = "user" /\ messages[u].scope = c}

Replayable(c, m) ==
    /\ Message(m).role = "assistant"
    /\ Message(m).scope = c
    /\ Message(m).status \in Settled

BeginReadTarget(s) ==
    LET c     == call[s]
        older == QuestionsBefore(c.scope, c.target)
    IN  /\ stage[s] = "target"
        /\ \/ /\ Replayable(c.scope, c.target)
              /\ \E u \in older :
                    /\ \A v \in older : v <= u
                    /\ Proceed(s, "insert", [loaded[s] EXCEPT !.question = u,
                                                              !.message = messages[u]])
           \/ /\ Replayable(c.scope, c.target) => older = {}
              /\ Return(s, "refused")
        /\ UNCHANGED rows

UserMessage(c) ==
    [role |-> "user", scope |-> c.scope, turn |-> c.turn,
     status |-> "complete", content |-> c.query, supersededBy |-> 0]

Placeholder(c) ==
    [role |-> "assistant", scope |-> c.scope, turn |-> c.turn,
     status |-> "pending", content |-> None, supersededBy |-> 0]

NewTurn(c, query, user, assistant) ==
    [status |-> "pending", scope |-> c.scope, query |-> query, target |-> c.target,
     user |-> user, assistant |-> assistant]

(* Fault: nothing makes a turn id unique. *)
CanReuseTurn(c) == c.scope \in conversations

(* The foreign key to conversations and the primary key of the turns. *)
CanInsert(c) == c.scope \in conversations /\ ~TurnExists(c.turn)

InsertMessageTurn(s) ==
    LET c == call[s]
    IN  /\ stage[s] = "insert"
        /\ c.target = 0
        /\ CanInsert(c)
        /\ nextMessage + 1 \in MessageIds
        /\ messages' = [messages EXCEPT ![nextMessage] = UserMessage(c),
                                        ![nextMessage + 1] = Placeholder(c)]
        /\ turns' = [turns EXCEPT ![c.turn] =
                        NewTurn(c, c.query, nextMessage, nextMessage + 1)]
        /\ nextMessage' = nextMessage + 2
        /\ Return(s, "pending")
        /\ UNCHANGED <<conversations, summary, overrun>>

InsertReplayTurn(s) ==
    LET c == call[s]
        u == loaded[s].question
    IN  /\ stage[s] = "insert"
        /\ c.target # 0
        /\ CanInsert(c)
        /\ nextMessage \in MessageIds
        /\ messages' = [messages EXCEPT ![nextMessage] = Placeholder(c)]
        /\ turns' = [turns EXCEPT ![c.turn] =
                        NewTurn(c, loaded[s].message.content, u, nextMessage)]
        /\ nextMessage' = nextMessage + 1
        /\ Return(s, "pending")
        /\ UNCHANGED <<conversations, summary, overrun>>

InsertConflict(s) ==
    /\ stage[s] = "insert"
    /\ ~CanInsert(call[s])
    /\ Return(s, "error")
    /\ UNCHANGED rows

(***************************************************************************)
(* The reads of update_turn_content, cancel_turn and finish_turn           *)
(***************************************************************************)
(* Fault: update_turn_content writes to a turn that is settled. *)
AlwaysOpenTo(c, row) == TRUE

(* Only update_turn_content looks at the status before it reads on. *)
OpenTo(c, row) == c.op = "update" => row.status \in Active

ReadTurn(s) ==
    LET c   == call[s]
        row == turns[c.turn]
        mine == TurnExists(c.turn) /\ row.scope = c.scope
    IN  /\ stage[s] = "turn"
        /\ c.op \in {"update", "cancel", "finish"}
        /\ IF mine /\ OpenTo(c, row)
             THEN Proceed(s, "assistant", [loaded[s] EXCEPT !.turn = row])
             ELSE Return(s, "missing")
        /\ UNCHANGED rows

UpdateReadAssistant(s) ==
    LET row == Message(loaded[s].turn.assistant)
    IN  /\ stage[s] = "assistant"
        /\ call[s].op = "update"
        /\ IF row.role = "absent"
             THEN Return(s, "missing")
             ELSE Proceed(s, "commit", [loaded[s] EXCEPT !.message = row])
        /\ UNCHANGED rows

CancelReadAssistant(s) ==
    LET row == Message(loaded[s].turn.assistant)
    IN  /\ stage[s] = "assistant"
        /\ call[s].op = "cancel"
        /\ IF loaded[s].turn.status \in Active
             THEN Proceed(s, "commit", [loaded[s] EXCEPT !.message = row])
             ELSE Return(s, loaded[s].turn.status)
        /\ UNCHANGED rows

FinishReadAssistant(s) ==
    LET row == Message(loaded[s].turn.assistant)
        old == loaded[s].turn.status
    IN  /\ stage[s] = "assistant"
        /\ call[s].op = "finish"
        /\ IF row.role = "absent" \/ call[s].scope \notin conversations
             THEN Return(s, "missing")
             ELSE IF old \in {"complete", "failed"}
                    THEN Return(s, old)
                    ELSE Proceed(s, "commit", [loaded[s] EXCEPT !.message = row])
        /\ UNCHANGED rows

(***************************************************************************)
(* The commits                                                             *)
(***************************************************************************)

(* The value of a column after an UPDATE: the ORM writes it only when the  *)
(* transaction changed what it had read.                                   *)
Written(read, new, current) == IF new = read THEN current ELSE new

(* Both rows still exist; that they changed since does not matter. *)
CanCommit(s) ==
    /\ TurnExists(call[s].turn)
    /\ Message(loaded[s].turn.assistant).role # "absent"

CommitConflict(s) ==
    /\ stage[s] = "commit"
    /\ ~CanCommit(s)
    /\ Return(s, "error")
    /\ UNCHANGED rows

(* The call of s saw a turn that could be written, which is settled now. *)
Overruns(s) ==
    loaded[s].turn.status \in Active /\ turns[call[s].turn].status \in Settled

WriteTurn(s, st) ==
    /\ turns' = [turns EXCEPT ![call[s].turn].status =
                     Written(loaded[s].turn.status, st, @)]
    /\ overrun' = IF Overruns(s) THEN overrun \cup {call[s].turn} ELSE overrun

WrittenMessage(s, st, x) ==
    LET now == messages[loaded[s].turn.assistant]
        old == loaded[s].message
    IN  [now EXCEPT !.status = Written(old.status, st, @),
                    !.content = Written(old.content, x, @)]

UpdateCommit(s) ==
    /\ stage[s] = "commit"
    /\ call[s].op = "update"
    /\ CanCommit(s)
    /\ WriteTurn(s, "streaming")
    /\ messages' = [messages EXCEPT ![loaded[s].turn.assistant] =
                        WrittenMessage(s, "streaming", call[s].content)]
    /\ Return(s, "streaming")
    /\ UNCHANGED <<conversations, nextMessage, summary>>

CancelCommit(s) ==
    /\ stage[s] = "commit"
    /\ call[s].op = "cancel"
    /\ CanCommit(s)
    /\ WriteTurn(s, "stopped")
    /\ messages' = [messages EXCEPT ![loaded[s].turn.assistant] =
                        WrittenMessage(s, "stopped", loaded[s].message.content)]
    /\ Return(s, "stopped")
    /\ UNCHANGED <<conversations, nextMessage, summary>>

(* Fault: finish_turn does not look for a cancellation. *)
RequestedStatus(s) == call[s].status

(* A turn that was read as stopped stays stopped, and a late completion of *)
(* it keeps the text that was there.                                       *)
FinalStatus(s) ==
    IF loaded[s].turn.status = "stopped" THEN "stopped" ELSE call[s].status

FinalContent(s) ==
    IF loaded[s].turn.status = "stopped" /\ call[s].status = "complete"
      THEN loaded[s].message.content
      ELSE call[s].content

(* Fault: any outcome of a replay hides the answer it was to replace. *)
SupersedesAnyway(s) == Message(loaded[s].turn.target).role # "absent"

Supersedes(s) ==
    LET previous == loaded[s].turn.target
    IN  /\ FinalStatus(s) = "complete"
        /\ previous # 0
        /\ Message(previous).role # "absent"
        /\ Message(previous).scope = call[s].scope

(* Fault: the new answer is hidden behind the old one. *)
SupersededBackwards(rs, previous, a) ==
    [rs EXCEPT ![a].status = "superseded", ![a].supersededBy = previous]

Superseded(rs, previous, a) ==
    [rs EXCEPT ![previous].status = "superseded", ![previous].supersededBy = a]

FinishCommit(s) ==
    LET a        == loaded[s].turn.assistant
        previous == loaded[s].turn.target
        answered == [messages EXCEPT ![a] =
                        WrittenMessage(s, FinalStatus(s), FinalContent(s))]
    IN  /\ stage[s] = "commit"
        /\ call[s].op = "finish"
        /\ CanCommit(s)
        /\ WriteTurn(s, FinalStatus(s))
        /\ messages' = IF Supersedes(s)
                         THEN Superseded(answered, previous, a)
                         ELSE answered
        /\ summary' = IF FinalStatus(s) = "complete"
                        THEN [summary EXCEPT ![call[s].scope] = call[s].turn]
                        ELSE summary
        /\ Return(s, FinalStatus(s))
        /\ UNCHANGED <<conversations, nextMessage>>

(***************************************************************************)
(* The conversation row                                                    *)
(***************************************************************************)
(* The other callers that insert it when it is missing: the ensure of      *)
(* history.load and save_case, and record_run.                             *)
MakeConversation(c) ==
    /\ conversations' = conversations \cup {c}
    /\ UNCHANGED <<turns, messages, nextMessage, summary, overrun, call, stage, loaded, result>>

(* Fault: the summary stays. *)
DeleteAllButSummary(c) ==
    /\ conversations' = conversations \ {c}
    /\ turns' = [t \in Turns |-> IF turns[t].scope = c THEN AbsentTurn ELSE turns[t]]
    /\ messages' = [m \in MessageIds |->
                       IF messages[m].scope = c THEN AbsentMessage ELSE messages[m]]
    /\ overrun' = {t \in overrun : turns[t].scope # c}
    /\ UNCHANGED <<nextMessage, summary, call, stage, loaded, result>>

DeleteConversation(c) ==
    /\ c \in conversations
    /\ conversations' = conversations \ {c}
    /\ turns' = [t \in Turns |-> IF turns[t].scope = c THEN AbsentTurn ELSE turns[t]]
    /\ messages' = [m \in MessageIds |->
                       IF messages[m].scope = c THEN AbsentMessage ELSE messages[m]]
    /\ summary' = [summary EXCEPT ![c] = None]
    /\ overrun' = {t \in overrun : turns[t].scope # c}
    /\ UNCHANGED <<nextMessage, call, stage, loaded, result>>

(***************************************************************************)
(* Any client: any call at any time, any number of calls in progress.      *)
(***************************************************************************)
ClientCall(s) ==
    \E c \in Scopes, t \in Turns :
        \/ \E q \in Questions : Open(s, BeginMessage(c, t, q))
        \/ \E m \in MessageIds : Open(s, BeginReplay(c, t, m))
        \/ \E x \in Texts : Open(s, UpdateContent(c, t, x))
        \/ Open(s, CancelTurn(c, t))
        \/ \E x \in Texts, st \in Settled : Open(s, FinishTurn(c, t, x, st))

(* One step of the call that session s has in progress. *)
CallStep(s) ==
    \/ EnsureConversation(s)
    \/ BeginReadTurn(s)
    \/ BeginReadTarget(s)
    \/ InsertMessageTurn(s)
    \/ InsertReplayTurn(s)
    \/ InsertConflict(s)
    \/ ReadTurn(s)
    \/ UpdateReadAssistant(s)
    \/ CancelReadAssistant(s)
    \/ FinishReadAssistant(s)
    \/ CommitConflict(s)
    \/ UpdateCommit(s)
    \/ CancelCommit(s)
    \/ FinishCommit(s)

SessionStep(s) == CallStep(s) \/ Fail(s)

Next ==
    \/ \E s \in Sessions : ClientCall(s) \/ SessionStep(s)
    \/ \E c \in Scopes : MakeConversation(c) \/ DeleteConversation(c)

Spec == Init /\ [][Next]_vars
-----------------------------------------------------------------------------
(***************************************************************************)
(* What holds however calls overlap                                        *)
(***************************************************************************)

TurnHasExchange(t) ==
    LET row == turns[t]
    IN  TurnExists(t) =>
          /\ Message(row.assistant).role = "assistant"
          /\ Message(row.assistant).turn = t
          /\ Message(row.assistant).scope = row.scope
          /\ row.user < row.assistant
          /\ row.target < row.assistant
          /\ row.target = 0 => Message(row.user).role = "user" /\ Message(row.user).turn = t
          /\ Message(row.user).role # "absent" =>
                /\ Message(row.user).role = "user"
                /\ Message(row.user).scope = row.scope
                /\ Message(row.user).content = row.query

MessageHasTurn(m) ==
    LET row == messages[m]
    IN  row.role # "absent" =>
          /\ row.turn \in Turns
          /\ TurnExists(row.turn)
          /\ row.role = "assistant" => turns[row.turn].assistant = m
          /\ row.role = "user" => turns[row.turn].user = m

(* One exchange per turn id: begin_turn inserts its rows together, so a    *)
(* turn has exactly one assistant message, a turn that is not a replay     *)
(* exactly one user message, older than the answer, and no message belongs *)
(* to a turn that is not there, even when two requests race with one id.   *)
(* (A replay can outlive its question: the conversation may be deleted and *)
(* made again between the replay's reads and its insert.)                  *)
OneExchangePerTurn ==
    /\ \A t \in Turns : TurnHasExchange(t)
    /\ \A m \in MessageIds : MessageHasTurn(m)

(* No row outlives its conversation: delete_conversation leaves nothing    *)
(* behind, and a begin_turn or finish_turn that it overtakes adds nothing. *)
NoOrphanRows ==
    /\ \A t \in Turns : TurnExists(t) => turns[t].scope \in conversations
    /\ \A m \in MessageIds :
          messages[m].role # "absent" => messages[m].scope \in conversations
    /\ \A c \in Scopes : summary[c] # None =>
          /\ c \in conversations
          /\ TurnExists(summary[c])
          /\ turns[summary[c]].scope = c

(* finish_turn replaces an answer only by a younger one that was asked for *)
(* as its replay, so following superseded_by_message_id ends.              *)
SupersededByItsReplay ==
    \A m \in MessageIds :
        LET k == messages[m].supersededBy
        IN  k # 0 => /\ k > m
                     /\ Message(k).role = "assistant"
                     /\ turns[Message(k).turn].target = m

(* A turn leaves complete, stopped or failed only through the commit of a  *)
(* call that had read it as pending or streaming: no call that starts      *)
(* later, and no retry of finish_turn, can undo an outcome.                *)
OnlyStaleCallsUndoOutcomes ==
    [][\A t \in Turns :
          turns[t].status \in Settled /\ turns'[t].status # turns[t].status
             => \/ turns'[t].status = "absent"
                \/ \E s \in Sessions : /\ stage[s] = "commit"
                                       /\ call[s].turn = t
                                       /\ loaded[s].turn.status \in Active]_vars

(* The history agrees with the turns: it shows for an answer the status    *)
(* its turn has, unless the answer was superseded, and an answer is hidden *)
(* and a conversation summarised only by a turn that completed.  The rows  *)
(* of a turn part only when a call that read it before its outcome writes  *)
(* after it; every other overlap of calls, however late its commits, and   *)
(* every deletion and failure keeps them together.                         *)
HistoryAgreesWithTurns ==
    /\ \A t \in Turns \ overrun : TurnExists(t) =>
          Message(turns[t].assistant).status \in {turns[t].status, "superseded"}
    /\ \A m \in MessageIds : messages[m].status = "superseded" =>
          LET t == Message(messages[m].supersededBy).turn
          IN  t \in overrun \/ turns[t].status = "complete"
    /\ \A c \in Scopes : summary[c] # None =>
          summary[c] \in overrun \/ turns[summary[c]].status = "complete"

(***************************************************************************)
(* What the rest of the program is promised of a turn: begun once, written *)
(* only by calls that saw it active, each of them once, and restated only  *)
(* by calls that saw it stopped.                                           *)
(***************************************************************************)
AnswerOf(t) == Message(turns[t].assistant).content

(* The call of s has read a turn that still is the one it read and that it *)
(* may go on to write.                                                     *)
MayWrite(s) ==
    /\ stage[s] \in {"assistant", "commit"}
    /\ TurnExists(call[s].turn)
    /\ turns[call[s].turn].assistant = loaded[s].turn.assistant
    /\ loaded[s].turn.status \in Active \cup {"stopped"}

SeenBy(s) ==
    IF MayWrite(s) THEN [turn |-> call[s].turn, status |-> loaded[s].turn.status]
                   ELSE [turn |-> None, status |-> "absent"]

Lifecycle == INSTANCE TurnLifecycle
    WITH Writers  <- Sessions,
         Answers  <- Texts,
         Nothing  <- None,
         status   <- [t \in Turns |-> turns[t].status],
         answer   <- [t \in Turns |-> AnswerOf(t)],
         seen     <- [s \in Sessions |-> SeenBy(s)]

KeepsLifecycle == Lifecycle!Spec

(***************************************************************************)
(* What the comments and tests of the code say of it                       *)
(***************************************************************************)

(* persistence.py, finish_turn: "Cancellation wins over a late completion  *)
(* from another worker."                                                   *)
CancellationWins ==
    [][\A t \in Turns :
          turns[t].status = "stopped" => turns'[t].status # "complete"]_vars
=============================================================================
