------------------------------- MODULE AnswersProofs -------------------------------
(***************************************************************************)
(* How an answer comes about, step by step: theorems about the turns of a  *)
(* conversation, for any turns and questions; about the queries of a       *)
(* question, the articles one retrieval finds and the order they keep, for *)
(* any texts, indexes and scores; about the output guardrail, for every    *)
(* request it may get; about the legal workflow, for any budgets and every *)
(* reply; and about the gate that admits the evidence, for any             *)
(* instruments.                                                            *)
(***************************************************************************)
EXTENDS Conversation, RetrievalQueries, EnsembleRetrieval, Retrieval, EvidenceGate, OutputGuard,
        LegalWorkflow, RanksProofs

(***************************************************************************)
(* The turns of a conversation                                             *)
(***************************************************************************)

TalkPlaces == {"begin", "history", "load_case", "clarify", "route", "case", "ordinary", "general",
               "persist", "answer", "fail", "failure", "save", "done"}

(* Where a turn has no ending yet. *)
Deciding == {"begin", "history", "load_case", "clarify", "route", "case", "ordinary", "general"}

Snapshots  == [last : LastExchanges, case : BOOLEAN, again : BOOLEAN]
Endings    == [safeStop : BOOLEAN, case : {"kept", "saved", "cleared"}]
CaseStates == {"none", "open", "completed"}

TalkTypes ==
    /\ at \in [ConversationTurns -> TalkPlaces]
    /\ seen \in [ConversationTurns -> Snapshots]
    /\ ending \in [ConversationTurns -> Endings]
    /\ turnStatus \in [ConversationTurns -> {"none", "pending", "complete", "failed", "stopped"}]
    /\ case \in CaseStates /\ witnessed \in [ConversationTurns -> CaseStates]

(* A case that is shown to a turn, or that it is going to save, was open   *)
(* when it read it; and it reads it only while it has no ending.           *)
ReadsHold(t) ==
    /\ seen[t].case \/ ending[t].case = "saved" => witnessed[t] = "open"
    /\ at[t] \in Deciding => ending[t].case = "kept"

(* The case is written after the answer is stored, by a turn that nothing  *)
(* but a Stop changes any more.                                            *)
WritesFollow(t) ==
    /\ at[t] = "save" \/ t \in touched => t \in answered
    /\ t \in answered => at[t] \in {"save", "done"} /\ turnStatus[t] \in {"complete", "stopped"}

TalkInv == TalkTypes /\ \A t \in ConversationTurns : ReadsHold(t) /\ WritesFollow(t)

LEMMA TalkStart == TalkInit => TalkInv
  <1>. SUFFICES ASSUME TalkInit PROVE TalkInv
    OBVIOUS
  <1>1. Unread \in Snapshots /\ ~Unread.case /\ NoEnding \in Endings /\ NoEnding.case = "kept"
    BY DEF Unread, Snapshots, LastExchanges, NoEnding, Endings
  <1>2. TalkTypes
    BY <1>1 DEF TalkInit, TalkTypes, TalkPlaces, CaseStates
  <1>3. \A t \in ConversationTurns : at[t] = "begin" /\ seen[t] = Unread /\ ending[t] = NoEnding
    BY DEF TalkInit
  <1>4. touched = {} /\ answered = {}
    BY DEF TalkInit
  <1>. QED  BY <1>1, <1>2, <1>3, <1>4 DEF TalkInv, ReadsHold, WritesFollow

(* A turn that has not gone past its ending is in nobody's way. *)
LEMMA TalkEnding ==
    ASSUME TalkInv, NEW t \in ConversationTurns, NEW how \in Endings, NEW place \in {"persist", "fail"},
           at[t] \in Deciding, how.case = "saved" => seen[t].case,
           Ends(t, how, place), UNCHANGED <<case, witnessed, touched, answered>>,
           turnStatus' = turnStatus \/ (at[t] = "begin" /\ turnStatus' = [turnStatus EXCEPT ![t] = "pending"])
    PROVE  TalkInv'
  <1>. USE DEF TalkInv
  <1>1. /\ at' = [at EXCEPT ![t] = place]
        /\ ending' = [ending EXCEPT ![t] = how]
        /\ seen' = [seen EXCEPT ![t] = Unread]
    BY DEF Ends, Goes
  <1>2. Unread \in Snapshots /\ ~Unread.case
    BY DEF Unread, Snapshots, LastExchanges
  <1>3. TalkTypes'
    BY <1>1, <1>2 DEF TalkTypes, TalkPlaces
  <1>4. \A u \in ConversationTurns : ReadsHold(u)'
    BY <1>1, <1>2 DEF TalkTypes, ReadsHold, Deciding
  <1>5. \A u \in ConversationTurns : WritesFollow(u)'
    BY <1>1 DEF TalkTypes, WritesFollow, Deciding
  <1>. QED  BY <1>3, <1>4, <1>5

(* Between two places without an ending it may only read. *)
LEMMA TalkDeciding ==
    ASSUME TalkInv, NEW t \in ConversationTurns, NEW place \in Deciding,
           at[t] \in Deciding, Goes(t, place), NEW context \in Snapshots, NEW read \in CaseStates,
           context.case => read = "open",
           seen' = [seen EXCEPT ![t] = context], witnessed' = [witnessed EXCEPT ![t] = read],
           UNCHANGED <<ending, case, touched, answered>>,
           turnStatus' = turnStatus \/ (at[t] = "begin" /\ turnStatus' = [turnStatus EXCEPT ![t] = "pending"])
    PROVE  TalkInv'
  <1>. USE DEF TalkInv
  <1>1. at' = [at EXCEPT ![t] = place]
    BY DEF Goes
  <1>2. TalkTypes'
    BY <1>1 DEF TalkTypes, TalkPlaces, Deciding
  <1>3. \A u \in ConversationTurns : ReadsHold(u)'
    BY <1>1 DEF TalkTypes, ReadsHold
  <1>4. \A u \in ConversationTurns : WritesFollow(u)'
    BY <1>1 DEF TalkTypes, WritesFollow, Deciding
  <1>. QED  BY <1>2, <1>3, <1>4

(* What a turn keeps of its reads. *)
LEMMA ReadsKept ==
    ASSUME TalkInv, NEW t \in ConversationTurns
    PROVE  /\ seen[t] \in Snapshots /\ witnessed[t] \in CaseStates
           /\ seen[t].case => witnessed[t] = "open"
           /\ UNCHANGED seen => seen' = [seen EXCEPT ![t] = seen[t]]
           /\ UNCHANGED witnessed => witnessed' = [witnessed EXCEPT ![t] = witnessed[t]]
  BY DEF TalkInv, TalkTypes, ReadsHold

LEMMA DeclinedIs ==
    ASSUME NEW becomes \in {"kept", "saved", "cleared"}
    PROVE  Declined(becomes) \in Endings /\ Declined(becomes).case = becomes
  BY DEF Declined, Endings

-------------------------------------------------------------------------------
LEMMA TalkBeginning ==
    ASSUME TalkInv, NEW t \in ConversationTurns, Begin(t)
    PROVE  TalkInv'
  <1>1. /\ at[t] = "begin" /\ at[t] \in Deciding /\ "history" \in Deciding
        /\ turnStatus' = [turnStatus EXCEPT ![t] = "pending"]
        /\ UNCHANGED <<case, witnessed, touched, answered>>
    BY DEF Begin, Deciding, caseRow
  <1>2. CASE asked[t].empty
    <2>1. Ends(t, Declined("kept"), "persist")
      BY <1>2 DEF Begin
    <2>. QED  BY <1>1, <2>1, DeclinedIs, TalkEnding
  <1>3. CASE ~asked[t].empty
    <2>1. Goes(t, "history") /\ UNCHANGED <<seen, ending>>
      BY <1>3 DEF Begin
    <2>. QED  BY <1>1, <2>1, ReadsKept, TalkDeciding
  <1>. QED  BY <1>2, <1>3

LEMMA TalkReading ==
    ASSUME TalkInv, NEW t \in ConversationTurns, LoadHistory(t) \/ LoadCase(t)
    PROVE  TalkInv'
  <1>0. "load_case" \in Deciding /\ "clarify" \in Deciding /\ "history" \in Deciding
    BY DEF Deciding
  <1>1. CASE LoadHistory(t)
    <2>1. PICK last \in LastExchanges : seen' = [seen EXCEPT ![t].last = last]
      BY <1>1 DEF LoadHistory
    <2>2. /\ [seen[t] EXCEPT !.last = last] \in Snapshots
          /\ [seen[t] EXCEPT !.last = last].case = seen[t].case
          /\ seen' = [seen EXCEPT ![t] = [seen[t] EXCEPT !.last = last]]
      BY <2>1, ReadsKept DEF Snapshots
    <2>3. at[t] = "history" /\ Goes(t, "load_case")
          /\ UNCHANGED <<ending, turnStatus, case, witnessed, touched, answered>>
      BY <1>1 DEF LoadHistory, turnRows, caseRow
    <2>. QED  BY <1>0, <2>2, <2>3, ReadsKept, TalkDeciding
  <1>2. CASE LoadCase(t)
    <2>1. case \in CaseStates
      BY DEF TalkInv, TalkTypes
    <2>2. ShownCase(case) \in BOOLEAN /\ (ShownCase(case) => case = "open")
      BY <2>1 DEF ShownCase, CaseStates
    <2>3. PICK shown \in BOOLEAN : shown = ShownCase(case)
      BY <2>2
    <2>4. seen' = [seen EXCEPT ![t].case = shown] /\ witnessed' = [witnessed EXCEPT ![t] = case]
      BY <1>2, <2>3 DEF LoadCase
    <2>5. /\ [seen[t] EXCEPT !.case = shown] \in Snapshots
          /\ [seen[t] EXCEPT !.case = shown].case = shown
          /\ seen' = [seen EXCEPT ![t] = [seen[t] EXCEPT !.case = shown]]
      BY <2>4, ReadsKept DEF Snapshots
    <2>6. at[t] = "load_case" /\ Goes(t, "clarify")
          /\ UNCHANGED <<ending, turnStatus, case, touched, answered>>
      BY <1>2 DEF LoadCase, turnRows
    <2>. QED  BY <1>0, <2>1, <2>2, <2>3, <2>4, <2>5, <2>6, TalkDeciding
  <1>. QED  BY <1>1, <1>2

LEMMA TalkRouting ==
    ASSUME TalkInv, NEW t \in ConversationTurns,
           Clarify(t) \/ TakeTurnRoute(t) \/ TakeCaseRoute(t) \/ RunWorkflow(t)
    PROVE  TalkInv'
  <1>0. /\ UNCHANGED <<case, witnessed, touched, answered, turnStatus>>
        /\ at[t] \in Deciding
    BY DEF Clarify, TakeTurnRoute, TakeCaseRoute, RunWorkflow, turnRows, caseRow, Deciding
  <1>1. NoEnding \in Endings /\ NoEnding.case = "kept" /\ {"case", "route", "history", "ordinary", "general"} \subseteq Deciding
    BY DEF NoEnding, Endings, Deciding
  <1>2. CASE \E place \in Deciding : Goes(t, place) /\ UNCHANGED <<seen, ending>>
    BY <1>0, <1>2, ReadsKept, TalkDeciding
  <1>3. CASE Goes(t, "history") /\ seen' = [seen EXCEPT ![t] = [Unread EXCEPT !.again = TRUE]] /\ UNCHANGED ending
    <2>1. [Unread EXCEPT !.again = TRUE] \in Snapshots /\ ~[Unread EXCEPT !.again = TRUE].case
      BY DEF Unread, Snapshots, LastExchanges
    <2>. QED  BY <1>0, <1>1, <1>3, <2>1, ReadsKept, TalkDeciding
  <1>4. CASE \E becomes \in {"kept", "saved"} :
                Ends(t, Declined(becomes), "persist") /\ (becomes = "saved" => seen[t].case)
    BY <1>0, <1>4, DeclinedIs, TalkEnding
  <1>5. CASE Clarify(t)
    <2>1. CASE Unresolved(asked[t], seen[t])
      BY <1>4, <1>5, <2>1 DEF Clarify
    <2>2. CASE ~Unresolved(asked[t], seen[t])
      BY <1>1, <1>2, <1>5, <2>2 DEF Clarify
    <2>. QED  BY <2>1, <2>2
  <1>6. CASE TakeTurnRoute(t)
    <2>1. \/ Goes(t, "history") /\ seen' = [seen EXCEPT ![t] = [Unread EXCEPT !.again = TRUE]] /\ UNCHANGED ending
          \/ Ends(t, Declined("kept"), "persist")
          \/ Ends(t, Declined(IF seen[t].case THEN "saved" ELSE "kept"), "persist")
          \/ Goes(t, "ordinary") /\ UNCHANGED <<seen, ending>>
      BY <1>6 DEF TakeTurnRoute
    <2>. QED  BY <1>1, <1>2, <1>3, <1>4, <2>1
  <1>7. CASE TakeCaseRoute(t)
    BY <1>1, <1>2, <1>7 DEF TakeCaseRoute
  <1>8. CASE RunWorkflow(t)
    <2>1. \/ \E how \in Endings : how.case # "saved" /\ Ends(t, how, "persist")
          \/ Ends(t, NoEnding, "fail")
      BY <1>8 DEF RunWorkflow, Endings
    <2>. QED  BY <1>0, <1>1, <2>1, TalkEnding
  <1>. QED  BY <1>5, <1>6, <1>7, <1>8

LEMMA TalkFinishing ==
    ASSUME TalkInv, NEW t \in ConversationTurns,
           FindTurn(t) \/ StoreAnswer(t) \/ AnswerFails(t) \/ StoreFailure(t)
    PROVE  TalkInv'
  <1>. USE DEF TalkInv
  <1>0. NoEnding \in Endings /\ NoEnding.case = "kept"
    BY DEF NoEnding, Endings
  <1>1. /\ UNCHANGED <<seen, case, witnessed, touched>> /\ at[t] \in {"persist", "answer", "fail", "failure"}
    BY DEF FindTurn, StoreAnswer, AnswerFails, StoreFailure, turnRows, caseRow
  <1>2. \E place \in {"answer", "fail", "failure", "save", "done"} :
           /\ at' = [at EXCEPT ![t] = place]
           /\ place = "save" => at[t] = "answer"
    BY DEF FindTurn, StoreAnswer, AnswerFails, StoreFailure, Goes, GoesOver, AfterFinish
  <1>3. ending' = ending \/ ending' = [ending EXCEPT ![t] = NoEnding]
    BY DEF FindTurn, StoreAnswer, AnswerFails, StoreFailure, GoesOver
  <1>4. /\ \E st \in {"complete", "failed", "stopped"} :
              turnStatus' = turnStatus \/ turnStatus' = [turnStatus EXCEPT ![t] = st]
        /\ \/ answered' = answered /\ at'[t] # "save"
           \/ answered' = answered \cup {t} /\ turnStatus'[t] = "complete" /\ at'[t] \in {"save", "done"}
    <2>1. CASE StoreAnswer(t)
      <3>1. PICK st \in {"complete", "stopped"} : st = Finished(statusRead[t], "complete")
        BY DEF Finished
      <3>2. /\ turnStatus' = [turnStatus EXCEPT ![t] = st]
            /\ answered' = IF st = "complete" THEN answered \cup {t} ELSE answered
            /\ at' = [at EXCEPT ![t] = AfterFinish(st)]
        BY <2>1, <3>1 DEF StoreAnswer, GoesOver, Goes
      <3>. QED  BY <3>2 DEF AfterFinish, TalkTypes
    <2>2. CASE StoreFailure(t)
      <3>1. turnStatus' = [turnStatus EXCEPT ![t] = Finished(statusRead[t], "failed")] /\ UNCHANGED answered
            /\ at' = [at EXCEPT ![t] = "done"]
        BY <2>2 DEF StoreFailure, GoesOver, Goes
      <3>2. Finished(statusRead[t], "failed") \in {"failed", "stopped"}
        BY DEF Finished
      <3>. QED  BY <3>1, <3>2 DEF TalkTypes
    <2>3. CASE FindTurn(t) \/ AnswerFails(t)
      BY <2>3 DEF FindTurn, AnswerFails, Goes, turnRows, TalkTypes
    <2>. QED  BY <2>1, <2>2, <2>3
  <1>5. TalkTypes'
    BY <1>0, <1>1, <1>2, <1>3, <1>4 DEF TalkTypes, TalkPlaces
  <1>6. \A u \in ConversationTurns : ReadsHold(u)'
    BY <1>0, <1>1, <1>2, <1>3 DEF TalkTypes, ReadsHold, Deciding
  <1>7. t \notin answered /\ t \notin touched
    BY <1>1 DEF WritesFollow
  <1>8. \A u \in ConversationTurns : WritesFollow(u)'
    BY <1>1, <1>2, <1>4, <1>7 DEF TalkTypes, WritesFollow
  <1>. QED  BY <1>5, <1>6, <1>8

LEMMA TalkWriting ==
    ASSUME TalkInv, NEW t \in ConversationTurns,
           WriteCase(t) \/ CaseWriteFails(t) \/ ReadStop(t) \/ StopTurn(t)
    PROVE  TalkInv'
  <1>. USE DEF TalkInv
  <1>1. CASE WriteCase(t) \/ CaseWriteFails(t)
    <2>1. /\ at[t] = "save" /\ UNCHANGED <<seen, turnStatus, answered, witnessed>>
          /\ at' = [at EXCEPT ![t] = "done"] /\ ending' = [ending EXCEPT ![t] = NoEnding]
          /\ touched' \subseteq touched \cup {t} /\ case' \in {case, "completed", "open"}
      BY <1>1 DEF WriteCase, CaseWriteFails, GoesOver, Goes, caseRow
    <2>2. NoEnding \in Endings /\ NoEnding.case = "kept"
      BY DEF NoEnding, Endings
    <2>3. TalkTypes'
      BY <2>1, <2>2 DEF TalkTypes, TalkPlaces, CaseStates
    <2>4. \A u \in ConversationTurns : ReadsHold(u)'
      BY <2>1, <2>2 DEF TalkTypes, ReadsHold, Deciding
    <2>5. \A u \in ConversationTurns : WritesFollow(u)'
      BY <2>1 DEF TalkTypes, WritesFollow
    <2>. QED  BY <2>3, <2>4, <2>5
  <1>2. CASE ReadStop(t) \/ StopTurn(t)
    <2>1. /\ UNCHANGED <<at, seen, ending, answered, case, witnessed, touched>>
          /\ turnStatus' = turnStatus \/ turnStatus' = [turnStatus EXCEPT ![t] = "stopped"]
      BY <1>2 DEF ReadStop, StopTurn, caseRow
    <2>2. TalkTypes'
      BY <2>1 DEF TalkTypes
    <2>3. \A u \in ConversationTurns : ReadsHold(u)' /\ WritesFollow(u)'
      BY <2>1 DEF TalkTypes, ReadsHold, WritesFollow
    <2>. QED  BY <2>2, <2>3
  <1>. QED  BY <1>1, <1>2

LEMMA TalkStep == TalkInv /\ [TalkNext]_talkVars => TalkInv'
  <1>1. TalkInv /\ UNCHANGED talkVars => TalkInv'
    BY DEF TalkInv, TalkTypes, ReadsHold, WritesFollow, talkVars, turnRows, caseRow
  <1>. QED  BY <1>1, TalkBeginning, TalkReading, TalkRouting, TalkFinishing, TalkWriting DEF TalkNext

LEMMA TalkStaysSafe == TalkSpec => []TalkInv
  BY TalkStart, TalkStep, PTL DEF TalkSpec

-------------------------------------------------------------------------------
(* No turn writes the case whose answer was not stored as complete before, *)
(* and only a Stop can have changed its outcome since, however the turns   *)
(* of a conversation, Stop and failures interleave.                        *)
THEOREM CaseFollowsAnswer == TalkSpec => []CaseFollowsAnAnswer
  <1>1. TalkInv /\ touched \subseteq ConversationTurns => CaseFollowsAnAnswer
    BY DEF TalkInv, WritesFollow, CaseFollowsAnAnswer
  <1>2. TalkInit => touched \subseteq ConversationTurns
    BY DEF TalkInit
  <1>3. touched \subseteq ConversationTurns /\ [TalkNext]_talkVars => (touched \subseteq ConversationTurns)'
    BY DEF TalkNext, Begin, LoadHistory, LoadCase, Clarify, TakeTurnRoute, TakeCaseRoute, RunWorkflow,
           FindTurn, StoreAnswer, WriteCase, AnswerFails, StoreFailure, CaseWriteFails, ReadStop, StopTurn,
           talkVars, caseRow
  <1>. QED  BY <1>1, <1>2, <1>3, TalkStaysSafe, PTL DEF TalkSpec

(* A completed case is opened again only by a turn that read it while it   *)
(* was open.                                                               *)
THEOREM CompletedCasesHidden == TalkSpec => CompletedCasesStayHidden
  <1>1. ASSUME TalkInv, [TalkNext]_talkVars, case = "completed", case' # "completed"
        PROVE  \E t \in ConversationTurns : at[t] = "save" /\ witnessed[t] = "open"
    <2>1. PICK t \in ConversationTurns : WriteCase(t)
      BY <1>1 DEF TalkNext, Begin, LoadHistory, LoadCase, Clarify, TakeTurnRoute, TakeCaseRoute, RunWorkflow,
           FindTurn, StoreAnswer, AnswerFails, StoreFailure, CaseWriteFails, ReadStop, StopTurn,
           talkVars, caseRow
    <2>2. at[t] = "save" /\ ending[t].case = "saved"
      BY <1>1, <2>1 DEF WriteCase
    <2>. QED  BY <1>1, <2>2 DEF TalkInv, ReadsHold
  <1>2. TalkInv /\ [TalkNext]_talkVars =>
          [case = "completed" /\ case' # "completed" =>
             \E t \in ConversationTurns : at[t] = "save" /\ witnessed[t] = "open"]_talkVars
    BY <1>1
  <1>. QED  BY <1>2, TalkStaysSafe, PTL DEF TalkSpec, CompletedCasesStayHidden

(***************************************************************************)
(* The queries of a question                                               *)
(***************************************************************************)

QuestionOf ==
    /\ question.original \in Queries /\ question.standalone \in Queries
    /\ question.proposed \in Seq(Queries)

Allowed == question.original.names \cup question.standalone.names

(* Candidates that _build_retrieval_queries does not turn down. *)
Admitted == {q \in Queries : Preserve(question.original, q).names \subseteq Allowed}

(* A query that may be asked. *)
Keeps(q) ==
    /\ q \in Queries
    /\ q.long => q.names \ Allowed \subseteq {n \div 10 : n \in question.original.names}
    /\ ~q.long => q.names \subseteq Allowed /\ \A n \in question.original.names : Reads(q, n)

(* What the code has before and after the queries are built. *)
QueriesInv ==
    /\ QuestionOf
    /\ queries # << >> => /\ queries \in Seq(Queries) /\ queries[1] = question.original
                          /\ \A i \in DOMAIN queries : Keeps(queries[i])

LEMMA PreserveIs ==
    ASSUME NEW q \in Queries, NEW original \in Queries
    PROVE  /\ Preserve(original, q).names = q.names \cup {n \in original.names : ~Reads(q, n)}
           /\ Preserve(original, original).names = original.names
  <1>1. Preserve(original, q).names = q.names \cup {n \in original.names : ~Reads(q, n)}
    BY DEF Preserve, Queries
  <1>2. {n \in original.names : ~Reads(original, n)} = {}
    BY DEF Reads
  <1>3. Preserve(original, original).names = original.names \cup {n \in original.names : ~Reads(original, n)}
    BY DEF Preserve, Queries
  <1>. QED  BY <1>1, <1>2, <1>3

(* What is attached to a query and cut leaves it a query that may be asked; *)
(* the question itself stays as it is.                                      *)
LEMMA RemainsAre ==
    ASSUME QuestionOf, NEW q \in Admitted, NEW rest \in Remains(q),
           NEW cut, cut = [q EXCEPT !.names = q.names \cup rest]
    PROVE  /\ Keeps(cut)
           /\ q = question.original => cut = q
  <1>1. PICK o \in Queries : o = question.original
    BY DEF QuestionOf
  <1>2. q \in Queries /\ Preserve(o, q).names \subseteq Allowed
    BY <1>1 DEF Admitted
  <1>3. PICK attached : attached = Preserve(o, q).names \ q.names
    OBVIOUS
  <1>4. /\ q.names \cup attached = Preserve(o, q).names
        /\ attached \subseteq {n \in o.names : ~Reads(q, n)}
        /\ q.names \cup attached \subseteq Allowed
        /\ \A n \in o.names : ~Reads(q, n) => n \in q.names \cup attached
    BY <1>2, <1>3, PreserveIs
  <1>5. rest \in IF q.long THEN CutShort(attached) ELSE {attached}
    BY <1>1, <1>3 DEF Remains
  <1>6. attached \subseteq o.names /\ o.names \subseteq Articles /\ Articles \subseteq Nat
    BY <1>4, QueriesAssumption DEF Queries
  <1>7. CASE ~q.long
    <2>1. rest = attached
      BY <1>5, <1>7
    <2>2. cut = [words |-> q.words, names |-> q.names \cup attached, long |-> q.long]
      BY <1>2, <2>1 DEF Queries
    <2>3. cut \in Queries /\ cut.names = q.names \cup attached /\ ~cut.long
      BY <1>2, <1>6, <1>7, <2>2 DEF Queries
    <2>4. \A n \in o.names : Reads(cut, n)
      BY <1>4, <2>3 DEF Reads
    <2>5. Keeps(cut)
      BY <1>1, <1>4, <2>3, <2>4 DEF Keeps
    <2>6. q = o => cut = q
      <3>1. q = o => attached = {}
        BY <1>3, PreserveIs
      <3>. QED  BY <1>2, <2>2, <3>1 DEF Queries
    <2>. QED  BY <1>1, <2>5, <2>6
  <1>8. CASE q.long
    <2>1. PICK left \in SUBSET attached, last \in Beginnings(attached) : rest = left \cup last
      BY <1>5, <1>8 DEF CutShort
    <2>2. /\ last \subseteq {n \div 10 : n \in o.names}
          /\ last \subseteq Articles
      <3>1. \A n \in attached : n >= 10 => n \div 10 \in Articles
        BY <1>6, QueriesAssumption
      <3>2. last = {} \/ \E n \in attached : n >= 10 /\ last = {n \div 10}
        BY <2>1 DEF Beginnings
      <3>. QED  BY <1>6, <3>1, <3>2
    <2>3. cut = [words |-> q.words, names |-> q.names \cup left \cup last, long |-> q.long]
      BY <1>2, <2>1 DEF Queries
    <2>4. cut \in Queries /\ cut.names = q.names \cup left \cup last /\ cut.long
      BY <1>2, <1>6, <1>8, <2>2, <2>3 DEF Queries
    <2>5. cut.names \ Allowed \subseteq {n \div 10 : n \in o.names}
      BY <1>4, <2>2, <2>4
    <2>6. Keeps(cut)
      BY <1>1, <2>4, <2>5 DEF Keeps
    <2>7. q = o => cut = q
      <3>1. q = o => attached = {}
        BY <1>3, PreserveIs
      <3>2. attached = {} => left = {} /\ last = {}
        BY <2>1 DEF Beginnings
      <3>. QED  BY <1>2, <2>3, <3>1, <3>2 DEF Queries
    <2>. QED  BY <1>1, <2>6, <2>7
  <1>. QED  BY <1>7, <1>8

LEMMA SearchQueriesKeep ==
    ASSUME QuestionOf
    PROVE  /\ SearchQueries \in Seq(Admitted) /\ SearchQueries # << >>
           /\ SearchQueries[1] = question.original
  <1>. DEFINE proposals == <<question.original>> \o question.proposed \o <<question.standalone>>
              Chain(g)  == g = [i \in 0 .. Len(proposals) |->
                                  IF i = 0 THEN << >>
                                  ELSE IF /\ Len(g[i - 1]) < 3
                                          /\ Preserve(question.original, proposals[i]).names \subseteq
                                                 question.original.names \cup question.standalone.names
                                          /\ proposals[i] \notin Range(g[i - 1])
                                         THEN Append(g[i - 1], proposals[i]) ELSE g[i - 1]]
  <1>1. PICK o \in Queries, s \in Queries, p \in Seq(Queries) :
            o = question.original /\ s = question.standalone /\ p = question.proposed
    BY DEF QuestionOf
  <1>2. proposals = <<o>> \o p \o <<s>>
    BY <1>1
  <1>a. SearchQueries = (CHOOSE g : Chain(g))[Len(proposals)]
    BY DEF SearchQueries, Collected
  <1>. HIDE DEF proposals
  <1>3. proposals \in Seq(Queries) /\ proposals[1] = o /\ Len(proposals) \in Nat /\ Len(proposals) >= 1
        /\ DOMAIN proposals = 1 .. Len(proposals)
    <2>1. <<o>> \in Seq(Queries) /\ Len(<<o>>) = 1 /\ <<s>> \in Seq(Queries) /\ Len(<<s>>) = 1 /\ Len(p) \in Nat
      OBVIOUS
    <2>2. /\ <<o>> \o p \in Seq(Queries) /\ Len(<<o>> \o p) = 1 + Len(p)
          /\ (<<o>> \o p)[1] = o
      BY <2>1, ConcatProperties
    <2>3. /\ proposals \in Seq(Queries) /\ Len(proposals) = 1 + Len(p) + 1
          /\ proposals[1] = o
      BY <1>2, <2>1, <2>2, ConcatProperties
    <2>. QED  BY <2>1, <2>3
  <1>4. PICK A : A = Admitted
    OBVIOUS
  <1>5. A \subseteq Queries /\ o \in A
        /\ \A q \in Queries : q \in A <=> Preserve(question.original, q).names \subseteq
                                                question.original.names \cup question.standalone.names
    BY <1>1, <1>4, PreserveIs DEF Admitted, Allowed
  <1>6. \A i \in 1 .. Len(proposals) : proposals[i] \in Queries
    BY <1>3
  <1>8. PICK J : J = {x \in Seq(Queries) \X Queries : Len(x[1]) < 3 /\ x[2] \in A /\ x[2] \notin Range(x[1])}
    OBVIOUS
  <1>9. << >> \in Seq(Queries)
    OBVIOUS
  <1>10. PICK f \in [0 .. Len(proposals) -> Seq(Queries)] : Collects(f, << >>, proposals, J)
    BY <1>3, <1>9, CollectsExists
  <1>11. Chain(f)
    <2>1. f = [i \in 0 .. Len(proposals) |->
                 IF i = 0 THEN << >>
                 ELSE IF <<f[i - 1], proposals[i]>> \in J THEN Append(f[i - 1], proposals[i]) ELSE f[i - 1]]
      BY <1>10 DEF Collects
    <2>2. ASSUME NEW i \in 0 .. Len(proposals), i # 0
          PROVE  <<f[i - 1], proposals[i]>> \in J <=>
                     /\ Len(f[i - 1]) < 3
                     /\ Preserve(question.original, proposals[i]).names \subseteq
                            question.original.names \cup question.standalone.names
                     /\ proposals[i] \notin Range(f[i - 1])
      <3>1. i - 1 \in 0 .. Len(proposals) /\ i \in 1 .. Len(proposals)
        BY <1>3, <2>2
      <3>2. f[i - 1] \in Seq(Queries) /\ proposals[i] \in Queries
        BY <1>6, <1>10, <3>1
      <3>. QED  BY <1>5, <1>8, <3>2
    <2>. QED  BY <2>1, <2>2
  <1>12. PICK met : Chain(met) /\ SearchQueries = met[Len(proposals)]
    <2>. HIDE DEF Chain
    <2>. QED  BY <1>a, <1>11, Zenon
  <1>13. PICK T : T = {m \in Seq(A) : m # << >> /\ m[1] = o}
    OBVIOUS
  <1>14. PICK n \in Nat : n = Len(proposals) /\ n >= 1
    BY <1>3
  <1>15. PICK U : U = {i \in 0 .. n : (i = 0 /\ met[i] = << >>) \/ met[i] \in T}
    OBVIOUS
  <1>16. met[0] = << >>
    BY <1>12, <1>14
  <1>17. ASSUME NEW i \in 1 .. n
         PROVE  met[i] = IF Len(met[i - 1]) < 3 /\ proposals[i] \in A /\ proposals[i] \notin Range(met[i - 1])
                           THEN Append(met[i - 1], proposals[i]) ELSE met[i - 1]
    <2>1. i \in 0 .. Len(proposals) /\ i # 0 /\ proposals[i] \in Queries
      BY <1>6, <1>14
    <2>. QED  BY <1>5, <1>12, <2>1
  <1>18. ASSUME NEW i \in 1 .. n, i - 1 \in U PROVE i \in U
    <2>1. CASE i = 1
      <3>1. met[1] = << o >>
        <4>1. Len(<< >>) = 0 /\ Range(<< >>) = {} /\ Append(<< >>, o) = << o >>
          BY DEF Range
        <4>2. 1 \in 1 .. n /\ 1 - 1 = 0
          BY <1>14
        <4>3. met[1] = IF Len(met[0]) < 3 /\ proposals[1] \in A /\ proposals[1] \notin Range(met[0])
                         THEN Append(met[0], proposals[1]) ELSE met[0]
          BY <1>17, <4>2
        <4>4. 0 < 3 /\ o \notin {}
          OBVIOUS
        <4>. QED  BY <1>3, <1>5, <1>16, <4>1, <4>3, <4>4
      <3>2. << o >> \in Seq(A) /\ << o >> # << >> /\ << o >>[1] = o
        BY <1>5
      <3>3. met[i] \in T
        BY <1>13, <2>1, <3>1, <3>2
      <3>. QED  BY <1>15, <3>3
    <2>2. CASE i # 1
      <3>1. PICK m \in T : m = met[i - 1]
        BY <1>15, <1>18, <2>2
      <3>2. m \in Seq(A) /\ m # << >> /\ m[1] = o
        BY <1>13
      <3>3. CASE proposals[i] \in A /\ met[i] = Append(m, proposals[i])
        <4>1. PICK q \in A : q = proposals[i]
          BY <3>3
        <4>2. PICK more \in Seq(A) : more = Append(m, q)
          BY <3>2, AppendProperties
        <4>3. more # << >> /\ more[1] = o
          <5>1. Len(m) \in Nat /\ Len(m) >= 1
            BY <3>2
          <5>2. Len(more) = Len(m) + 1 /\ \A j \in 1 .. Len(m) : more[j] = m[j]
            BY <3>2, <4>2, AppendProperties
          <5>. QED  BY <3>2, <5>1, <5>2
        <4>4. met[i] \in T
          BY <1>13, <3>3, <4>1, <4>2, <4>3
        <4>. QED  BY <1>15, <4>4
      <3>4. CASE met[i] = m
        BY <1>15, <3>4
      <3>. QED  BY <1>17, <3>1, <3>3, <3>4
    <2>. QED  BY <2>1, <2>2
  <1>19. \A i \in 0 .. n : i \in U
    <2>1. 0 \in U
      BY <1>14, <1>15, <1>16
    <2>. QED  BY <1>18, <2>1, UpTo
  <1>20. SearchQueries \in T
    <2>1. n \in U /\ n # 0
      BY <1>14, <1>19
    <2>. QED  BY <1>12, <1>14, <1>15, <2>1
  <1>. QED  BY <1>1, <1>4, <1>13, <1>20

(* Whatever is proposed and rewritten, the queries that are asked keep what *)
(* the question names as far as they have room for it:                     *)
(* _build_retrieval_queries and preserve_explicit_anchors, for any number  *)
(* of proposals.                                                           *)
THEOREM QueriesAreSound == QueriesSpec => []QueriesKeepTheQuestion
  <1>1. QueriesInit => QueriesInv
    <2>. SUFFICES ASSUME QueriesInit PROVE QueriesInv
      OBVIOUS
    <2>1. /\ question \in [original : Queries, standalone : Queries,
                            proposed : UNION {[1 .. n -> Queries] : n \in 0 .. MostProposed}]
          /\ queries = << >>
      BY DEF QueriesInit
    <2>2. question.original \in Queries /\ question.standalone \in Queries
      BY <2>1
    <2>3. question.proposed \in UNION {[1 .. n -> Queries] : n \in 0 .. MostProposed}
      BY <2>1
    <2>4. PICK n \in 0 .. MostProposed : question.proposed \in [1 .. n -> Queries]
      BY <2>3
    <2>5. question.proposed \in Seq(Queries)
      <3>1. n \in Nat
        BY QueriesAssumption
      <3>. QED  BY <2>4, <3>1
    <2>. QED  BY <2>1, <2>2, <2>5 DEF QueriesInv, QuestionOf
  <1>2. QueriesInv /\ [QueriesNext]_queriesVars => QueriesInv'
    <2>. SUFFICES ASSUME QueriesInv, [QueriesNext]_queriesVars PROVE QueriesInv'
      OBVIOUS
    <2>1. CASE BuildQueries
      <3>1. PICK chosen \in Seq(Admitted) :
                chosen = SearchQueries /\ chosen # << >> /\ chosen[1] = question.original
        BY SearchQueriesKeep DEF QueriesInv
      <3>a. PICK rest \in [DOMAIN SearchQueries -> SUBSET Articles] :
                /\ \A i \in DOMAIN SearchQueries : rest[i] \in Remains(SearchQueries[i])
                /\ queries' = [i \in DOMAIN SearchQueries |->
                                  [SearchQueries[i] EXCEPT !.names = @ \cup rest[i]]]
        BY <2>1 DEF BuildQueries
      <3>2. /\ \A i \in DOMAIN chosen : rest[i] \in Remains(chosen[i])
            /\ DOMAIN queries' = DOMAIN chosen
            /\ \A i \in DOMAIN chosen :
                   queries'[i] = [chosen[i] EXCEPT !.names = chosen[i].names \cup rest[i]]
            /\ queries' = [i \in DOMAIN chosen |-> queries'[i]]
        BY <3>1, <3>a
      <3>3. question' = question
        BY <2>1 DEF BuildQueries
      <3>4. DOMAIN chosen = 1 .. Len(chosen) /\ Len(chosen) \in Nat /\ 1 \in DOMAIN chosen
        BY <3>1
      <3>5. ASSUME NEW i \in DOMAIN chosen
            PROVE  Keeps(queries'[i]) /\ (chosen[i] = question.original => queries'[i] = chosen[i])
        <4>1. PICK q \in Admitted : q = chosen[i]
          BY <3>1, <3>4
        <4>2. PICK cut : cut = [q EXCEPT !.names = q.names \cup rest[i]]
          OBVIOUS
        <4>3. queries'[i] = cut /\ rest[i] \in Remains(q)
          BY <3>2, <4>1, <4>2
        <4>4. Keeps(cut) /\ (q = question.original => cut = q)
          BY <4>2, <4>3, RemainsAre DEF QueriesInv
        <4>. QED  BY <4>1, <4>3, <4>4
      <3>6. queries' \in Seq(Queries)
        <4>1. \A i \in 1 .. Len(chosen) : queries'[i] \in Queries
          BY <3>4, <3>5 DEF Keeps
        <4>2. queries' \in [1 .. Len(chosen) -> Queries]
          BY <3>2, <3>4, <4>1
        <4>. QED  BY <3>4, <4>2
      <3>7. DOMAIN queries' = DOMAIN chosen
        BY <3>2
      <3>8. (\A i \in DOMAIN queries : Keeps(queries[i]))'
        BY <3>3, <3>5, <3>7 DEF Keeps, Allowed
      <3>. QED  BY <3>1, <3>3, <3>4, <3>5, <3>6, <3>8 DEF QueriesInv, QuestionOf
    <2>2. CASE AnswerQuery \/ GatherEvidence \/ UNCHANGED queriesVars
      <3>1. queries' = queries /\ question' = question
        BY <2>2 DEF AnswerQuery, GatherEvidence, queriesVars
      <3>. QED  BY <3>1 DEF QueriesInv, QuestionOf, Keeps, Allowed
    <2>. QED  BY <2>1, <2>2 DEF QueriesNext
  <1>3. QueriesInv => QueriesKeepTheQuestion
    BY DEF QueriesInv, Keeps, Allowed, QueriesKeepTheQuestion
  <1>. QED  BY <1>1, <1>2, <1>3, PTL DEF QueriesSpec

(***************************************************************************)
(* The order of one retrieval                                              *)
(***************************************************************************)

CallOf ==
    /\ gatewayCall.limit \in CallLimits /\ gatewayCall.named \in BOOLEAN
    /\ corpus \in [Rows -> Matches]
    /\ said = [search |-> said.search, cross |-> said.cross]

(* What is to be ranked are rows that the search put in their order; the   *)
(* cross-encoder has spoken only after that.                               *)
RetrievalInv ==
    /\ CallOf
    /\ phase \in {"delta", "search", "rank"} => said.cross = << >>
    /\ phase = "rank" => universal \in Seq(Rows) /\ said.search = universal /\ Plain(universal)
    /\ AgreedOrderIsKept

LEMMA SearchedIs ==
    ASSUME CallOf, ~gatewayCall.named, NEW limit \in Nat, NEW s, s = SearchUniversal(limit)
    PROVE  s \in Seq(Rows) /\ Plain(s)
  <1>1. ASSUME NEW S \in SUBSET Rows, NEW score \in [S -> Nat]
        PROVE  ByScore(Increasing(S), score) \in Seq(Rows)
    <2>1. IsFiniteSet(S) /\ S \in SUBSET Nat
      BY RetrievalAssumption, FS_Subset
    <2>2. PICK up : up = Increasing(S)
      OBVIOUS
    <2>3. up \in Seq(S) /\ Range(up) = S
      BY <2>1, <2>2, IncreasingIs
    <2>4. PICK t : t = ByScore(up, score)
      OBVIOUS
    <2>5. t \in Seq(S)
      BY <2>3, <2>4, ByScoreIs
    <2>6. t \in Seq(Rows)
      BY <2>5
    <2>. QED  BY <2>2, <2>4, <2>6
  <1>2. \A r \in Rows : corpus[r].focused \in Nat /\ corpus[r].broad \in Nat /\ corpus[r].titled \in BOOLEAN
    <2>1. \A m \in Matches : m.focused \in Strengths \cup {0} /\ m.broad \in Strengths \cup {0} /\ m.titled \in BOOLEAN
      BY DEF Matches
    <2>2. \A r \in Rows : corpus[r] \in Matches
      BY DEF CallOf
    <2>3. \A n \in Strengths \cup {0} : n \in Nat
      BY RetrievalAssumption
    <2>4. \A r \in Rows : /\ corpus[r].focused \in Strengths \cup {0} /\ corpus[r].broad \in Strengths \cup {0}
                          /\ corpus[r].titled \in BOOLEAN
      BY <2>1, <2>2
    <2>. QED  BY <2>3, <2>4
  <1>3. ByFocus \in Seq(Rows)
    <2>1. PICK score : score = [r \in FocusedRows |-> corpus[r].focused]
      OBVIOUS
    <2>2. FocusedRows \in SUBSET Rows /\ score \in [FocusedRows -> Nat]
      BY <1>2, <2>1 DEF FocusedRows
    <2>3. ByFocus = ByScore(Increasing(FocusedRows), score)
      <3>1. Range(Increasing(FocusedRows)) = FocusedRows
        <4>1. IsFiniteSet(FocusedRows) /\ FocusedRows \in SUBSET Nat
          BY <2>2, RetrievalAssumption, FS_Subset
        <4>. QED  BY <4>1, IncreasingIs
      <3>2. ByFocus = ByScore(Increasing(FocusedRows), [r \in Range(Increasing(FocusedRows)) |-> corpus[r].focused])
        BY DEF ByFocus, BestFirst
      <3>. QED  BY <2>1, <3>1, <3>2
    <2>. QED  BY <1>1, <2>2, <2>3
  <1>4. ByBreadth \in Seq(Rows)
    <2>1. PICK score : score = [r \in BroadRows |-> corpus[r].broad]
      OBVIOUS
    <2>2. BroadRows \in SUBSET Rows /\ score \in [BroadRows -> Nat]
      BY <1>2, <2>1 DEF BroadRows
    <2>3. ByBreadth = ByScore(Increasing(BroadRows), score)
      <3>1. Range(Increasing(BroadRows)) = BroadRows
        <4>1. IsFiniteSet(BroadRows) /\ BroadRows \in SUBSET Nat
          BY <2>2, RetrievalAssumption, FS_Subset
        <4>. QED  BY <4>1, IncreasingIs
      <3>2. ByBreadth = ByScore(Increasing(BroadRows), [r \in Range(Increasing(BroadRows)) |-> corpus[r].broad])
        BY DEF ByBreadth, BestFirst
      <3>. QED  BY <2>1, <3>1, <3>2
    <2>. QED  BY <1>1, <2>2, <2>3
  <1>5. PICK fetched : fetched = Fetched(limit)
    OBVIOUS
  <1>6. fetched \in Seq(Rows)
    <2>1. PICK focused : focused = Cut(ByFocus, limit * 3)
      OBVIOUS
    <2>2. PICK rest : rest = Among(Cut(ByBreadth, limit * 4), Rows \ Range(focused))
      OBVIOUS
    <2>3. limit * 3 \in Nat /\ limit * 4 \in Nat
      OBVIOUS
    <2>4. focused \in Seq(Rows)
      BY <1>3, <2>1, <2>3, CutIs
    <2>5. Cut(ByBreadth, limit * 4) \in Seq(Rows)
      BY <1>4, <2>3, CutIs
    <2>6. rest \in Seq(Rows)
      BY <2>2, <2>5, AmongIs
    <2>7. fetched = focused \/ fetched = focused \o rest
      BY <1>5, <2>1, <2>2 DEF Fetched
    <2>. QED  BY <2>4, <2>6, <2>7, ConcatProperties
  <1>7. PICK score : score = [r \in Range(fetched) |-> Adjusted(r)]
    OBVIOUS
  <1>8. score \in [Range(fetched) -> Nat]
    <2>1. ASSUME NEW r \in Rows PROVE Adjusted(r) \in Nat
      <3>1. PICK w \in Nat : w = IF corpus[r].focused > 0 THEN corpus[r].focused ELSE corpus[r].broad
        BY <1>2
      <3>2. Adjusted(r) = w * (IF corpus[r].titled THEN 13 ELSE 10)
        BY <3>1 DEF Adjusted
      <3>3. w * 13 \in Nat /\ w * 10 \in Nat
        OBVIOUS
      <3>. QED  BY <3>2, <3>3
    <2>2. Range(fetched) \subseteq Rows
      BY <1>6, RangeIs
    <2>. QED  BY <1>7, <2>1, <2>2
  <1>9. PICK aligned : aligned = Aligned(fetched)
    OBVIOUS
  <1>10. aligned = ByScore(fetched, score)
    BY <1>7, <1>9 DEF Aligned, BestFirst
  <1>11. aligned \in Seq(Rows) /\ Plain(aligned)
    BY <1>6, <1>8, <1>10, ByScoreIs
  <1>12. s = Cut(aligned, limit)
    BY <1>5, <1>9 DEF SearchUniversal
  <1>. QED  BY <1>11, <1>12, CutIs

LEMMA BestOfBothKeeps ==
    ASSUME NEW rows \in Seq(Rows), NEW cross \in Seq(Rows), NEW n \in Nat, Range(cross) = Range(rows),
           NEW s, s = Cut(BestOfBoth(rows, cross), n),
           NEW a \in Range(cross), NEW b \in Range(s),
           Position(rows, a) < Position(rows, b), Position(cross, a) < Position(cross, b)
    PROVE  Position(s, a) < Position(s, b)
  <1>1. PICK best : best = BestOfBoth(rows, cross)
    OBVIOUS
  <1>2. best = ByScore(rows, [r \in Range(rows) |-> Share(rows, r) + Share(cross, r)])
    BY <1>1 DEF BestOfBoth, BestFirst
  <1>3. best \in Seq(Rows) /\ Plain(best) /\ Range(best) = Range(rows)
    <2>1. PICK score : score = [r \in Range(rows) |-> Share(rows, r) + Share(cross, r)]
      OBVIOUS
    <2>2. \A r \in Range(rows) : Share(rows, r) \in Nat /\ Share(cross, r) \in Nat
      BY SharesAre
    <2>3. score \in [Range(rows) -> Nat] /\ best = ByScore(rows, score)
      BY <1>2, <2>1, <2>2
    <2>. QED  BY <2>3, ByScoreIs
  <1>4. Range(s) \subseteq Range(best)
    BY <1>1, <1>3, CutIs
  <1>5. PICK i \in DOMAIN best : best[i] = a
    BY <1>3 DEF Range
  <1>6. PICK j \in DOMAIN best : best[j] = b
    BY <1>4 DEF Range
  <1>7. i < j
    BY <1>2, <1>5, <1>6, AgreedOrder
  <1>8. Position(best, a) = i /\ Position(best, b) = j
    BY <1>3, <1>5, <1>6, PlacesInPlain
  <1>9. a \in Range(best)
    BY <1>5 DEF Range
  <1>. QED  BY <1>1, <1>3, <1>7, <1>8, <1>9, PlacesInCut

(* A reranking refines the order of the search:                            *)
(* _rerank_universal_candidates, for any corpus and any answer of the      *)
(* cross-encoder.                                                          *)
THEOREM RerankingRefines == RetrievalSpec => []AgreedOrderIsKept
  <1>1. RetrievalInit => RetrievalInv
    <2>. SUFFICES ASSUME RetrievalInit PROVE RetrievalInv
      OBVIOUS
    <2>1. phase = "delta" /\ said = [search |-> << >>, cross |-> << >>] /\ corpus \in [Rows -> Matches]
      BY DEF RetrievalInit
    <2>2. gatewayCall \in [limit : CallLimits, named : BOOLEAN, exact : SUBSET Rows, mode : Modes, delta : Deltas]
      BY DEF RetrievalInit
    <2>3. gatewayCall.limit \in CallLimits /\ gatewayCall.named \in BOOLEAN
      BY <2>2
    <2>. QED  BY <2>1, <2>3 DEF RetrievalInv, CallOf, AgreedOrderIsKept
  <1>2. RetrievalInv /\ [RetrievalNext]_retrievalVars => RetrievalInv'
    <2>. SUFFICES ASSUME RetrievalInv, [RetrievalNext]_retrievalVars PROVE RetrievalInv'
      OBVIOUS
    <2>. USE DEF RetrievalInv, CallOf
    <2>1. ASSUME phase = "delta" \/ phase' \notin {"fuse", "rank"}, UNCHANGED <<gatewayCall, corpus, said>>,
                 phase' \in {"done", "search"}, phase # "fuse" \/ phase' = "done",
                 phase' = "search" => phase = "delta"
          PROVE  RetrievalInv'
      BY <2>1 DEF AgreedOrderIsKept
    <2>2. CASE AskDelta
      <3>1. phase = "delta" /\ UNCHANGED <<gatewayCall, corpus, said>> /\ phase' \in {"done", "search"}
        BY <2>2 DEF AskDelta
      <3>. QED  BY <2>1, <3>1
    <2>3. CASE Search
      <3>1. UNCHANGED <<gatewayCall, corpus>> /\ said' = [said EXCEPT !.search = universal'] /\ phase = "search"
        BY <2>3 DEF Search
      <3>2. said' = [search |-> universal', cross |-> << >>]
        BY <3>1
      <3>3. phase' \in {"rank", "fuse"} /\ (phase' = "rank" => universal' # << >> /\ ~gatewayCall.named)
        BY <2>3 DEF Search
      <3>4. phase' = "rank" => universal' \in Seq(Rows) /\ Plain(universal')
        <4>. SUFFICES ASSUME phase' = "rank" PROVE universal' \in Seq(Rows) /\ Plain(universal')
          OBVIOUS
        <4>1. universal' = SearchUniversal(UniversalLimit)
          BY <2>3, <3>3 DEF Search
        <4>2. UniversalLimit \in Nat
          <5>1. gatewayCall.limit \in Nat /\ CrossTopN \in Nat
            BY RetrievalAssumption
          <5>2. PICK m : m = Max({gatewayCall.limit, CrossTopN})
            OBVIOUS
          <5>3. \E x \in {gatewayCall.limit, CrossTopN} : \A y \in {gatewayCall.limit, CrossTopN} : x >= y
            BY <5>1
          <5>4. m \in {gatewayCall.limit, CrossTopN}
            BY <5>2, <5>3 DEF Max
          <5>. QED  BY <5>1, <5>2, <5>4 DEF UniversalLimit
        <4>. QED  BY <3>3, <4>1, <4>2, SearchedIs
      <3>5. AgreedOrderIsKept'
        <4>1. Range(said'.cross) = {}
          BY <3>2 DEF Range
        <4>. QED  BY <4>1 DEF AgreedOrderIsKept
      <3>. QED  BY <3>1, <3>2, <3>3, <3>4, <3>5
    <2>4. CASE RankUniversal
      <3>1. UNCHANGED <<gatewayCall, corpus>> /\ phase = "rank" /\ phase' = "fuse"
        BY <2>4 DEF RankUniversal
      <3>2. PICK order \in SetToSeqs(Range(universal)), answers \in BOOLEAN :
              /\ universal' = Cut(CASE gatewayCall.mode = "shadow" -> universal
                               [] gatewayCall.mode = "apply" /\ answers -> BestOfBoth(universal, order)
                               [] OTHER -> order,
                             gatewayCall.limit)
              /\ said' = IF gatewayCall.mode = "apply" /\ answers THEN [said EXCEPT !.cross = order] ELSE said
        BY <2>4 DEF RankUniversal
      <3>3. universal \in Seq(Rows) /\ said.search = universal /\ said.cross = << >>
        BY <3>1
      <3>4. IsFiniteSet(Range(universal)) /\ Range(universal) \subseteq Rows
        BY <3>3, RangeIs
      <3>5. order \in Seq(Range(universal)) /\ Range(order) = Range(universal)
        BY <3>2, <3>4, OrdersAre
      <3>6. order \in Seq(Rows)
        BY <3>4, <3>5
      <3>7. gatewayCall.limit \in Nat
        BY RetrievalAssumption
      <3>8. CASE gatewayCall.mode = "apply" /\ answers
        <4>1. said' = [search |-> universal, cross |-> order]
          BY <3>2, <3>3, <3>8
        <4>2. universal' = Cut(BestOfBoth(universal, order), gatewayCall.limit)
          BY <3>2, <3>8
        <4>3. AgreedOrderIsKept'
          BY <3>3, <3>5, <3>6, <3>7, <4>1, <4>2, BestOfBothKeeps DEF AgreedOrderIsKept
        <4>. QED  BY <3>1, <4>1, <4>3
      <3>9. CASE ~(gatewayCall.mode = "apply" /\ answers)
        <4>1. said' = said
          BY <3>2, <3>9
        <4>2. Range(said'.cross) = {}
          BY <3>3, <4>1 DEF Range
        <4>3. AgreedOrderIsKept'
          BY <4>2 DEF AgreedOrderIsKept
        <4>. QED  BY <3>1, <4>1, <4>3
      <3>. QED  BY <3>8, <3>9
    <2>5. CASE FuseSources
      <3>1. UNCHANGED <<gatewayCall, corpus, said>> /\ phase' = "done"
        BY <2>5 DEF FuseSources
      <3>. QED  BY <2>1, <3>1
    <2>6. CASE UNCHANGED retrievalVars
      BY <2>6 DEF retrievalVars, AgreedOrderIsKept
    <2>. QED  BY <2>2, <2>3, <2>4, <2>5, <2>6 DEF RetrievalNext
  <1>3. RetrievalInv => AgreedOrderIsKept
    BY DEF RetrievalInv
  <1>. QED  BY <1>1, <1>2, <1>3, PTL DEF RetrievalSpec

(***************************************************************************)
(* The named articles of one retrieval                                     *)
(***************************************************************************)

LookupOf ==
    /\ lookup.named \in Seq(Nat) /\ Len(lookup.named) <= ResultLimit
    /\ lookup.dense \in Seq(Chunks) /\ lookup.lexical \in Seq(Chunks)

LEMMA LookupsAre ==
    ASSUME lookup \in Lookups
    PROVE  LookupOf
  <1>1. PICK numbers : numbers = {c.article : c \in Chunks}
    OBVIOUS
  <1>2. IsFiniteSet(numbers) /\ numbers \subseteq Nat
    <2>1. PICK f : f = [c \in Chunks |-> c.article]
      OBVIOUS
    <2>2. f \in Surjection(Chunks, numbers)
      BY <1>1, <2>1 DEF Surjection
    <2>3. IsFiniteSet(Chunks)
      BY EnsembleAssumption
    <2>4. IsFiniteSet(numbers)
      BY <2>2, <2>3, FS_Surjection
    <2>. QED  BY <1>1, <2>4, EnsembleAssumption
  <1>3. /\ lookup.named \in Rankings(numbers, ResultLimit)
        /\ lookup.dense \in Rankings(Chunks, SourceLimit) /\ lookup.lexical \in Rankings(Chunks, SourceLimit)
    BY <1>1 DEF Lookups
  <1>4. ResultLimit \in Nat /\ SourceLimit \in Nat /\ IsFiniteSet(Chunks)
    BY EnsembleAssumption
  <1>5. lookup.named \in Seq(numbers) /\ Len(lookup.named) <= ResultLimit
    BY <1>2, <1>3, <1>4, RankingsAre
  <1>6. lookup.dense \in Seq(Chunks) /\ lookup.lexical \in Seq(Chunks)
    BY <1>3, <1>4, RankingsAre
  <1>7. lookup.named \in Seq(Nat)
    <2>1. PICK l : l = lookup.named
      OBVIOUS
    <2>2. l \in Seq(numbers)
      BY <1>5, <2>1
    <2>3. l \in Seq(Nat)
      <3>1. \A i \in DOMAIN l : l[i] \in numbers
        BY <2>2
      <3>2. \A i \in DOMAIN l : l[i] \in Nat
        BY <1>2, <3>1
      <3>3. DOMAIN l = 1 .. Len(l) /\ Len(l) \in Nat /\ l \in [1 .. Len(l) -> numbers]
        BY <2>2, LenProperties
      <3>4. l \in [1 .. Len(l) -> Nat]
        BY <3>2, <3>3
      <3>. QED  BY <3>3, <3>4
    <2>. QED  BY <2>1, <2>3
  <1>. QED  BY <1>5, <1>6, <1>7 DEF LookupOf

LEMMA RoundRobinIs ==
    ASSUME NEW groups \in Seq(Seq(Chunks))
    PROVE  RoundRobin(groups) \in Seq(Chunks)
  <1>. DEFINE steps == AnchorLimit * Len(groups)
              Chain(g) == g = [i \in 0 .. steps |->
                                 IF i = 0 THEN << >>
                                 ELSE TakeOne(g[i - 1], groups[((i - 1) % Len(groups)) + 1])]
  <1>1. RoundRobin(groups) = (CHOOSE g : Chain(g))[steps]
    BY DEF RoundRobin
  <1>2. steps \in Nat /\ AnchorLimit \in Nat /\ Len(groups) \in Nat
    <2>1. AnchorLimit \in Nat /\ Len(groups) \in Nat
      BY EnsembleAssumption, LenProperties
    <2>. QED  BY <2>1
  <1>3. ASSUME NEW i \in 1 .. steps PROVE groups[((i - 1) % Len(groups)) + 1] \in Seq(Chunks)
    <2>1. PICK len \in Nat : len = Len(groups)
      BY <1>2
    <2>2. len > 0
      <3>1. len = 0 => steps = 0
        BY <1>2, <2>1
      <3>. QED  BY <1>2, <2>1, <3>1
    <2>3. i - 1 \in Nat
      BY <1>2
    <2>4. (i - 1) % len \in 0 .. len - 1
      BY <2>2, <2>3
    <2>5. ((i - 1) % len) + 1 \in 1 .. len
      BY <2>1, <2>4
    <2>. QED  BY <2>1, <2>5
  <1>. HIDE DEF steps
  <1>4. ASSUME NEW m \in Seq(Chunks), NEW group \in Seq(Chunks) PROVE TakeOne(m, group) \in Seq(Chunks)
    <2>1. PICK unseen : unseen = Among(group, Chunks \ Range(m))
      OBVIOUS
    <2>2. unseen \in Seq(Chunks)
      BY <2>1, AmongIs
    <2>3. unseen # << >> => unseen[1] \in Chunks
      BY <2>2
    <2>4. TakeOne(m, group) = m \/ (unseen # << >> /\ TakeOne(m, group) = Append(m, unseen[1]))
      BY <2>1 DEF TakeOne
    <2>5. CASE unseen # << >> /\ TakeOne(m, group) = Append(m, unseen[1])
      <3>1. Append(m, unseen[1]) \in Seq(Chunks)
        BY <2>3, <2>5, AppendProperties
      <3>. QED  BY <2>5, <3>1
    <2>. QED  BY <2>4, <2>5
  <1>5. PICK step : step = [i \in 1 .. steps |-> [m \in Seq(Chunks) |-> TakeOne(m, groups[((i - 1) % Len(groups)) + 1])]]
    OBVIOUS
  <1>6. ASSUME NEW i \in 1 .. steps PROVE step[i] \in [Seq(Chunks) -> Seq(Chunks)]
    <2>1. step[i] = [m \in Seq(Chunks) |-> TakeOne(m, groups[((i - 1) % Len(groups)) + 1])]
      BY <1>5
    <2>2. \A m \in Seq(Chunks) : TakeOne(m, groups[((i - 1) % Len(groups)) + 1]) \in Seq(Chunks)
      BY <1>3, <1>4
    <2>. QED  BY <2>1, <2>2
  <1>7. << >> \in Seq(Chunks)
    OBVIOUS
  <1>8. PICK f \in [0 .. steps -> Seq(Chunks)] : Loops(f, steps, << >>, step)
    BY <1>2, <1>6, <1>7, LoopExists
  <1>9. Chain(f)
    <2>1. f = [i \in 0 .. steps |-> IF i = 0 THEN << >> ELSE step[i][f[i - 1]]]
      BY <1>8 DEF Loops
    <2>2. ASSUME NEW i \in 0 .. steps, i # 0
          PROVE  step[i][f[i - 1]] = TakeOne(f[i - 1], groups[((i - 1) % Len(groups)) + 1])
      <3>1. i \in 1 .. steps /\ i - 1 \in 0 .. steps
        BY <1>2, <2>2
      <3>2. f[i - 1] \in Seq(Chunks)
        BY <1>8, <3>1
      <3>3. step[i] = [m \in Seq(Chunks) |-> TakeOne(m, groups[((i - 1) % Len(groups)) + 1])]
        BY <1>5, <3>1
      <3>. QED  BY <3>2, <3>3
    <2>. QED  BY <2>1, <2>2
  <1>10. PICK g : Chain(g) /\ RoundRobin(groups) = g[steps]
    <2>. HIDE DEF Chain
    <2>. QED  BY <1>1, <1>9, Zenon
  <1>11. PICK U : U = {i \in 0 .. steps : g[i] \in Seq(Chunks)}
    OBVIOUS
  <1>12. 0 \in U
    <2>1. 0 \in 0 .. steps
      BY <1>2
    <2>2. g[0] = << >>
      BY <1>10, <2>1
    <2>. QED  BY <1>7, <1>11, <2>1, <2>2
  <1>13. ASSUME NEW i \in 1 .. steps, i - 1 \in U PROVE i \in U
    <2>1. i \in 0 .. steps /\ i # 0
      BY <1>2
    <2>2. g[i] = TakeOne(g[i - 1], groups[((i - 1) % Len(groups)) + 1])
      BY <1>10, <2>1
    <2>3. g[i - 1] \in Seq(Chunks)
      BY <1>11, <1>13
    <2>. QED  BY <1>3, <1>4, <1>11, <2>1, <2>2, <2>3
  <1>14. steps \in U
    <2>1. \A i \in 0 .. steps : i \in U
      BY <1>2, <1>12, <1>13, UpTo
    <2>. QED  BY <1>2, <2>1
  <1>. QED  BY <1>10, <1>11, <1>14

LEMMA ExplicitIs ==
    ASSUME LookupOf
    PROVE  Explicit \in Seq(Chunks)
  <1>1. PICK groups : groups = [i \in DOMAIN lookup.named |-> PointIds(lookup.named[i])]
    OBVIOUS
  <1>2. ASSUME NEW a PROVE PointIds(a) \in Seq(Chunks)
    <2>1. PICK S : S = {c \in Chunks : c.article = a}
      OBVIOUS
    <2>2. S \subseteq Chunks /\ IsFiniteSet(S)
      BY <2>1, EnsembleAssumption, FS_Subset
    <2>3. PointIds(a) = SetToSeq(S)
      BY <2>1 DEF PointIds
    <2>4. SetToSeq(S) \in Seq(S)
      BY <2>2, ListOfSet
    <2>. QED  BY <2>2, <2>3, <2>4
  <1>3. DOMAIN lookup.named = 1 .. Len(lookup.named) /\ Len(lookup.named) \in Nat
    BY LenProperties DEF LookupOf
  <1>4. groups \in [1 .. Len(lookup.named) -> Seq(Chunks)]
    BY <1>1, <1>2, <1>3
  <1>5. groups \in Seq(Seq(Chunks))
    BY <1>3, <1>4
  <1>6. Explicit = RoundRobin(groups) \/ Explicit = << >>
    BY <1>1 DEF Explicit
  <1>7. RoundRobin(groups) \in Seq(Chunks) /\ << >> \in Seq(Chunks)
    BY <1>5, RoundRobinIs
  <1>. QED  BY <1>6, <1>7

-------------------------------------------------------------------------------

Wanted == {c \in Found : MatchesAny(c, lookup.named)}

Few == Cardinality(Wanted) <= RerankTopN

(* Of every named article that was found there is a chunk. *)
Covers(list) ==
    \A i \in DOMAIN lookup.named :
        (\E c \in Found : MatchesArticle(c, lookup.named[i])) =>
            \E c \in Range(list) : MatchesArticle(c, lookup.named[i])

(* The chunks of named articles are the first ones. *)
WantedFirst(list) ==
    \E k \in Nat : \A i \in DOMAIN list : i <= k <=> MatchesAny(list[i], lookup.named)

Thin(list) == \A x : Cardinality({d \in Range(list) : d.article = x}) <= 2

EnsembleInv ==
    /\ LookupOf
    /\ stage = "rerank" => ranked \in Seq(Chunks) /\ Plain(ranked) /\ Range(ranked) = Found /\ WantedFirst(ranked)
    /\ stage = "diversify" => ranked \in Seq(Chunks) /\ Range(ranked) \subseteq Found /\ (Few => Covers(ranked))
    /\ NamedArticlesAreKept

LEMMA FoundIs ==
    ASSUME LookupOf
    PROVE  IsFiniteSet(Found) /\ Found \subseteq Chunks
  <1>1. /\ lookup.dense \in Seq(Chunks) /\ lookup.lexical \in Seq(Chunks) /\ Explicit \in Seq(Chunks)
    BY ExplicitIs DEF LookupOf
  <1>2. Range(lookup.dense) \subseteq Chunks /\ Range(lookup.lexical) \subseteq Chunks /\ Range(Explicit) \subseteq Chunks
    BY <1>1, RangeIs
  <1>3. Found \subseteq Chunks
    BY <1>2 DEF Found
  <1>. QED  BY <1>3, EnsembleAssumption, FS_Subset

(* What the sources found. *)
LEMMA MetIs ==
    ASSUME LookupOf, NEW l, l = lookup.dense \o lookup.lexical \o Explicit
    PROVE  l \in Seq(Chunks) /\ Range(l) = Found
  <1>1. PICK a \in Seq(Chunks), b \in Seq(Chunks), c \in Seq(Chunks) :
            a = lookup.dense /\ b = lookup.lexical /\ c = Explicit
    BY ExplicitIs DEF LookupOf
  <1>2. a \o b \in Seq(Chunks) /\ Range(a \o b) = Range(a) \cup Range(b)
    BY ConcatProperties, RangeConcatenation
  <1>3. (a \o b) \o c \in Seq(Chunks) /\ Range((a \o b) \o c) = Range(a \o b) \cup Range(c)
    <2>1. PICK ab \in Seq(Chunks) : ab = a \o b
      BY <1>2
    <2>2. ab \o c \in Seq(Chunks) /\ Range(ab \o c) = Range(ab) \cup Range(c)
      BY ConcatProperties, RangeConcatenation
    <2>. QED  BY <2>1, <2>2
  <1>. QED  BY <1>1, <1>2, <1>3 DEF Found

LEMMA FusedIs ==
    ASSUME LookupOf, NEW score \in [Range(Met) -> Nat],
           NEW fused, fused = ByScore(Met, score),
           NEW named, named = {c \in Chunks : MatchesAny(c, lookup.named)},
           NEW list, list = Among(fused, named) \o Among(fused, Chunks \ named)
    PROVE  list \in Seq(Chunks) /\ Plain(list) /\ Range(list) = Found /\ WantedFirst(list)
  <1>1. PICK l : l = lookup.dense \o lookup.lexical \o Explicit
    OBVIOUS
  <1>2. l \in Seq(Chunks) /\ Range(l) = Found
    BY <1>1, MetIs
  <1>3. PICK met : met = Met
    OBVIOUS
  <1>4. met \in Seq(Chunks) /\ Range(met) = Found
    BY <1>1, <1>2, <1>3, OnceIs DEF Met
  <1>5. fused \in Seq(Chunks) /\ Range(fused) = Found
    <2>1. fused = ByScore(met, score) /\ score \in [Range(met) -> Nat]
      BY <1>3
    <2>2. fused \in Seq(Chunks) /\ Range(fused) = Range(met)
      BY <1>4, <2>1, ByScoreIs
    <2>. QED  BY <1>4, <2>2
  <1>6. PICK s : s = Among(fused, named)
    OBVIOUS
  <1>7. PICK t : t = Among(fused, Chunks \ named)
    OBVIOUS
  <1>8. s \in Seq(Chunks) /\ Plain(s) /\ Range(s) = Found \cap named
    <2>1. s \in Seq(Chunks) /\ Plain(s) /\ Range(s) = Range(fused) \cap named
      BY <1>5, <1>6, AmongIs
    <2>. QED  BY <1>5, <2>1
  <1>9. t \in Seq(Chunks) /\ Plain(t) /\ Range(t) = Found \cap (Chunks \ named)
    <2>1. t \in Seq(Chunks) /\ Plain(t) /\ Range(t) = Range(fused) \cap (Chunks \ named)
      BY <1>5, <1>7, AmongIs
    <2>. QED  BY <1>5, <2>1
  <1>10. list = s \o t
    BY <1>6, <1>7
  <1>11. PICK k \in Nat, m \in Nat : k = Len(s) /\ m = Len(t)
    BY <1>8, <1>9, LenProperties
  <1>12. /\ list \in Seq(Chunks) /\ Len(list) = k + m /\ DOMAIN list = 1 .. k + m
         /\ \A i \in 1 .. k + m : list[i] = IF i <= k THEN s[i] ELSE t[i - k]
    <2>1. /\ s \o t \in Seq(Chunks) /\ Len(s \o t) = k + m
          /\ \A i \in 1 .. k + m : (s \o t)[i] = IF i <= k THEN s[i] ELSE t[i - k]
      BY <1>8, <1>9, <1>11, ConcatProperties
    <2>2. DOMAIN list = 1 .. k + m
      BY <1>10, <2>1, LenProperties
    <2>. QED  BY <1>10, <2>1, <2>2
  <1>13. Range(list) = Found
    <2>1. Range(s \o t) = Range(s) \cup Range(t)
      BY <1>8, <1>9, RangeConcatenation
    <2>2. Found \subseteq Chunks
      BY FoundIs
    <2>. QED  BY <1>8, <1>9, <1>10, <2>1, <2>2
  <1>14. /\ \A i \in 1 .. k : s[i] \in Found \cap named
         /\ \A i \in 1 .. m : t[i] \in Found \cap (Chunks \ named)
    BY <1>8, <1>9, <1>11, RangeIs
  <1>15. \A i \in 1 .. k + m : i <= k <=> list[i] \in named
    <2>1. ASSUME NEW i \in 1 .. k + m PROVE i <= k <=> list[i] \in named
      <3>1. CASE i <= k
        <4>1. i \in 1 .. k
          BY <3>1
        <4>. QED  BY <1>12, <1>14, <3>1, <4>1
      <3>2. CASE ~(i <= k)
        <4>1. i - k \in 1 .. m
          BY <3>2
        <4>. QED  BY <1>12, <1>14, <3>2, <4>1
      <3>. QED  BY <3>1, <3>2
    <2>. QED  BY <2>1
  <1>16. Plain(list)
    <2>. SUFFICES ASSUME NEW i \in DOMAIN list, NEW j \in DOMAIN list, list[i] = list[j]
                  PROVE  i = j
      BY DEF Plain
    <2>0. i \in 1 .. k + m /\ j \in 1 .. k + m
      BY <1>12
    <2>1. i <= k <=> j <= k
      BY <1>15, <2>0
    <2>2. CASE i <= k
      <3>1. i \in 1 .. k /\ j \in 1 .. k
        BY <2>0, <2>1, <2>2
      <3>2. s[i] = s[j]
        BY <1>12, <2>0, <2>1, <2>2
      <3>3. i \in DOMAIN s /\ j \in DOMAIN s
        BY <1>8, <1>11, <3>1, LenProperties
      <3>. QED  BY <1>8, <3>2, <3>3 DEF Plain
    <2>3. CASE ~(i <= k)
      <3>1. i - k \in 1 .. m /\ j - k \in 1 .. m
        BY <2>0, <2>1, <2>3
      <3>2. t[i - k] = t[j - k]
        BY <1>12, <2>0, <2>1, <2>3
      <3>3. i - k \in DOMAIN t /\ j - k \in DOMAIN t
        BY <1>9, <1>11, <3>1, LenProperties
      <3>4. i - k = j - k
        BY <1>9, <3>2, <3>3 DEF Plain
      <3>. QED  BY <2>0, <3>4
    <2>. QED  BY <2>2, <2>3
  <1>17. WantedFirst(list)
    <2>1. \A c \in Chunks : c \in named <=> MatchesAny(c, lookup.named)
      OBVIOUS
    <2>2. \A i \in 1 .. k + m : list[i] \in Chunks
      BY <1>12
    <2>. QED  BY <1>12, <1>15, <2>1, <2>2 DEF WantedFirst
  <1>. QED  BY <1>12, <1>13, <1>16, <1>17

(* What is given to the rankers has every chunk of a named article, if     *)
(* they are few.                                                           *)
LEMMA FewAreRanked ==
    ASSUME LookupOf, ranked \in Seq(Chunks), Plain(ranked), Range(ranked) = Found, WantedFirst(ranked), Few
    PROVE  Covers(RerankCandidates)
  <1>1. PICK k \in Nat : \A i \in DOMAIN ranked : i <= k <=> MatchesAny(ranked[i], lookup.named)
    BY DEF WantedFirst
  <1>2. PICK n \in Nat : n = Len(ranked) /\ DOMAIN ranked = 1 .. n
    BY LenProperties
  <1>3. PICK least \in Nat : least <= k /\ least <= n /\ (least = k \/ least = n)
    <2>1. k <= n \/ n <= k
      OBVIOUS
    <2>. QED  BY <2>1
  <1>4. PICK f : f = [i \in 1 .. least |-> ranked[i]]
    OBVIOUS
  <1>5. f \in Injection(1 .. least, Wanted)
    <2>1. ASSUME NEW i \in 1 .. least PROVE ranked[i] \in Wanted /\ i \in DOMAIN ranked
      <3>1. i \in 1 .. n /\ i <= k
        BY <1>3
      <3>2. ranked[i] \in Found
        BY <1>2, <3>1, RangeIs
      <3>. QED  BY <1>1, <1>2, <3>1, <3>2 DEF Wanted
    <2>2. f \in [1 .. least -> Wanted]
      BY <1>4, <2>1
    <2>3. \A i, j \in 1 .. least : f[i] = f[j] => i = j
      BY <1>4, <2>1 DEF Plain
    <2>. QED  BY <2>2, <2>3 DEF Injection, IsInjective
  <1>6. IsFiniteSet(Wanted) /\ Cardinality(Wanted) \in Nat
    <2>1. IsFiniteSet(Wanted)
      BY FoundIs, FS_Subset DEF Wanted
    <2>. QED  BY <2>1, FS_CardinalityType
  <1>7. least <= Cardinality(Wanted)
    <2>1. IsFiniteSet(1 .. least) /\ Cardinality(1 .. least) = least
      BY FS_Interval
    <2>2. Cardinality(1 .. least) <= Cardinality(Wanted)
      BY <1>5, <1>6, FS_Injection
    <2>. QED  BY <2>1, <2>2
  <1>8. least <= RerankTopN /\ RerankTopN \in Nat
    <2>1. RerankTopN \in Nat
      BY EnsembleAssumption
    <2>. QED  BY <1>6, <1>7, <2>1 DEF Few
  <1>9. ASSUME NEW a \in DOMAIN lookup.named, NEW c \in Found, MatchesArticle(c, lookup.named[a])
        PROVE  c \in Range(RerankCandidates)
    <2>1. PICK i \in 1 .. n : ranked[i] = c
      BY <1>2, RangeIs
    <2>2. MatchesAny(ranked[i], lookup.named)
      BY <1>9, <2>1 DEF MatchesAny
    <2>3. i <= k
      BY <1>1, <1>2, <2>2
    <2>4. i \in DOMAIN ranked /\ i <= RerankTopN
      BY <1>2, <1>3, <1>8, <2>3
    <2>5. ranked[i] \in Range(Cut(ranked, RerankTopN))
      BY <1>8, <2>4, FirstStay
    <2>. QED  BY <2>1, <2>5 DEF RerankCandidates
  <1>. QED  BY <1>9 DEF Covers

(* For every named article that a list has a chunk of, the first such      *)
(* chunk is reserved; an article is named by its own number or by a tenth. *)
LEMMA ReserveIs ==
    ASSUME LookupOf, NEW list \in Seq(Chunks), NEW r, r = Reserve(list)
    PROVE  /\ r \in Seq(Chunks) /\ Plain(r) /\ Len(r) <= ResultLimit /\ Range(r) \subseteq Range(list)
           /\ \A i \in DOMAIN lookup.named :
                  (\E c \in Range(list) : MatchesArticle(c, lookup.named[i])) =>
                      \E c \in Range(r) : MatchesArticle(c, lookup.named[i])
           /\ Thin(r)
  <1>1. PICK named \in Seq(Nat) : named = lookup.named
    BY DEF LookupOf
  <1>2. PICK covered : covered = Among(named, {a \in Range(named) : Leading(list, a) # << >>})
    OBVIOUS
  <1>3. covered \in Seq(Nat) /\ Plain(covered) /\ Range(covered) = {a \in Range(named) : Leading(list, a) # << >>}
    <2>1. PICK S : S = {a \in Range(named) : Leading(list, a) # << >>}
      OBVIOUS
    <2>2. covered \in Seq(Nat) /\ Plain(covered) /\ Range(covered) = Range(named) \cap S
      BY <1>2, <2>1, AmongIs
    <2>. QED  BY <2>1, <2>2
  <1>4. Len(covered) <= ResultLimit
    <2>1. Range(covered) \subseteq Range(named)
      BY <1>3
    <2>2. Len(covered) <= Len(named)
      BY <1>3, <2>1, PlainIsShorter
    <2>3. Len(named) <= ResultLimit /\ ResultLimit \in Nat /\ Len(named) \in Nat /\ Len(covered) \in Nat
      BY <1>1, <1>3, EnsembleAssumption, LenProperties DEF LookupOf
    <2>. QED  BY <2>2, <2>3
  <1>5. ASSUME NEW a, Leading(list, a) # << >>
        PROVE  /\ Leading(list, a)[1] \in Chunks /\ MatchesArticle(Leading(list, a)[1], a)
               /\ Leading(list, a)[1] \in Range(list)
    <2>1. PICK S : S = {c \in Chunks : MatchesArticle(c, a)}
      OBVIOUS
    <2>2. PICK s : s = Among(list, S)
      OBVIOUS
    <2>3. s \in Seq(Chunks) /\ Range(s) = Range(list) \cap S
      BY <2>2, AmongIs
    <2>4. s = Leading(list, a)
      BY <2>1, <2>2 DEF Leading
    <2>5. s # << >> => s[1] \in Range(s)
      <3>1. s # << >> => 1 \in 1 .. Len(s)
        BY <2>3
      <3>. QED  BY <2>3, <3>1, RangeIs
    <2>. QED  BY <1>5, <2>1, <2>3, <2>4, <2>5
  <1>6. ASSUME NEW a, NEW c \in Range(list), MatchesArticle(c, a)
        PROVE  Leading(list, a) # << >>
    <2>1. PICK S : S = {d \in Chunks : MatchesArticle(d, a)}
      OBVIOUS
    <2>2. c \in S
      <3>1. c \in Chunks
        BY RangeIs
      <3>. QED  BY <1>6, <2>1, <3>1
    <2>3. Among(list, S) # << >>
      BY <2>2, FirstAmong
    <2>. QED  BY <2>1, <2>3 DEF Leading
  <1>7. PICK picks : picks = [n \in DOMAIN covered |-> Leading(list, covered[n])[1]]
    OBVIOUS
  <1>8. r = Once(picks)
    BY <1>1, <1>2, <1>7 DEF Reserve
  <1>9. DOMAIN covered = 1 .. Len(covered) /\ Len(covered) \in Nat
    BY <1>3, LenProperties
  <1>10. ASSUME NEW n \in DOMAIN covered
         PROVE  /\ picks[n] \in Chunks /\ MatchesArticle(picks[n], covered[n]) /\ picks[n] \in Range(list)
                /\ picks[n] = Leading(list, covered[n])[1]
    <2>1. covered[n] \in Range(covered)
      BY DEF Range
    <2>2. Leading(list, covered[n]) # << >>
      BY <1>3, <2>1
    <2>3. picks[n] = Leading(list, covered[n])[1]
      BY <1>7
    <2>. QED  BY <1>5, <2>2, <2>3
  <1>11. picks \in Seq(Chunks) /\ Len(picks) = Len(covered) /\ DOMAIN picks = DOMAIN covered
    <2>1. picks \in [1 .. Len(covered) -> Chunks]
      BY <1>7, <1>9, <1>10
    <2>. QED  BY <1>9, <2>1
  <1>12. r \in Seq(Chunks) /\ Plain(r) /\ Range(r) = Range(picks)
    BY <1>8, <1>11, OnceIs
  <1>13. Len(r) <= ResultLimit
    <2>1. Len(r) <= Len(picks)
      BY <1>11, <1>12, PlainIsShorter
    <2>2. Len(r) \in Nat /\ ResultLimit \in Nat
      BY <1>12, EnsembleAssumption, LenProperties
    <2>. QED  BY <1>4, <1>9, <1>11, <2>1, <2>2
  <1>14. ASSUME NEW i \in DOMAIN named, NEW c \in Range(list), MatchesArticle(c, named[i])
         PROVE  \E d \in Range(r) : MatchesArticle(d, named[i])
    <2>1. named[i] \in Range(named) /\ Leading(list, named[i]) # << >>
      BY <1>6, <1>14 DEF Range
    <2>2. named[i] \in Range(covered)
      BY <1>3, <2>1
    <2>3. PICK n \in DOMAIN covered : covered[n] = named[i]
      BY <2>2 DEF Range
    <2>4. picks[n] \in Range(r) /\ MatchesArticle(picks[n], named[i])
      BY <1>10, <1>11, <1>12, <2>3 DEF Range
    <2>. QED  BY <2>4
  <1>15. ASSUME NEW x PROVE Cardinality({d \in Range(r) : d.article = x}) <= 2
    <2>1. ASSUME NEW d \in Range(r), d.article = x
          PROVE  d \in {Leading(list, x)[1], Leading(list, x \div 10)[1]}
      <3>1. PICK n \in DOMAIN covered : picks[n] = d
        BY <1>11, <1>12 DEF Range
      <3>2. covered[n] = x \/ covered[n] = x \div 10
        BY <1>10, <2>1, <3>1 DEF MatchesArticle
      <3>3. d = Leading(list, covered[n])[1]
        BY <1>10, <3>1
      <3>. QED  BY <3>2, <3>3
    <2>2. {d \in Range(r) : d.article = x} \subseteq {Leading(list, x)[1], Leading(list, x \div 10)[1]}
      BY <2>1
    <2>. QED  BY <2>2, TwoAtMost
  <1>16. Range(r) \subseteq Range(list)
    BY <1>10, <1>11, <1>12 DEF Range
  <1>. QED  BY <1>1, <1>12, <1>13, <1>14, <1>15, <1>16 DEF Thin

(* What is selected has every article that the ranked chunks have.         *)
LEMMA SelectedIs ==
    ASSUME LookupOf, NEW order \in Seq(Chunks), NEW s, s = SelectCovering(order)
    PROVE  /\ s \in Seq(Chunks) /\ Range(s) \subseteq Range(order)
           /\ Covers(order) => Covers(s)
  <1>1. PICK r : r = Reserve(order)
    OBVIOUS
  <1>2. r \in Seq(Chunks) /\ Len(r) <= ResultLimit /\ Range(r) \subseteq Range(order)
    BY <1>1, ReserveIs
  <1>3. PICK rest : rest = Among(order, Chunks \ Range(r))
    OBVIOUS
  <1>4. rest \in Seq(Chunks) /\ Range(rest) \subseteq Range(order)
    <2>1. PICK S : S = Chunks \ Range(r)
      OBVIOUS
    <2>. QED  BY <1>3, <2>1, AmongIs
  <1>5. PICK l : l = r \o rest
    OBVIOUS
  <1>6. l \in Seq(Chunks) /\ Len(l) = Len(r) + Len(rest) /\ \A i \in 1 .. Len(r) : l[i] = r[i]
    <2>1. Len(r) \in Nat /\ Len(rest) \in Nat
      BY <1>2, <1>4, LenProperties
    <2>2. /\ r \o rest \in Seq(Chunks) /\ Len(r \o rest) = Len(r) + Len(rest)
          /\ \A i \in 1 .. Len(r) + Len(rest) : (r \o rest)[i] = IF i <= Len(r) THEN r[i] ELSE rest[i - Len(r)]
      BY <1>2, <1>4, ConcatProperties
    <2>3. \A i \in 1 .. Len(r) : i \in 1 .. Len(r) + Len(rest) /\ i <= Len(r)
      BY <2>1
    <2>. QED  BY <1>5, <2>2, <2>3
  <1>7. s = Cut(l, ResultLimit) /\ ResultLimit \in Nat
    BY <1>1, <1>3, <1>5, EnsembleAssumption DEF SelectCovering
  <1>8. s \in Seq(Chunks) /\ Range(s) \subseteq Range(order)
    <2>1. Range(l) = Range(r) \cup Range(rest)
      BY <1>2, <1>4, <1>5, RangeConcatenation
    <2>2. s \in Seq(Chunks) /\ Range(s) \subseteq Range(l)
      BY <1>6, <1>7, CutIs
    <2>. QED  BY <1>2, <1>4, <2>1, <2>2
  <1>9. Range(r) \subseteq Range(s)
    <2>. SUFFICES ASSUME NEW c \in Range(r) PROVE c \in Range(s)
      OBVIOUS
    <2>1. PICK i \in 1 .. Len(r) : r[i] = c
      BY <1>2, RangeIs
    <2>2. i \in DOMAIN l /\ i <= ResultLimit
      <3>1. Len(r) \in Nat /\ Len(rest) \in Nat /\ DOMAIN l = 1 .. Len(l)
        BY <1>2, <1>4, <1>6, LenProperties
      <3>. QED  BY <1>2, <1>6, <1>7, <3>1
    <2>3. l[i] \in Range(Cut(l, ResultLimit))
      BY <1>6, <1>7, <2>2, FirstStay
    <2>. QED  BY <1>6, <1>7, <2>1, <2>3
  <1>10. ASSUME Covers(order) PROVE Covers(s)
    <2>1. ASSUME NEW i \in DOMAIN lookup.named, \E c \in Found : MatchesArticle(c, lookup.named[i])
          PROVE  \E c \in Range(s) : MatchesArticle(c, lookup.named[i])
      <3>1. \E c \in Range(order) : MatchesArticle(c, lookup.named[i])
        BY <1>10, <2>1 DEF Covers
      <3>2. \E c \in Range(r) : MatchesArticle(c, lookup.named[i])
        BY <1>1, <3>1, ReserveIs
      <3>. QED  BY <1>9, <3>2
    <2>. QED  BY <2>1 DEF Covers
  <1>. QED  BY <1>8, <1>10

LEMMA RangeOfAppend ==
    ASSUME NEW m \in Seq(Chunks), NEW c \in Chunks
    PROVE  Append(m, c) \in Seq(Chunks) /\ Range(Append(m, c)) = Range(m) \cup {c}
  <1>1. <<c>> \in Seq(Chunks) /\ Range(<<c>>) = {c}
    BY DEF Range
  <1>2. Range(m \o <<c>>) = Range(m) \cup Range(<<c>>)
    BY <1>1, RangeConcatenation
  <1>3. Append(m, c) = m \o <<c>>
    BY AppendIsConcat
  <1>. QED  BY <1>1, <1>2, <1>3, AppendProperties

(* Adding a chunk of an article that has fewer than two keeps a list thin. *)
LEMMA StaysThin ==
    ASSUME NEW m \in Seq(Chunks), NEW c \in Chunks, Thin(m), c \notin Range(m),
           Cardinality({d \in Range(m) : d.article = c.article}) < 2
    PROVE  Thin(Append(m, c))
  <1>1. Append(m, c) \in Seq(Chunks) /\ Range(Append(m, c)) = Range(m) \cup {c}
    BY RangeOfAppend
  <1>2. PICK S : S = Range(m)
    OBVIOUS
  <1>3. IsFiniteSet(S)
    BY <1>2, RangeIs
  <1>4. ASSUME NEW x PROVE Cardinality({d \in S \cup {c} : d.article = x}) <= 2
    <2>1. PICK A : A = {d \in S : d.article = x}
      OBVIOUS
    <2>2. IsFiniteSet(A) /\ Cardinality(A) <= 2
      <3>1. IsFiniteSet(A)
        BY <1>3, <2>1, FS_Subset
      <3>. QED  BY <1>2, <2>1, <3>1 DEF Thin
    <2>3. CASE c.article = x
      <3>1. {d \in S \cup {c} : d.article = x} = A \cup {c}
        BY <2>1, <2>3
      <3>2. c \notin A /\ Cardinality(A) < 2 /\ Cardinality(A) \in Nat
        BY <1>2, <2>1, <2>2, <2>3, FS_CardinalityType
      <3>3. Cardinality(A \cup {c}) = Cardinality(A) + 1
        BY <2>2, <3>2, FS_AddElement
      <3>4. Cardinality(A \cup {c}) <= 2
        BY <3>2, <3>3
      <3>. QED  BY <3>1, <3>4
    <2>4. CASE c.article # x
      <3>1. {d \in S \cup {c} : d.article = x} = A
        BY <2>1, <2>4
      <3>. QED  BY <2>2, <3>1
    <2>. QED  BY <2>3, <2>4
  <1>. QED  BY <1>1, <1>2, <1>4 DEF Thin

LEMMA DiversifiedIs ==
    ASSUME LookupOf, stage = "diversify", ranked \in Seq(Chunks), Diversify
    PROVE  /\ Thin(ranked') /\ Range(ranked') \subseteq Range(ranked)
           /\ Covers(ranked) =>
                  \A i \in DOMAIN lookup.named :
                      (\E c \in Found : MatchesArticle(c, lookup.named[i])) =>
                          \E c \in Range(ranked') : MatchesArticle(c, lookup.named[i])
  <1>. DEFINE Chain(g) == g = [i \in 0 .. Len(ranked) |->
                                 IF i = 0 THEN Reserve(ranked)
                                 ELSE IF /\ ranked[i] \notin Range(g[i - 1])
                                         /\ Cardinality({d \in Range(g[i - 1]) : d.article = ranked[i].article}) < 2
                                        THEN Append(g[i - 1], ranked[i]) ELSE g[i - 1]]
  <1>1. ranked' = Cut((CHOOSE g : Chain(g))[Len(ranked)], ResultLimit)
    BY DEF Diversify, Collected
  <1>2. PICK list \in Seq(Chunks) : list = ranked
    OBVIOUS
  <1>3. PICK r : r = Reserve(ranked)
    OBVIOUS
  <1>4. r \in Seq(Chunks) /\ Len(r) <= ResultLimit /\ Thin(r) /\ Range(r) \subseteq Range(list)
    BY <1>2, <1>3, ReserveIs
  <1>5. PICK J : J = {p \in Seq(Chunks) \X Chunks :
                         /\ p[2] \notin Range(p[1])
                         /\ Cardinality({d \in Range(p[1]) : d.article = p[2].article}) < 2}
    OBVIOUS
  <1>6. PICK f \in [0 .. Len(list) -> Seq(Chunks)] : Collects(f, r, list, J)
    BY <1>4, CollectsExists
  <1>7. \A m \in Seq(Chunks), c \in Chunks :
            <<m, c>> \in J <=> c \notin Range(m) /\ Cardinality({d \in Range(m) : d.article = c.article}) < 2
    BY <1>5
  <1>8. DOMAIN list = 1 .. Len(list) /\ Len(list) \in Nat /\ \A i \in 1 .. Len(list) : list[i] \in Chunks
    BY LenProperties
  <1>9. Chain(f)
    <2>1. f = [i \in 0 .. Len(list) |->
                 IF i = 0 THEN r
                 ELSE IF <<f[i - 1], list[i]>> \in J THEN Append(f[i - 1], list[i]) ELSE f[i - 1]]
      BY <1>6 DEF Collects
    <2>2. ASSUME NEW i \in 0 .. Len(list), i # 0
          PROVE  <<f[i - 1], list[i]>> \in J <=>
                     /\ list[i] \notin Range(f[i - 1])
                     /\ Cardinality({d \in Range(f[i - 1]) : d.article = list[i].article}) < 2
      <3>1. i - 1 \in 0 .. Len(list) /\ i \in 1 .. Len(list)
        BY <1>8, <2>2
      <3>2. f[i - 1] \in Seq(Chunks) /\ list[i] \in Chunks
        BY <1>6, <1>8, <3>1
      <3>. QED  BY <1>7, <3>2
    <2>. QED  BY <1>2, <1>3, <2>1, <2>2
  <1>10. PICK g : Chain(g) /\ ranked' = Cut(g[Len(ranked)], ResultLimit)
    <2>. HIDE DEF Chain
    <2>. QED  BY <1>1, <1>9, Zenon
  <1>11. PICK T : T = {m \in Seq(Chunks) : /\ Thin(m) /\ Len(r) <= Len(m) /\ Range(m) \subseteq Range(list)
                                           /\ \A i \in 1 .. Len(r) : m[i] = r[i]}
    OBVIOUS
  <1>12. PICK n \in Nat : n = Len(list)
    BY <1>8
  <1>13. PICK U : U = {i \in 0 .. n : g[i] \in T}
    OBVIOUS
  <1>14. 0 \in U
    <2>1. g[0] = r
      <3>1. 0 \in 0 .. Len(ranked)
        BY <1>2, <1>12
      <3>. QED  BY <1>3, <1>10, <3>1
    <2>2. Len(r) \in Nat
      BY <1>4, LenProperties
    <2>3. r \in T
      BY <1>4, <1>11, <2>2
    <2>. QED  BY <1>13, <2>1, <2>3
  <1>15. ASSUME NEW i \in 1 .. n, i - 1 \in U PROVE i \in U
    <2>1. PICK m \in T : m = g[i - 1]
      BY <1>13, <1>15
    <2>2. /\ m \in Seq(Chunks) /\ Thin(m) /\ Len(r) <= Len(m) /\ Range(m) \subseteq Range(list)
          /\ \A j \in 1 .. Len(r) : m[j] = r[j]
      BY <1>11
    <2>3. PICK c \in Chunks : c = list[i] /\ c \in Range(list)
      BY <1>8, <1>12 DEF Range
    <2>4. g[i] = IF /\ ranked[i] \notin Range(g[i - 1])
                    /\ Cardinality({d \in Range(g[i - 1]) : d.article = ranked[i].article}) < 2
                   THEN Append(g[i - 1], ranked[i]) ELSE g[i - 1]
      <3>1. i \in 0 .. Len(ranked) /\ i # 0
        BY <1>2, <1>12
      <3>. QED  BY <1>10, <3>1
    <2>5. g[i] = IF c \notin Range(m) /\ Cardinality({d \in Range(m) : d.article = c.article}) < 2
                   THEN Append(m, c) ELSE m
      BY <1>2, <2>1, <2>3, <2>4
    <2>6. CASE c \notin Range(m) /\ Cardinality({d \in Range(m) : d.article = c.article}) < 2
      <3>1. PICK more : more = Append(m, c)
        OBVIOUS
      <3>2. Thin(more)
        BY <2>2, <2>6, <3>1, StaysThin
      <3>3. /\ more \in Seq(Chunks) /\ Len(more) = Len(m) + 1
            /\ \A j \in 1 .. Len(m) : more[j] = m[j]
        BY <2>2, <3>1, AppendProperties
      <3>4. Len(r) \in Nat /\ Len(m) \in Nat
        BY <1>4, <2>2, LenProperties
      <3>5. \A j \in 1 .. Len(r) : more[j] = r[j]
        BY <2>2, <3>3, <3>4
      <3>6. Len(r) <= Len(more)
        BY <2>2, <3>3, <3>4
      <3>9. Range(more) \subseteq Range(list)
        <4>1. Range(more) = Range(m) \cup {c}
          BY <2>2, <3>1, RangeOfAppend
        <4>. QED  BY <2>2, <2>3, <4>1
      <3>7. more \in T
        BY <1>11, <3>2, <3>3, <3>5, <3>6, <3>9
      <3>8. g[i] = more
        BY <2>5, <2>6, <3>1
      <3>. QED  BY <1>13, <3>7, <3>8
    <2>7. CASE ~(c \notin Range(m) /\ Cardinality({d \in Range(m) : d.article = c.article}) < 2)
      <3>1. g[i] = m
        BY <2>5, <2>7
      <3>. QED  BY <1>13, <3>1
    <2>. QED  BY <2>6, <2>7
  <1>16. PICK last \in T : last = g[Len(ranked)]
    <2>1. \A i \in 0 .. n : i \in U
      BY <1>14, <1>15, UpTo
    <2>2. n \in U
      BY <2>1
    <2>. QED  BY <1>2, <1>12, <1>13, <2>2
  <1>17. /\ last \in Seq(Chunks) /\ Thin(last) /\ Len(r) <= Len(last) /\ Range(last) \subseteq Range(list)
         /\ \A j \in 1 .. Len(r) : last[j] = r[j]
    BY <1>11
  <1>18. PICK s : s = Cut(last, ResultLimit)
    OBVIOUS
  <1>19. ranked' = s /\ ResultLimit \in Nat
    BY <1>10, <1>16, <1>18, EnsembleAssumption
  <1>20. Thin(s) /\ Range(s) \subseteq Range(list)
    <2>1. Range(s) \subseteq Range(last)
      BY <1>17, <1>18, <1>19, CutIs
    <2>2. ASSUME NEW x PROVE Cardinality({d \in Range(s) : d.article = x}) <= 2
      <3>1. PICK A : A = {d \in Range(last) : d.article = x}
        OBVIOUS
      <3>2. PICK B : B = {d \in Range(s) : d.article = x}
        OBVIOUS
      <3>3. B \subseteq A
        BY <2>1, <3>1, <3>2
      <3>4. IsFiniteSet(Range(last))
        BY <1>17, RangeIs
      <3>5. IsFiniteSet(A)
        BY <3>1, <3>4, FS_Subset
      <3>6. Cardinality(A) <= 2 /\ Cardinality(A) \in Nat
        BY <1>17, <3>1, <3>5, FS_CardinalityType DEF Thin
      <3>7. IsFiniteSet(B) /\ Cardinality(B) <= Cardinality(A)
        BY <3>3, <3>5, FS_Subset
      <3>8. Cardinality(B) \in Nat
        BY <3>7, FS_CardinalityType
      <3>. QED  BY <3>2, <3>6, <3>7, <3>8
    <2>. QED  BY <1>17, <2>1, <2>2 DEF Thin
  <1>21. Range(r) \subseteq Range(s)
    <2>. SUFFICES ASSUME NEW c \in Range(r) PROVE c \in Range(s)
      OBVIOUS
    <2>1. PICK j \in 1 .. Len(r) : r[j] = c
      BY <1>4, RangeIs
    <2>2. j \in DOMAIN last /\ j <= ResultLimit
      <3>1. Len(r) \in Nat /\ Len(last) \in Nat /\ DOMAIN last = 1 .. Len(last)
        BY <1>4, <1>17, LenProperties
      <3>. QED  BY <1>4, <1>17, <1>19, <3>1
    <2>3. last[j] \in Range(Cut(last, ResultLimit))
      BY <1>17, <1>19, <2>2, FirstStay
    <2>. QED  BY <1>17, <1>18, <2>1, <2>3
  <1>22. ASSUME Covers(ranked), NEW i \in DOMAIN lookup.named, \E c \in Found : MatchesArticle(c, lookup.named[i])
         PROVE  \E c \in Range(s) : MatchesArticle(c, lookup.named[i])
    <2>1. \E c \in Range(ranked) : MatchesArticle(c, lookup.named[i])
      BY <1>22 DEF Covers
    <2>2. \E c \in Range(r) : MatchesArticle(c, lookup.named[i])
      BY <1>3, <2>1, ReserveIs
    <2>. QED  BY <1>21, <2>2
  <1>. QED  BY <1>2, <1>19, <1>20, <1>22

(* Of what was found under the number of a named article there is          *)
(* something among the results, the article itself if nothing else is      *)
(* found there, and no article takes more than two places:                 *)
(* _select_with_explicit_coverage and _apply_diversity, for any corpus and *)
(* any order the rankers make.                                             *)
THEOREM NamedArticlesStay == EnsembleSpec => []NamedArticlesAreKept
  <1>1. EnsembleInit => EnsembleInv
    BY LookupsAre DEF EnsembleInit, EnsembleInv, NamedArticlesAreKept
  <1>2. EnsembleInv /\ [EnsembleNext]_ensembleVars => EnsembleInv'
    <2>. SUFFICES ASSUME EnsembleInv, [EnsembleNext]_ensembleVars PROVE EnsembleInv'
      OBVIOUS
    <2>1. CASE Fuse
      <3>1. stage = "fuse" /\ lookup' = lookup /\ stage' = IF Met = << >> THEN "done" ELSE "rerank"
        BY <2>1 DEF Fuse
      <3>2. LookupOf /\ LookupOf'
        BY <3>1 DEF EnsembleInv, LookupOf
      <3>3. PICK named : named = {c \in Chunks : MatchesAny(c, lookup.named)}
        OBVIOUS
      <3>4. PICK score : score = [c \in Range(Met) |-> FusedScore(c)]
        OBVIOUS
      <3>5. PICK fused : fused = ByScore(Met, score)
        OBVIOUS
      <3>6. ranked' = Among(fused, named) \o Among(fused, Chunks \ named)
        BY <2>1, <3>3, <3>4, <3>5 DEF Fuse, BestFirst
      <3>7. score \in [Range(Met) -> Nat]
        <4>1. /\ lookup.dense \in Seq(Chunks) /\ lookup.lexical \in Seq(Chunks) /\ Explicit \in Seq(Chunks)
          BY <3>2, ExplicitIs DEF LookupOf
        <4>2. ASSUME NEW c PROVE FusedScore(c) \in Nat
          <5>1. Share(lookup.dense, c) \in Nat /\ Share(lookup.lexical, c) \in Nat /\ Share(Explicit, c) \in Nat
            BY <4>1, SharesAre
          <5>. QED  BY <5>1 DEF FusedScore
        <4>. QED  BY <3>4, <4>2
      <3>8. /\ ranked' \in Seq(Chunks) /\ Plain(ranked') /\ Range(ranked') = Found /\ WantedFirst(ranked')
        BY <3>2, <3>3, <3>5, <3>6, <3>7, FusedIs
      <3>9. Found' = Found
        BY <3>1 DEF Found, Explicit
      <3>10. WantedFirst(ranked)'
        BY <3>1, <3>8 DEF WantedFirst
      <3>11. NamedArticlesAreKept'
        <4>. SUFFICES ASSUME stage' = "done" PROVE NamedArticlesAreKept'
          BY DEF NamedArticlesAreKept
        <4>1. Met = << >>
          BY <3>1
        <4>2. Found = {}
          <5>1. PICK l : l = lookup.dense \o lookup.lexical \o Explicit
            OBVIOUS
          <5>2. l \in Seq(Chunks) /\ Range(l) = Found
            BY <3>2, <5>1, MetIs
          <5>3. Range(Met) = Range(l)
            <6>1. Met = Once(l)
              BY <5>1 DEF Met
            <6>. QED  BY <5>2, <6>1, OnceIs
          <5>4. Range(<< >>) = {}
            BY DEF Range
          <5>. QED  BY <4>1, <5>2, <5>3, <5>4
        <4>3. Range(ranked') = {} /\ Found' = {}
          BY <3>8, <3>9, <4>2
        <4>. QED  BY <3>1, <4>3 DEF NamedArticlesAreKept, Under
      <3>. QED  BY <3>1, <3>2, <3>8, <3>9, <3>10, <3>11 DEF EnsembleInv
    <2>2. CASE Rerank
      <3>1. stage = "rerank" /\ lookup' = lookup /\ stage' = "diversify"
        BY <2>2 DEF Rerank
      <3>2. LookupOf /\ LookupOf' /\ Found' = Found
        BY <3>1 DEF EnsembleInv, LookupOf, Found, Explicit
      <3>3. PICK order \in Orders : ranked' = SelectCovering(order)
        BY <2>2 DEF Rerank
      <3>4. ranked \in Seq(Chunks) /\ Plain(ranked) /\ Range(ranked) = Found /\ WantedFirst(ranked)
        BY <3>1 DEF EnsembleInv
      <3>5. PICK S : S = Range(RerankCandidates)
        OBVIOUS
      <3>6. IsFiniteSet(S) /\ S \subseteq Chunks
        <4>1. RerankTopN \in Nat
          BY EnsembleAssumption
        <4>2. RerankCandidates \in Seq(Chunks)
          BY <3>4, <4>1, CutIs DEF RerankCandidates
        <4>. QED  BY <3>5, <4>2, RangeIs
      <3>7. order \in Seq(S) /\ Range(order) = S
        BY <3>3, <3>5, <3>6, OrdersAre DEF Orders
      <3>8. order \in Seq(Chunks)
        BY <3>6, <3>7
      <3>9. Few => Covers(order)
        <4>1. Few => Covers(RerankCandidates)
          BY <3>2, <3>4, FewAreRanked
        <4>. QED  BY <3>5, <3>7, <4>1 DEF Covers
      <3>10. ranked' \in Seq(Chunks) /\ Range(ranked') \subseteq Range(order) /\ (Covers(order) => Covers(ranked'))
        BY <3>2, <3>3, <3>8, SelectedIs
      <3>14. Range(ranked') \subseteq Found'
        <4>1. RerankTopN \in Nat
          BY EnsembleAssumption
        <4>2. S \subseteq Range(ranked)
          BY <3>4, <3>5, <4>1, CutIs DEF RerankCandidates
        <4>. QED  BY <3>2, <3>4, <3>7, <3>10, <4>2
      <3>11. Few' = Few
        BY <3>1, <3>2 DEF Few, Wanted
      <3>12. Covers(ranked') => Covers(ranked)'
        BY <3>1, <3>2 DEF Covers
      <3>13. ranked' \in Seq(Chunks) /\ (Few' => Covers(ranked)')
        BY <3>9, <3>10, <3>11, <3>12
      <3>. QED  BY <3>1, <3>2, <3>13, <3>14 DEF EnsembleInv, NamedArticlesAreKept
    <2>3. CASE Diversify
      <3>1. stage = "diversify" /\ lookup' = lookup /\ stage' = "done"
        BY <2>3 DEF Diversify
      <3>2. LookupOf /\ LookupOf' /\ Found' = Found
        BY <3>1 DEF EnsembleInv, LookupOf, Found, Explicit
      <3>3. ranked \in Seq(Chunks) /\ Range(ranked) \subseteq Found /\ (Few => Covers(ranked))
        BY <3>1 DEF EnsembleInv
      <3>4. /\ Thin(ranked') /\ Range(ranked') \subseteq Range(ranked)
            /\ Covers(ranked) =>
                  \A i \in DOMAIN lookup.named :
                      (\E c \in Found : MatchesArticle(c, lookup.named[i])) =>
                          \E c \in Range(ranked') : MatchesArticle(c, lookup.named[i])
        BY <2>3, <3>1, <3>2, <3>3, DiversifiedIs
      <3>5. Few \in BOOLEAN /\ (Few <=> Cardinality({c \in Found : MatchesAny(c, lookup.named)}) <= RerankTopN)
        BY DEF Few, Wanted
      <3>7. ASSUME Few, NEW i \in DOMAIN lookup.named, Under(lookup.named[i]) # {}
            PROVE  /\ Under(lookup.named[i]) \cap Range(ranked') # {}
                   /\ (\A c \in Under(lookup.named[i]) : c.article = lookup.named[i]) =>
                         \E c \in Range(ranked') : c.article = lookup.named[i]
        <4>1. \E c \in Found : MatchesArticle(c, lookup.named[i])
          BY <3>7 DEF Under
        <4>2. PICK c \in Range(ranked') : MatchesArticle(c, lookup.named[i])
          BY <3>3, <3>4, <3>7, <4>1
        <4>3. c \in Under(lookup.named[i])
          BY <3>3, <3>4, <4>2 DEF Under
        <4>. QED  BY <4>2, <4>3
      <3>8. \A a : Under(a)' = Under(a)
        BY <3>2 DEF Under
      <3>6. NamedArticlesAreKept'
        BY <3>1, <3>2, <3>4, <3>5, <3>7, <3>8 DEF NamedArticlesAreKept, Thin
      <3>. QED  BY <3>1, <3>2, <3>6 DEF EnsembleInv
    <2>4. CASE UNCHANGED ensembleVars
      <3>1. lookup' = lookup /\ stage' = stage /\ ranked' = ranked
        BY <2>4 DEF ensembleVars
      <3>2. Found' = Found
        BY <3>1 DEF Found, Explicit
      <3>. QED  BY <3>1, <3>2 DEF EnsembleInv, LookupOf, WantedFirst, Few, Wanted, Covers, NamedArticlesAreKept, Under
    <2>. QED  BY <2>1, <2>2, <2>3, <2>4 DEF EnsembleNext
  <1>3. EnsembleInv => NamedArticlesAreKept
    BY DEF EnsembleInv
  <1>. QED  BY <1>1, <1>2, <1>3, PTL DEF EnsembleSpec

(***************************************************************************)
(* The output guardrail                                                    *)
(***************************************************************************)

LEMMA CriticTyped ==
    ASSUME NEW v \in CriticVerdicts
    PROVE  /\ v.corrected \in Corrections
           /\ v.approved \in BOOLEAN /\ v.fatal \in BOOLEAN /\ v.nonresponsive \in BOOLEAN
           /\ v.status \in {"unavailable", "insufficient"} => v.fatal
  <1>1. CASE v = CriticOutage
    BY <1>1 DEF CriticOutage, Corrections
  <1>2. CASE \E r \in CriticReplies : v = Reviewed(r)
    <2>1. PICK r \in CriticReplies : v = Reviewed(r)
      BY <1>2
    <2>2. /\ r.approved \in BOOLEAN /\ r.fatal \in BOOLEAN /\ r.nonresponsive \in BOOLEAN
          /\ r.corrected \in Corrections
      BY DEF CriticReplies
    <2>. DEFINE status == CanonicalStatus(r.status, r.approved /\ ~r.fatal, r.reason)
    <2>3. v = [approved |-> r.approved /\ status = "verified",
               fatal |-> r.fatal \/ status \in {"unavailable", "insufficient"},
               nonresponsive |-> r.nonresponsive, corrected |-> r.corrected, status |-> status]
      BY <2>1 DEF Reviewed
    <2>. HIDE DEF status
    <2>. QED  BY <2>2, <2>3
  <1>. QED  BY <1>1, <1>2 DEF CriticVerdicts

LEMMA ReasonsAreCanned ==
    ASSUME NEW status
    PROVE  ReasonOf(status) \in {"insufficient_evidence", "unsupported_claim", "unavailable"}
  BY DEF ReasonOf

-------------------------------------------------------------------------------
(* What is known between two checks: of the request, of the trust in the   *)
(* draft, and of the draft that may be kept.                               *)
GuardInv ==
    /\ guarded \in GuardRequests
    /\ check \in GuardPhases
    /\ check # "done" => released = "none"
    /\ check \notin {"start", "done"} =>
          /\ guarded.docs /\ guarded.text = "draft"
          /\ MustBeReviewed => guarded.verifier /\ guarded.critic
    /\ supported \in BOOLEAN /\ keep \in BOOLEAN
    /\ supported => "draft" \in trusted
    /\ keep => supported /\ check \in {"recheck", "done"}

LEMMA StopStep ==
    ASSUME GuardInv, check # "done", NEW reason, Stop(reason),
           \/ reason \in Refusals(guarded.text)
           \/ /\ check # "start"
              /\ reason \in {"insufficient_evidence", "unsupported_claim", "unavailable", "rejected"},
           UNCHANGED guarded
    PROVE  KeepsContract' /\ ReleasedIsTrusted' /\ check' = "done" /\ ~verdict'.passed
  <1>1. reason \in Refusals(guarded.text)
    BY DEF GuardInv, Refusals
  <1>2. Verdict(FALSE, reason, "canned") \in VerdictsOn(guarded.text, guarded.docs, guarded.require)
    BY <1>1 DEF VerdictsOn
  <1>. QED  BY <1>2 DEF GuardInv, Stop, KeepsContract, ReleasedIsTrusted, Verdict

LEMMA ReleaseStep ==
    ASSUME GuardInv, check # "done", NEW text \in Candidates, Release(text), UNCHANGED guarded,
           guarded.text # "empty", guarded.docs \/ ~guarded.require,
           text # "draft" => guarded.docs /\ guarded.text = "draft"
    PROVE  KeepsContract' /\ check' = "done" /\ verdict'.passed /\ released' = text
  <1>. DEFINE out == CASE text # "draft" -> "corrected"
                       [] guarded.text = "draft" -> "draft"
                       [] OTHER -> "empty"
  <1>1. verdict' = Verdict(TRUE, "ok", out) /\ check' = "done" /\ released' = text
    BY DEF Release
  <1>2. out \in Releases(guarded.text, guarded.docs)
    BY DEF Candidates, Releases, GuardInv, GuardRequests
  <1>3. Verdict(TRUE, "ok", out) \in VerdictsOn(guarded.text, guarded.docs, guarded.require)
    <2>. HIDE DEF out
    <2>. QED  BY <1>2 DEF VerdictsOn
  <1>. QED  BY <1>1, <1>3 DEF KeepsContract, Verdict

-------------------------------------------------------------------------------
GuardSafe == GuardInv /\ KeepsContract /\ ReleasedIsTrusted /\ RewritesCostNoDraft

LEMMA GuardStart == GuardInit => GuardSafe
  BY DEF GuardInit, GuardSafe, GuardInv, GuardPhases, KeepsContract, ReleasedIsTrusted,
         RewritesCostNoDraft

LEMMA StartStep == GuardSafe /\ Start => GuardSafe'
  <1>. SUFFICES ASSUME GuardSafe, Start PROVE GuardSafe'
    OBVIOUS
  <1>. USE DEF GuardSafe
  <1>0. check # "done" /\ UNCHANGED <<guarded, candidate, flagged, supported, keep, trusted>> /\ ~keep
    BY DEF Start, GuardInv
  <1>1. CASE \/ guarded.text = "empty" /\ Stop("rejected")
             \/ /\ guarded.text # "empty"
                /\ \E r \in {"unavailable", "insufficient_evidence"} : Stop(r)
    <2>0. guarded.text \in {"draft", "empty", "placeholders"}
      BY DEF GuardInv, GuardRequests
    <2>1. KeepsContract' /\ ReleasedIsTrusted' /\ check' = "done"
      BY <1>0, <1>1, <2>0, StopStep DEF Refusals
    <2>. QED  BY <1>0, <2>1 DEF GuardInv, GuardPhases, RewritesCostNoDraft
  <1>2. CASE Release("draft") /\ guarded.text # "empty" /\ ~LacksEvidence
             /\ (~guarded.docs \/ guarded.text = "placeholders")
    <2>1. guarded.docs \/ ~guarded.require
      BY <1>2 DEF LacksEvidence, GuardInv, GuardRequests
    <2>2. KeepsContract' /\ check' = "done" /\ released' = "draft"
      BY <1>0, <1>2, <2>1, ReleaseStep DEF Candidates
    <2>. QED  BY <1>0, <1>2, <2>2 DEF GuardInv, GuardPhases, RewritesCostNoDraft, ReleasedIsTrusted, MustBeReviewed, LegalPolicy
  <1>3. CASE Proceed("structure") /\ guarded.text # "empty"
             /\ (MustBeReviewed => guarded.verifier /\ guarded.critic)
             /\ guarded.docs /\ guarded.text # "placeholders"
    BY <1>0, <1>3 DEF Proceed, GuardInv, GuardPhases, GuardRequests, KeepsContract, ReleasedIsTrusted,
                 RewritesCostNoDraft, MustBeReviewed, LegalPolicy
  <1>4. ReviewerMissing \/ (MustBeReviewed => guarded.verifier /\ guarded.critic)
    BY DEF ReviewerMissing
  <1>. QED  BY <1>1, <1>2, <1>3, <1>4 DEF Start

LEMMA StructureStep == GuardSafe /\ CheckStructure => GuardSafe'
  <1>. SUFFICES ASSUME GuardSafe, CheckStructure PROVE GuardSafe'
    OBVIOUS
  <1>. USE DEF GuardSafe
  <1>0. check = "structure" /\ UNCHANGED <<guarded, candidate, flagged, supported, keep, trusted>> /\ ~keep
    BY DEF CheckStructure, GuardInv
  <1>1. CASE Stop("rejected")
    <2>1. KeepsContract' /\ ReleasedIsTrusted' /\ check' = "done"
      BY <1>0, <1>1, StopStep
    <2>. QED  BY <1>0, <2>1 DEF GuardInv, GuardPhases, RewritesCostNoDraft
  <1>2. CASE Proceed("claims")
    BY <1>0, <1>2 DEF Proceed, GuardInv, GuardPhases, KeepsContract, ReleasedIsTrusted,
                 RewritesCostNoDraft, MustBeReviewed, LegalPolicy
  <1>. QED  BY <1>1, <1>2 DEF CheckStructure

LEMMA GuardClaimsStep == GuardSafe /\ (CheckClaims \/ ClaimsCheckRaises) => GuardSafe'
  <1>. SUFFICES ASSUME GuardSafe, CheckClaims \/ ClaimsCheckRaises PROVE GuardSafe'
    OBVIOUS
  <1>. USE DEF GuardSafe
  <1>0. check = "claims" /\ UNCHANGED <<guarded, candidate, keep>> /\ ~keep
    BY DEF CheckClaims, ClaimsCheckRaises, GuardInv
  <1>3. supported' \in BOOLEAN /\ (supported' => "draft" \in trusted')
    <2>1. CASE CheckClaims /\ AsksVerifier
      <3>1. PICK outcome \in SupportOutcomes :
               /\ supported' = (outcome.status = "verified")
               /\ trusted' = IF outcome.status = "verified" THEN {"draft"} ELSE {}
        BY <2>1 DEF CheckClaims
      <3>. QED  BY <3>1
    <2>2. CASE UNCHANGED <<supported, trusted>>
      BY <2>2 DEF GuardInv
    <2>. QED  BY <2>1, <2>2 DEF CheckClaims, ClaimsCheckRaises
  <1>1. CASE \E r \in {"insufficient_evidence", "unsupported_claim", "unavailable"} : Stop(r)
    <2>1. KeepsContract' /\ ReleasedIsTrusted' /\ check' = "done"
      BY <1>0, <1>1, StopStep
    <2>. QED  BY <1>0, <1>3, <2>1 DEF GuardInv, GuardPhases, RewritesCostNoDraft
  <1>2. CASE Proceed("critic")
    BY <1>0, <1>2, <1>3 DEF Proceed, GuardInv, GuardPhases, KeepsContract, ReleasedIsTrusted,
                 RewritesCostNoDraft, MustBeReviewed, LegalPolicy
  <1>. QED  BY <1>1, <1>2, ReasonsAreCanned DEF CheckClaims, ClaimsCheckRaises

(* The critic: what is released is approved, given back, or supported.     *)
LEMMA GuardReviewStep == GuardSafe /\ Review => GuardSafe'
  <1>. SUFFICES ASSUME GuardSafe, Review PROVE GuardSafe'
    OBVIOUS
  <1>. USE DEF GuardSafe
  <1>0. /\ check = "critic" /\ UNCHANGED <<guarded, flagged, supported>> /\ ~keep
        /\ guarded.docs /\ guarded.text = "draft"
        /\ MustBeReviewed => AsksCritic
    BY DEF Review, GuardInv, MustBeReviewed, AsksCritic
  <1>1. CASE ~AsksCritic
    <2>1. Release("draft") /\ UNCHANGED <<candidate, keep, trusted>>
      BY <1>1 DEF Review
    <2>2. KeepsContract' /\ check' = "done"
      BY <1>0, <2>1, ReleaseStep DEF Candidates
    <2>3. ~MustBeReviewed
      BY <1>0, <1>1
    <2>4. ~MustBeReviewed'
      BY <1>0, <2>3 DEF MustBeReviewed, LegalPolicy
    <2>. QED  BY <1>0, <2>1, <2>2, <2>4 DEF GuardInv, GuardPhases, RewritesCostNoDraft, ReleasedIsTrusted
  <1>2. CASE AsksCritic
    <2>1. PICK v \in CriticVerdicts :
             /\ \/ v.status = "unavailable"  /\ Stop("unavailable")
                \/ v.status = "insufficient" /\ Stop("insufficient_evidence")
                \/ /\ v.status \notin {"unavailable", "insufficient"}
                   /\ \/ Refuses(v) /\ Stop("rejected")
                      \/ ~Refuses(v) /\ v.corrected = "new" /\ Proceed("recheck")
                      \/ ~Refuses(v) /\ v.corrected # "new" /\ Release("draft")
             /\ keep' = Keepable(v)
             /\ trusted' = trusted \cup (IF StandsBehindDraft(v) THEN {"draft"} ELSE {})
      BY <1>2 DEF Review
    <2>2. /\ v.corrected \in Corrections
          /\ v.approved \in BOOLEAN /\ v.fatal \in BOOLEAN /\ v.nonresponsive \in BOOLEAN
          /\ v.status \in {"unavailable", "insufficient"} => v.fatal
      BY CriticTyped
    <2>3. /\ keep' \in BOOLEAN /\ (keep' => supported /\ ~v.fatal /\ ~v.nonresponsive)
          /\ trusted \subseteq trusted'
      BY <2>1, <2>2 DEF Keepable, GuardInv
    <2>4. supported' => "draft" \in trusted'
      BY <1>0, <2>3 DEF GuardInv
    <2>5. CASE \E r \in {"insufficient_evidence", "rejected", "unavailable"} :
                  Stop(r) /\ (v.fatal \/ Refuses(v))
      <3>1. KeepsContract' /\ ReleasedIsTrusted' /\ check' = "done"
        BY <1>0, <2>5, StopStep
      <3>2. ~keep'
        BY <2>1, <2>2, <2>3, <2>5 DEF Refuses, Keepable
      <3>. QED  BY <1>0, <2>3, <2>4, <3>1, <3>2 DEF GuardInv, GuardPhases, RewritesCostNoDraft
    <2>6. CASE Proceed("recheck")
      BY <1>0, <2>3, <2>4, <2>6 DEF Proceed, GuardInv, GuardPhases, KeepsContract, ReleasedIsTrusted,
                   RewritesCostNoDraft, MustBeReviewed, LegalPolicy
    <2>7. CASE ~Refuses(v) /\ v.corrected # "new" /\ Release("draft")
      <3>1. KeepsContract' /\ check' = "done" /\ verdict'.passed /\ released' = "draft"
        BY <1>0, <2>7, ReleaseStep DEF Candidates
      <3>2. v.approved \/ v.corrected = "same" \/ supported
        BY <2>2, <2>7 DEF Refuses, Corrections
      <3>3. "draft" \in trusted'
        BY <2>1, <2>3, <3>2 DEF StandsBehindDraft, GuardInv
      <3>. QED  BY <1>0, <2>3, <2>4, <3>1, <3>3 DEF GuardInv, GuardPhases, RewritesCostNoDraft, ReleasedIsTrusted
    <2>. QED  BY <2>1, <2>2, <2>5, <2>6, <2>7
  <1>. QED  BY <1>1, <1>2

LEMMA ReviewRaisesStep == GuardSafe /\ ReviewRaises => GuardSafe'
  <1>. SUFFICES ASSUME GuardSafe, ReviewRaises PROVE GuardSafe'
    OBVIOUS
  <1>. USE DEF GuardSafe
  <1>0. check = "critic" /\ UNCHANGED <<guarded, candidate, flagged, supported, keep, trusted>> /\ ~keep
        /\ guarded.docs /\ guarded.text = "draft"
    BY DEF ReviewRaises, GuardInv
  <1>1. CASE MustBeReviewed
    <2>1. KeepsContract' /\ ReleasedIsTrusted' /\ check' = "done"
      BY <1>0, <1>1, StopStep DEF ReviewRaises
    <2>. QED  BY <1>0, <2>1 DEF GuardInv, GuardPhases, RewritesCostNoDraft
  <1>2. CASE ~MustBeReviewed
    <2>1. KeepsContract' /\ check' = "done"
      BY <1>0, <1>2, ReleaseStep DEF Candidates, ReviewRaises
    <2>2. ~MustBeReviewed'
      BY <1>0, <1>2 DEF MustBeReviewed, LegalPolicy
    <2>. QED  BY <1>0, <2>1, <2>2 DEF GuardInv, GuardPhases, RewritesCostNoDraft, ReleasedIsTrusted
  <1>. QED  BY <1>1, <1>2

-------------------------------------------------------------------------------
(* A correction: released when it is verified, else the draft may be kept.  *)
LEMMA KeepingStep ==
    ASSUME GuardSafe, check = "recheck", NEW reason, KeepDraftOr(reason),
           reason \in {"insufficient_evidence", "unsupported_claim", "unavailable", "rejected"},
           UNCHANGED <<guarded, supported, keep>>, trusted \subseteq trusted'
    PROVE  GuardSafe'
  <1>. USE DEF GuardSafe
  <1>0. guarded.docs /\ guarded.text = "draft"
    BY DEF GuardInv
  <1>1. CASE keep
    <2>1. KeepsContract' /\ check' = "done" /\ verdict'.passed /\ released' = "draft"
      BY <1>0, <1>1, ReleaseStep DEF Candidates, KeepDraftOr
    <2>2. "draft" \in trusted'
      BY <1>1 DEF GuardInv
    <2>. QED  BY <2>1, <2>2 DEF GuardInv, GuardPhases, RewritesCostNoDraft, ReleasedIsTrusted
  <1>2. CASE ~keep
    <2>1. KeepsContract' /\ ReleasedIsTrusted' /\ check' = "done"
      BY <1>2, StopStep DEF KeepDraftOr
    <2>. QED  BY <1>2, <2>1 DEF GuardInv, GuardPhases, RewritesCostNoDraft
  <1>. QED  BY <1>1, <1>2

LEMMA GuardCorrectionStep == GuardSafe /\ CheckCorrection => GuardSafe'
  <1>. SUFFICES ASSUME GuardSafe, CheckCorrection PROVE GuardSafe'
    OBVIOUS
  <1>. USE DEF GuardSafe
  <1>0. check = "recheck" /\ UNCHANGED <<guarded, candidate, flagged, supported, keep>>
        /\ guarded.docs /\ guarded.text = "draft" /\ (MustBeReviewed => AsksVerifier)
    BY DEF CheckCorrection, GuardInv, MustBeReviewed, AsksVerifier
  <1>1. trusted \subseteq trusted'
    BY DEF CheckCorrection
  <1>2. CASE \E r \in {"insufficient_evidence", "unsupported_claim", "unavailable"} : KeepDraftOr(r)
    BY <1>0, <1>1, <1>2, KeepingStep
  <1>3. CASE Release("corrected") /\ (AsksVerifier => "corrected" \in trusted')
    <2>1. KeepsContract' /\ check' = "done" /\ verdict'.passed /\ released' = "corrected"
      BY <1>0, <1>3, ReleaseStep DEF Candidates
    <2>2. MustBeReviewed' => "corrected" \in trusted'
      BY <1>0, <1>3 DEF MustBeReviewed, LegalPolicy
    <2>. QED  BY <1>0, <1>1, <2>1, <2>2 DEF GuardInv, GuardPhases, RewritesCostNoDraft, ReleasedIsTrusted
  <1>4. CASE Proceed("retry") /\ ~keep
    BY <1>0, <1>1, <1>4 DEF Proceed, GuardInv, GuardPhases, KeepsContract, ReleasedIsTrusted,
                 RewritesCostNoDraft, MustBeReviewed, LegalPolicy
  <1>5. CASE ~keep /\ \E r \in {"insufficient_evidence", "unsupported_claim", "unavailable"} : Stop(r)
    <2>1. KeepsContract' /\ ReleasedIsTrusted' /\ check' = "done"
      BY <1>0, <1>5, StopStep
    <2>. QED  BY <1>0, <1>1, <1>5, <2>1 DEF GuardInv, GuardPhases, RewritesCostNoDraft
  <1>. QED  BY <1>2, <1>3, <1>4, <1>5, ReasonsAreCanned DEF CheckCorrection, VerifiesCorrection, MayRetry

LEMMA RecheckFailsStep == GuardSafe /\ (RecheckStructureFails \/ RecheckRaises) => GuardSafe'
  <1>. SUFFICES ASSUME GuardSafe, RecheckStructureFails \/ RecheckRaises PROVE GuardSafe'
    OBVIOUS
  <1>1. check = "recheck" /\ UNCHANGED <<guarded, supported, keep, trusted>>
        /\ (KeepDraftOr("rejected") \/ KeepDraftOr("unavailable"))
    BY DEF RecheckStructureFails, RecheckRaises
  <1>. QED  BY <1>1, KeepingStep

LEMMA RetryStep == GuardSafe /\ (Retry \/ RetryRaises) => GuardSafe'
  <1>. SUFFICES ASSUME GuardSafe, Retry \/ RetryRaises PROVE GuardSafe'
    OBVIOUS
  <1>. USE DEF GuardSafe
  <1>0. check = "retry" /\ UNCHANGED <<guarded, flagged, supported, keep>> /\ ~keep
        /\ guarded.docs /\ guarded.text = "draft"
    BY DEF Retry, RetryRaises, GuardInv
  <1>1. trusted \subseteq trusted'
    BY DEF Retry, RetryRaises
  <1>2. CASE \E r \in {"insufficient_evidence", "unsupported_claim", "unavailable", "rejected"} : Stop(r)
    <2>1. KeepsContract' /\ ReleasedIsTrusted' /\ check' = "done"
      BY <1>0, <1>2, StopStep
    <2>. QED  BY <1>0, <1>1, <2>1 DEF GuardInv, GuardPhases, RewritesCostNoDraft
  <1>3. CASE Release("retried") /\ "retried" \in trusted'
    <2>1. KeepsContract' /\ check' = "done" /\ verdict'.passed /\ released' = "retried"
      BY <1>0, <1>3, ReleaseStep DEF Candidates
    <2>. QED  BY <1>0, <1>1, <1>3, <2>1 DEF GuardInv, GuardPhases, RewritesCostNoDraft, ReleasedIsTrusted
  <1>. QED  BY <1>2, <1>3, ReasonsAreCanned DEF Retry, RetryRaises

LEMMA GuardSafeStep == GuardSafe /\ [GuardNext]_guardVars => GuardSafe'
  <1>1. GuardSafe /\ UNCHANGED guardVars => GuardSafe'
    BY DEF GuardSafe, GuardInv, KeepsContract, ReleasedIsTrusted, RewritesCostNoDraft, MustBeReviewed,
           LegalPolicy, guardVars
  <1>. QED  BY <1>1, StartStep, StructureStep, GuardClaimsStep, GuardReviewStep, ReviewRaisesStep, GuardCorrectionStep,
               RecheckFailsStep, RetryStep DEF GuardNext

LEMMA GuardStaysSafe == GuardSpec => []GuardSafe
  BY GuardStart, GuardSafeStep, PTL DEF GuardSpec

-------------------------------------------------------------------------------
(* check_output never lets a legal answer through, with the circuit breaker *)
(* on, that no reviewer stood behind in the words that go out.             *)
THEOREM ReleasesAreTrusted == GuardSpec => []ReleasedIsTrusted
  BY GuardStaysSafe, PTL DEF GuardSafe

(* check_output returns only verdicts that AgentStream is checked against. *)
THEOREM ContractIsKept == GuardSpec => []KeepsContract
  BY GuardStaysSafe, PTL DEF GuardSafe

(* A correction that fails never costs a draft that had passed.            *)
THEOREM PassedDraftsSurvive == GuardSpec => []RewritesCostNoDraft
  BY GuardStaysSafe, PTL DEF GuardSafe

(***************************************************************************)
(* The legal workflow                                                      *)
(***************************************************************************)

Places == {"validate_input", "load_context", "understand_task", "ask_user", "check_cache",
           "answer_cache", "retrieve_legal", "evaluate_evidence", "retrieve_web", "compose",
           "verify", "claims", "verifier_correction", "critic_correction", "generation_repair",
           "critic", "recheck", "decide", "repair", "finish", "safe_stop"} \cup Ended

Texts == [by : {"nobody", "model", "web", "cache", "verifier", "critic", "repair", "program"},
          marks : SUBSET Marks]

EndReasons == {"", "invalid_input", "awaiting_user_input", "cache_hit", "research_complete",
                 "answer_complete", "insufficient_evidence", "out_of_scope",
                 "citation_verification_failed"}

States ==
    [answer : Texts, evidence : BOOLEAN, sufficient : BOOLEAN,
     reason : {"", "parse_failed", "readiness", "defective", "ok", "weak"},
     valid : BOOLEAN, error : {"", "ok", "readiness", "other"},
     source : {"", "follow_up", "legal", "cache", "web_search", "chitchat", "error"},
     termination : EndReasons, retrievals : Nat, repairs : Nat, iteration : Nat]

Reviews == [supported : BOOLEAN, corrected : BOOLEAN, draft : Texts, lenient : BOOLEAN]

WorkflowTypes ==
    /\ request \in Requests /\ manifest \in Manifests /\ pc \in Places
    /\ state \in States /\ review \in Reviews

(* A text that may be delivered. *)
Sound(text) == Required \subseteq text.marks /\ "fatal" \notin text.marks

(* What the text has been through when a step is reached, and the draft    *)
(* that a rewrite may be taken back for.                                   *)
ChecksDone ==
    /\ review.corrected => pc = "critic" /\ "critic" \in state.answer.marks
    /\ pc = "claims" =>
          Required \ {"claims", "critic"} \subseteq state.answer.marks /\ "fatal" \notin state.answer.marks
    /\ pc \in {"verifier_correction", "critic_correction", "generation_repair"} =>
          Required \cap {"gate"} \subseteq state.answer.marks
    /\ pc = "critic" =>
          Required \ {"critic"} \subseteq state.answer.marks /\ "fatal" \notin state.answer.marks
    /\ pc = "recheck" =>
          /\ Required \ {"structure", "claims"} \subseteq state.answer.marks
          /\ "fatal" \notin state.answer.marks
          /\ Sound(review.draft)
    /\ pc = "decide" /\ state.valid => Sound(state.answer)
    /\ pc \in {"finish", "finished"} /\ request.route # "chitchat" => Sound(state.answer)

Early == {"validate_input", "load_context", "understand_task", "ask_user", "check_cache",
          "answer_cache", "retrieve_legal", "evaluate_evidence", "retrieve_web", "compose"}
Late  == {"verify", "claims", "verifier_correction", "critic_correction", "generation_repair",
          "critic", "recheck", "decide", "repair", "finish"}

(* Only an answer of the cache has a reason before the run ends. *)
ReasonsFit ==
    /\ pc \in Early => state.termination = "" /\ state.source # "cache"
    /\ pc \in Late  => \/ state.termination = "cache_hit" /\ state.source = "cache"
                       \/ state.termination = "" /\ state.source # "cache"

WorkflowInv == WorkflowTypes /\ ChecksDone /\ ReasonsFit /\ StopsShowNothing

-------------------------------------------------------------------------------
LEMMA FreshIs == ASSUME NEW who PROVE Fresh(who).by = who /\ Fresh(who).marks = {}
  BY DEF Fresh

LEMMA MarkedIs ==
    ASSUME NEW text \in Texts, NEW marks \in SUBSET Marks
    PROVE  Marked(text, marks) \in Texts /\ Marked(text, marks).marks = text.marks \cup marks
  BY DEF Marked, Texts

LEMMA RewrittenIs ==
    ASSUME state \in States, NEW who \in {"verifier", "critic", "repair"}
    PROVE  Rewritten(who) \in Texts /\ Rewritten(who).marks = {"gate"} \cap state.answer.marks
  BY DEF Rewritten, States, Texts, Marks

LEMMA IteratedIs ==
    ASSUME state \in States, BudgetAssumption
    PROVE  /\ Iterated \in States
           /\ Iterated.answer = state.answer /\ Iterated.source = state.source
           /\ Iterated.termination = state.termination /\ Iterated.evidence = state.evidence
  <1>. DEFINE n == IF state.iteration < MaxIterations THEN state.iteration + 1 ELSE state.iteration
  <1>1. state.iteration \in Nat /\ MaxIterations \in Nat
    BY DEF States, BudgetAssumption
  <1>2. n \in Nat
    BY <1>1
  <1>3. Iterated = [state EXCEPT !.iteration = n]
    BY DEF Iterated
  <1>. HIDE DEF n
  <1>. QED  BY <1>2, <1>3 DEF States

(* The count of a retrieval, up to its budget. *)
LEMMA Counted ==
    ASSUME WorkflowTypes
    PROVE  (IF state.retrievals < MaxRetrievals THEN Iterated.retrievals + 1 ELSE Iterated.retrievals) \in Nat
  <1>1. Iterated.retrievals \in Nat
    BY IteratedIs, BudgetAssumption DEF WorkflowTypes, States
  <1>. QED  BY <1>1

LEMMA RequiredMarks == Required \subseteq {"gate", "structure", "claims", "critic"}
  BY DEF Required

LEMMA NoReviewIs == NoReview \in Reviews /\ ~NoReview.corrected
  BY DEF NoReview, NoText, Fresh, Reviews, Texts, Marks

LEMMA WorkflowInitially == WorkflowInit => WorkflowInv
  <1>. SUFFICES ASSUME WorkflowInit PROVE WorkflowInv
    OBVIOUS
  <1>1. NoText \in Texts
    BY DEF NoText, Fresh, Texts, Marks
  <1>2. state \in States /\ state.termination = "" /\ state.source = ""
    BY <1>1 DEF WorkflowInit, States, EndReasons
  <1>3. pc = "validate_input" /\ pc \in Places
    BY DEF WorkflowInit, Places
  <1>4. WorkflowTypes
    BY <1>2, <1>3, NoReviewIs DEF WorkflowInit, WorkflowTypes
  <1>5. ChecksDone /\ ReasonsFit /\ StopsShowNothing
    BY <1>2, <1>3, NoReviewIs DEF WorkflowInit, ChecksDone, ReasonsFit, StopsShowNothing, Late
  <1>. QED  BY <1>4, <1>5 DEF WorkflowInv

-------------------------------------------------------------------------------
(* The nodes before the verify node. *)
LEMMA EarlyStep ==
    ASSUME WorkflowInv,
           \/ ValidateInput \/ LoadContext \/ UnderstandTask \/ CacheMiss \/ CacheHit
           \/ AnswerCache \/ RetrieveLegal \/ EvaluateEvidence \/ RetrieveWeb \/ ComposeAnswer
    PROVE  WorkflowInv'
  <1>. USE DEF WorkflowInv
  <1>1. Iterated \in States /\ Iterated.source = state.source /\ Iterated.termination = state.termination
    BY IteratedIs, BudgetAssumption DEF WorkflowTypes
  <1>2. UNCHANGED <<request, manifest, review>> /\ pc \in Early
    BY DEF ValidateInput, LoadContext, UnderstandTask, CacheMiss, CacheHit, AnswerCache,
           RetrieveLegal, EvaluateEvidence, RetrieveWeb, ComposeAnswer, Leave, Goto, Enter, Early
  <1>3. state.termination = "" /\ state.source # "cache"
    BY <1>2 DEF ReasonsFit
  <1>4. CASE ValidateInput
    <2>1. state' \in States /\ state'.source = state.source
          /\ pc' \in {"load_context", "safe_stop"}
          /\ (pc' = "load_context" => state'.termination = state.termination)
      BY <1>1, <1>4 DEF ValidateInput, Leave, Goto, States, EndReasons
    <2>. QED  BY <1>2, <1>3, <2>1 DEF WorkflowTypes, Places, ChecksDone, ReasonsFit, StopsShowNothing, Early, Late
  <1>5. CASE LoadContext \/ UnderstandTask \/ CacheMiss \/ CacheHit
    <2>1. state' = Iterated /\ pc' \in {"understand_task", "compose", "safe_stop", "retrieve_web",
                                        "ask_user", "check_cache", "retrieve_legal", "answer_cache"}
      BY <1>5 DEF LoadContext, UnderstandTask, CacheMiss, CacheHit, Leave, Goto, AfterUnderstanding
    <2>. QED  BY <1>1, <1>2, <1>3, <2>1 DEF WorkflowTypes, Places, ChecksDone, ReasonsFit, StopsShowNothing, Early, Late
  <1>6. CASE AnswerCache
    <2>1. Fresh("cache") \in Texts
      BY DEF Fresh, Texts, Marks
    <2>2. state' \in States /\ state'.source = "cache" /\ state'.termination = "cache_hit" /\ pc' = "verify"
      BY <1>1, <1>6, <2>1 DEF AnswerCache, Leave, Goto, States, EndReasons
    <2>. QED  BY <1>2, <2>2 DEF WorkflowTypes, Places, ChecksDone, ReasonsFit, StopsShowNothing, Early, Late
  <1>7. CASE RetrieveLegal
    <2>1. PICK found, misread \in BOOLEAN, n \in Nat :
             state' = [Iterated EXCEPT
                        !.evidence   = found,
                        !.source     = IF found THEN "legal" ELSE @,
                        !.reason     = IF misread THEN "parse_failed" ELSE "",
                        !.retrievals = n]
      BY <1>7, Counted DEF RetrieveLegal
    <2>2. state' \in States /\ state'.source \in {"legal", state.source} /\ state'.termination = state.termination
      BY <1>1, <2>1 DEF States
    <2>3. pc' = "evaluate_evidence"
      BY <1>7 DEF RetrieveLegal, Leave, Goto
    <2>. QED  BY <1>2, <1>3, <2>2, <2>3 DEF WorkflowTypes, Places, ChecksDone, ReasonsFit, StopsShowNothing, Early, Late
  <1>8. CASE EvaluateEvidence
    <2>1. PICK objection \in {"parse_failed", "readiness", "defective", "ok", "weak"} :
             /\ state' = [Iterated EXCEPT
                            !.sufficient = (objection = "ok"),
                            !.reason     = objection,
                            !.error      = IF objection = "readiness" THEN "readiness" ELSE @]
             /\ pc' = IF objection = "ok" THEN "compose" ELSE "safe_stop"
      BY <1>8 DEF EvaluateEvidence, GateReason, Leave, Goto
    <2>2. state' \in States /\ state'.source = state.source /\ state'.termination = state.termination
      BY <1>1, <2>1 DEF States
    <2>. QED  BY <1>2, <1>3, <2>1, <2>2 DEF WorkflowTypes, Places, ChecksDone, ReasonsFit, StopsShowNothing, Early, Late
  <1>9. CASE RetrieveWeb
    <2>1. PICK found, passes \in BOOLEAN, n \in Nat :
             state' = [Iterated EXCEPT
                        !.evidence   = found,
                        !.sufficient = passes,
                        !.reason     = IF passes THEN "ok" ELSE "weak",
                        !.source     = IF found THEN "web_search" ELSE @,
                        !.retrievals = n]
      BY <1>9, Counted DEF RetrieveWeb
    <2>2. state' \in States /\ state'.source \in {"web_search", state.source} /\ state'.termination = state.termination
      BY <1>1, <2>1 DEF States
    <2>3. pc' \in {"compose", "safe_stop"}
      BY <1>9 DEF RetrieveWeb, AfterWeb, Leave, Goto
    <2>. QED  BY <1>2, <1>3, <2>2, <2>3 DEF WorkflowTypes, Places, ChecksDone, ReasonsFit, StopsShowNothing, Early, Late
  <1>10. CASE ComposeAnswer
    <2>1. Fresh("web") \in Texts /\ Fresh("model") \in Texts
      BY DEF Fresh, Texts, Marks
    <2>2. state' \in States /\ state'.termination = state.termination
          /\ state'.source \in {"chitchat", state.source}
      BY <1>1, <1>10, <2>1 DEF ComposeAnswer, States
    <2>3. pc' \in {"verify", "finish"} /\ (pc' = "finish" => request.route = "chitchat")
      BY <1>10 DEF ComposeAnswer, Leave, Goto
    <2>. QED  BY <1>2, <1>3, <2>2, <2>3 DEF WorkflowTypes, Places, ChecksDone, ReasonsFit, StopsShowNothing, Early, Late
  <1>. QED  BY <1>4, <1>5, <1>6, <1>7, <1>8, <1>9, <1>10

-------------------------------------------------------------------------------
(* The steps of the verify node: each keeps the reason, and ends in one of *)
(* the other steps with the checks that this step asks for.                *)
LEMMA Checking ==
    ASSUME WorkflowInv, UNCHANGED <<request, manifest>>, pc \in Late, pc' \in Late \ {"finish"},
           state' \in States, review' \in Reviews,
           state'.source = state.source, state'.termination = state.termination, ChecksDone'
    PROVE  WorkflowInv'
  <1>. USE DEF WorkflowInv
  <1>1. WorkflowTypes'
    BY DEF WorkflowTypes, Places, Late
  <1>2. ReasonsFit'
    BY DEF ReasonsFit, Early, Late
  <1>3. StopsShowNothing'
    BY DEF StopsShowNothing, Late
  <1>. QED  BY <1>1, <1>2, <1>3

LEMMA Rejecting ==
    ASSUME WorkflowInv, pc \in Late, NEW error \in {"readiness", "other"}, Reject(error)
    PROVE  WorkflowInv'
  <1>. USE DEF WorkflowInv
  <1>1. /\ UNCHANGED <<request, manifest>> /\ pc' = "decide" /\ review' = NoReview
        /\ state' = [state EXCEPT !.valid = FALSE, !.error = error]
    BY DEF Reject, Goto, Invalid
  <1>2. state' \in States /\ ~state'.valid
        /\ state'.source = state.source /\ state'.termination = state.termination
    BY <1>1 DEF WorkflowTypes, States
  <1>3. ChecksDone'
    BY <1>1, <1>2, NoReviewIs DEF ChecksDone
  <1>. QED  BY <1>1, <1>2, <1>3, NoReviewIs, Checking DEF Late

(* A text that has passed every check of its way is accepted. *)
LEMMA Accepting ==
    ASSUME WorkflowInv, pc \in Late, NEW text \in Texts, Sound(text),
           state' = Validated([state EXCEPT !.answer = text]), review' = NoReview, Goto("decide")
    PROVE  WorkflowInv'
  <1>. USE DEF WorkflowInv
  <1>1. UNCHANGED <<request, manifest>> /\ pc' = "decide"
    BY DEF Goto
  <1>2. state' \in States /\ state'.answer = text
        /\ state'.source = state.source /\ state'.termination = state.termination
    BY DEF WorkflowTypes, States, Validated
  <1>3. Required' = Required
    BY <1>1 DEF Required, Legal
  <1>4. ChecksDone'
    BY <1>1, <1>2, <1>3, NoReviewIs DEF ChecksDone, Sound
  <1>. QED  BY <1>1, <1>2, <1>4, NoReviewIs, Checking DEF Late

LEMMA VerifyBegins == ASSUME WorkflowInv, VerifyRefuses \/ VerifyStructure PROVE WorkflowInv'
  <1>. USE DEF WorkflowInv
  <1>1. /\ Iterated \in States /\ Iterated.source = state.source
        /\ Iterated.termination = state.termination
    BY IteratedIs, BudgetAssumption DEF WorkflowTypes
  <1>2. UNCHANGED <<request, manifest, review>> /\ pc = "verify" /\ Required' = Required
    BY DEF VerifyRefuses, VerifyStructure, Leave, Goto, Enter, Required, Legal
  <1>3. CASE pc' = "decide" /\ ~state'.valid /\ state' \in States /\ state'.source = state.source
             /\ state'.termination = state.termination
    <2>1. ChecksDone'
      BY <1>2, <1>3 DEF ChecksDone
    <2>. QED  BY <1>2, <1>3, <2>1, Checking DEF WorkflowTypes, Late
  <1>4. CASE VerifyRefuses
    <2>1. PICK error \in {"readiness", "other"} : state' = [Iterated EXCEPT !.valid = FALSE, !.error = error]
      BY <1>4 DEF VerifyRefuses, Invalid
    <2>2. pc' = "decide"
      BY <1>4 DEF VerifyRefuses, Leave, Goto
    <2>. QED  BY <1>1, <1>3, <2>1, <2>2 DEF States
  <1>5. CASE VerifyStructure
    <2>. DEFINE opened == IF GateOpen THEN {"gate"} ELSE {}
    <2>1. CASE state' = [Invalid(Iterated, "other") EXCEPT !.answer.marks = opened] /\ Leave("decide")
      <3>1. state' \in States /\ ~state'.valid /\ state'.source = state.source
            /\ state'.termination = state.termination
        BY <1>1, <2>1 DEF Invalid, States, Texts, Marks
      <3>. QED  BY <1>3, <2>1, <3>1 DEF Leave, Goto
    <2>2. CASE state' = [Validated(Iterated) EXCEPT !.answer.marks = opened \cup {"structure"}]
               /\ Leave(IF Legal /\ request.verifier THEN "claims" ELSE "critic")
      <3>1. state' \in States /\ state'.source = state.source /\ state'.termination = state.termination
            /\ state'.answer.marks = opened \cup {"structure"}
        BY <1>1, <2>2 DEF Validated, States, Texts, Marks
      <3>2. FinalGateOpen
        BY <1>5 DEF VerifyStructure
      <3>3. Required \ {"claims", "critic"} \subseteq opened \cup {"structure"}
        BY <3>2 DEF Required, FinalGateOpen
      <3>4. pc' \in {"claims", "critic"} /\ (pc' = "critic" => "claims" \notin Required)
        BY <2>2 DEF Leave, Goto, Required
      <3>5. ~review.corrected
        BY <1>2 DEF ChecksDone
      <3>6. ChecksDone'
        BY <1>2, <3>1, <3>3, <3>4, <3>5, RequiredMarks DEF ChecksDone
      <3>. QED  BY <1>2, <3>1, <3>4, <3>6, Checking DEF WorkflowTypes, Late
    <2>. QED  BY <1>5, <2>1, <2>2 DEF VerifyStructure
  <1>. QED  BY <1>4, <1>5

LEMMA ClaimsStep == ASSUME WorkflowInv, VerifyClaims \/ VerifierRaises PROVE WorkflowInv'
  <1>. USE DEF WorkflowInv
  <1>1. pc = "claims"
    BY DEF VerifyClaims, VerifierRaises, Enter
  <1>2. CASE Reject("other")
    BY <1>1, <1>2, Rejecting DEF Late
  <1>3. CASE VerifyClaims
    <2>1. PICK outcome \in SupportOutcomes :
             \/ /\ state' = Answered(state.answer, {"claims"})
                /\ review' = [review EXCEPT !.supported = TRUE]
                /\ Goto("critic")
             \/ /\ \/ Leave("verifier_correction")
                   \/ Leave(IF request.critic THEN "critic_correction" ELSE "generation_repair")
                /\ UNCHANGED state
             \/ Reject("other")
      BY <1>3 DEF VerifyClaims
    <2>2. CASE state' = Answered(state.answer, {"claims"})
               /\ review' = [review EXCEPT !.supported = TRUE] /\ Goto("critic")
      <3>1. /\ Marked(state.answer, {"claims"}) \in Texts
            /\ Marked(state.answer, {"claims"}).marks = state.answer.marks \cup {"claims"}
        BY MarkedIs DEF WorkflowTypes, States, Marks
      <3>2. /\ state' \in States /\ state'.answer.marks = state.answer.marks \cup {"claims"}
            /\ state'.source = state.source /\ state'.termination = state.termination
        BY <2>2, <3>1 DEF Answered, WorkflowTypes, States
      <3>3. review' \in Reviews /\ review'.corrected = review.corrected
        BY <2>2 DEF WorkflowTypes, Reviews
      <3>4. UNCHANGED <<request, manifest>> /\ pc' = "critic" /\ Required' = Required
        BY <2>2 DEF Goto, Required, Legal
      <3>5. ChecksDone'
        BY <1>1, <3>2, <3>3, <3>4 DEF ChecksDone
      <3>. QED  BY <1>1, <3>2, <3>3, <3>4, <3>5, Checking DEF Late
    <2>3. CASE /\ \/ Leave("verifier_correction")
                  \/ Leave(IF request.critic THEN "critic_correction" ELSE "generation_repair")
               /\ UNCHANGED state
      <3>1. /\ UNCHANGED <<request, manifest, state, review>> /\ Required' = Required
            /\ pc' \in {"verifier_correction", "critic_correction", "generation_repair"}
        BY <2>3 DEF Leave, Goto, Required, Legal
      <3>2. ChecksDone'
        BY <1>1, <3>1 DEF ChecksDone
      <3>. QED  BY <1>1, <3>1, <3>2, Checking DEF WorkflowTypes, Late
    <2>. QED  BY <1>2, <2>1, <2>2, <2>3
  <1>. QED  BY <1>2, <1>3 DEF VerifierRaises

(* A correction goes on to the critic with the checks it has gone through. *)
LEMMA CorrectionGoesOn ==
    ASSUME WorkflowInv, pc \in {"verifier_correction", "critic_correction", "generation_repair"},
           NEW who \in {"verifier", "critic", "repair"}, NEW corrected \in BOOLEAN,
           CorrectionHolds(who, corrected, "critic")
    PROVE  WorkflowInv'
  <1>. USE DEF WorkflowInv
  <1>. DEFINE marks == {"structure", "claims"} \cup (IF corrected THEN {"critic"} ELSE {})
              text  == Marked(Rewritten(who), marks)
  <1>1. marks \subseteq Marks
    BY DEF Marks
  <1>2. text \in Texts /\ text.marks = ({"gate"} \cap state.answer.marks) \cup marks
    BY <1>1, MarkedIs, RewrittenIs DEF WorkflowTypes
  <1>3. state' = [state EXCEPT !.answer = text] /\ UNCHANGED <<request, manifest>> /\ pc' = "critic"
    BY DEF CorrectionHolds, Goto
  <1>. HIDE DEF text
  <1>4. /\ state' \in States /\ state'.answer = text
        /\ state'.source = state.source /\ state'.termination = state.termination
    BY <1>2, <1>3 DEF WorkflowTypes, States
  <1>5. review' \in Reviews /\ review'.corrected = corrected
    BY DEF CorrectionHolds, WorkflowTypes, Reviews
  <1>6. Required' = Required
    BY <1>3 DEF Required, Legal
  <1>7. Required \ {"critic"} \subseteq text.marks /\ "fatal" \notin text.marks
        /\ (corrected => "critic" \in text.marks)
    BY <1>2, RequiredMarks DEF ChecksDone
  <1>8. ChecksDone'
    BY <1>3, <1>4, <1>5, <1>6, <1>7 DEF ChecksDone
  <1>. QED  BY <1>3, <1>4, <1>5, <1>8, Checking DEF Late

LEMMA CorrectionStep ==
    ASSUME WorkflowInv, VerifierCorrection \/ CriticCorrection \/ GenerationRepair PROVE WorkflowInv'
  <1>. USE DEF WorkflowInv
  <1>1. pc \in {"verifier_correction", "critic_correction", "generation_repair"}
    BY DEF VerifierCorrection, CriticCorrection, GenerationRepair, Enter
  <1>2. CASE \E who \in {"verifier", "critic", "repair"}, corrected \in BOOLEAN :
                CorrectionHolds(who, corrected, "critic")
    BY <1>1, <1>2, CorrectionGoesOn
  <1>3. CASE Reject("other")
    BY <1>1, <1>3, Rejecting DEF Late
  <1>4. CASE /\ UNCHANGED state
             /\ \/ Leave("generation_repair")
                \/ Leave(IF request.critic THEN "critic_correction" ELSE "generation_repair")
    <2>1. /\ UNCHANGED <<request, manifest, state, review>> /\ Required' = Required
          /\ pc' \in {"critic_correction", "generation_repair"}
      BY <1>4 DEF Leave, Goto, Required, Legal
    <2>2. ChecksDone'
      BY <1>1, <2>1 DEF ChecksDone
    <2>. QED  BY <1>1, <2>1, <2>2, Checking DEF WorkflowTypes, Late
  <1>. QED  BY <1>2, <1>3, <1>4 DEF VerifierCorrection, CriticCorrection, GenerationRepair

-------------------------------------------------------------------------------
LEMMA PassStep == ASSUME WorkflowInv, PassCritic PROVE WorkflowInv'
  <1>. USE DEF WorkflowInv
  <1>1. pc = "critic" /\ Goto("decide") /\ state' = Validated(state) /\ review' = NoReview
    BY DEF PassCritic, Enter, Accept
  <1>2. state.answer \in Texts /\ Sound(state.answer)
    BY <1>1 DEF PassCritic, RunsCritic, ChecksDone, Sound, Required, WorkflowTypes, States
  <1>3. [state EXCEPT !.answer = state.answer] = state
    BY DEF WorkflowTypes, States
  <1>. QED  BY <1>1, <1>2, <1>3, Accepting DEF Late

LEMMA ReviewStep == ASSUME WorkflowInv, ReviewAnswer PROVE WorkflowInv'
  <1>. USE DEF WorkflowInv
  <1>1. pc = "critic" /\ Required \ {"critic"} \subseteq state.answer.marks
        /\ "fatal" \notin state.answer.marks /\ state.answer \in Texts
    BY DEF ReviewAnswer, Enter, ChecksDone, WorkflowTypes, States
  <1>2. PICK v \in CriticVerdicts :
          LET read == Marked(state.answer, {"critic"} \cup (IF v.fatal THEN {"fatal"} ELSE {}))
          IN  \/ /\ Blocks(v)
                 /\ state' = Invalid([state EXCEPT !.answer = read], "other")
                 /\ review' = NoReview
                 /\ Goto("decide")
              \/ /\ ~Blocks(v)
                 /\ state' = Validated([state EXCEPT !.answer = read])
                 /\ review' = NoReview
                 /\ Goto("decide")
              \/ /\ ~Blocks(v)
                 /\ state' = [state EXCEPT !.answer = Marked(Rewritten("critic"), {"critic"})]
                 /\ review' = [review EXCEPT !.draft = read, !.lenient = LetsDraftLive(v)]
                 /\ Goto("recheck")
    BY DEF ReviewAnswer
  <1>. DEFINE read == Marked(state.answer, {"critic"} \cup (IF v.fatal THEN {"fatal"} ELSE {}))
  <1>3. read \in Texts
    <2>1. {"critic"} \cup (IF v.fatal THEN {"fatal"} ELSE {}) \in SUBSET Marks
      BY DEF Marks
    <2>. QED  BY <1>1, <2>1, MarkedIs
  <1>4. ~Blocks(v) => Sound(read)
    <2>. SUFFICES ASSUME ~Blocks(v) PROVE Sound(read)
      OBVIOUS
    <2>1. read = Marked(state.answer, {"critic"})
      BY DEF Blocks
    <2>2. Marked(state.answer, {"critic"}).marks = state.answer.marks \cup {"critic"}
      BY <1>1, MarkedIs DEF Marks
    <2>. QED  BY <1>1, <2>1, <2>2 DEF Sound
  <1>. HIDE DEF read
  <1>5. CASE state' = Invalid([state EXCEPT !.answer = read], "other") /\ review' = NoReview /\ Goto("decide")
    <2>1. /\ state' \in States /\ ~state'.valid
          /\ state'.source = state.source /\ state'.termination = state.termination
      BY <1>3, <1>5 DEF Invalid, WorkflowTypes, States
    <2>2. UNCHANGED <<request, manifest>> /\ pc' = "decide"
      BY <1>5 DEF Goto
    <2>3. ChecksDone'
      BY <1>5, <2>1, <2>2, NoReviewIs DEF ChecksDone
    <2>. QED  BY <1>1, <1>5, <2>1, <2>2, <2>3, NoReviewIs, Checking DEF Late
  <1>6. CASE /\ ~Blocks(v) /\ state' = Validated([state EXCEPT !.answer = read])
             /\ review' = NoReview /\ Goto("decide")
    BY <1>1, <1>3, <1>4, <1>6, Accepting DEF Late
  <1>7. CASE /\ ~Blocks(v)
             /\ state' = [state EXCEPT !.answer = Marked(Rewritten("critic"), {"critic"})]
             /\ review' = [review EXCEPT !.draft = read, !.lenient = LetsDraftLive(v)]
             /\ Goto("recheck")
    <2>. DEFINE text == Marked(Rewritten("critic"), {"critic"})
    <2>1. text \in Texts /\ text.marks = ({"gate"} \cap state.answer.marks) \cup {"critic"}
      BY MarkedIs, RewrittenIs DEF WorkflowTypes, Marks
    <2>. HIDE DEF text
    <2>2. /\ state' \in States /\ state'.answer = text
          /\ state'.source = state.source /\ state'.termination = state.termination
      BY <1>7, <2>1 DEF text, WorkflowTypes, States
    <2>3. LetsDraftLive(v) \in BOOLEAN
      BY DEF LetsDraftLive
    <2>4. review' \in Reviews /\ review'.draft = read /\ review'.corrected = review.corrected
      BY <1>3, <1>7, <2>3 DEF WorkflowTypes, Reviews
    <2>5. ~review.corrected
      BY DEF ReviewAnswer, RunsCritic
    <2>6. UNCHANGED <<request, manifest>> /\ pc' = "recheck" /\ Required' = Required
      BY <1>7 DEF Goto, Required, Legal
    <2>7. Required \ {"structure", "claims"} \subseteq text.marks /\ "fatal" \notin text.marks
      BY <1>1, <2>1, RequiredMarks
    <2>8. Sound(review.draft)'
      BY <1>4, <1>7, <2>4, <2>6 DEF Sound
    <2>9. ChecksDone'
      BY <2>2, <2>4, <2>5, <2>6, <2>7, <2>8 DEF ChecksDone
    <2>. QED  BY <1>1, <2>2, <2>4, <2>6, <2>9, Checking DEF Late
  <1>. QED  BY <1>2, <1>5, <1>6, <1>7 DEF read

LEMMA RecheckStep == ASSUME WorkflowInv, Recheck PROVE WorkflowInv'
  <1>. USE DEF WorkflowInv
  <1>1. /\ pc = "recheck" /\ Required \ {"structure", "claims"} \subseteq state.answer.marks
        /\ "fatal" \notin state.answer.marks /\ Sound(review.draft)
        /\ state.answer \in Texts /\ review.draft \in Texts
    BY DEF Recheck, Enter, ChecksDone, WorkflowTypes, States, Reviews
  <1>2. ASSUME NEW may, KeepDraftIf(may) PROVE WorkflowInv'
    <2>1. CASE Reject("other")
      BY <1>1, <2>1, Rejecting DEF Late
    <2>2. CASE state' = Validated([state EXCEPT !.answer = review.draft]) /\ review' = NoReview /\ Goto("decide")
      BY <1>1, <2>2, Accepting DEF Late
    <2>. QED  BY <1>2, <2>1, <2>2 DEF KeepDraftIf
  <1>3. ASSUME NEW marks \in SUBSET {"structure", "claims"}, AcceptRewrite(marks),
               Required \cap {"structure", "claims"} \subseteq marks
        PROVE  WorkflowInv'
    <2>. DEFINE text == Marked(state.answer, marks)
    <2>1. text \in Texts /\ text.marks = state.answer.marks \cup marks
      BY <1>1, <1>3, MarkedIs DEF Marks
    <2>2. Sound(text)
      BY <1>1, <1>3, <2>1 DEF Sound
    <2>. HIDE DEF text
    <2>3. state' = Validated([state EXCEPT !.answer = text]) /\ review' = NoReview /\ Goto("decide")
      BY <1>3 DEF AcceptRewrite, text
    <2>. QED  BY <1>1, <2>1, <2>2, <2>3, Accepting DEF Late
  <1>4. CASE \E may : KeepDraftIf(may)
    BY <1>2, <1>4
  <1>5. CASE AcceptRewrite({"structure", "claims"})
    BY <1>3, <1>5
  <1>6. CASE ~request.verifier /\ AcceptRewrite({"structure"})
    <2>1. Required \cap {"structure", "claims"} \subseteq {"structure"}
      BY <1>6 DEF Required
    <2>. QED  BY <1>3, <1>6, <2>1
  <1>. QED  BY <1>4, <1>5, <1>6 DEF Recheck, RecheckClaims

-------------------------------------------------------------------------------
(* The nodes after the verify node, and the ends of a run. *)
LEMMA LateStep == ASSUME WorkflowInv, Decide \/ RepairAnswer PROVE WorkflowInv'
  <1>. USE DEF WorkflowInv
  <1>1. /\ UNCHANGED <<request, manifest, review>> /\ Required' = Required
        /\ pc \in {"decide", "repair"} /\ ~review.corrected
    BY DEF Decide, RepairAnswer, Leave, Goto, Enter, Required, Legal, ChecksDone
  <1>2. CASE Decide
    <2>1. /\ UNCHANGED state /\ pc = "decide" /\ pc' \in {"finish", "repair", "safe_stop"}
          /\ (pc' = "finish" => state.valid)
      BY <1>2 DEF Decide, Leave, Goto
    <2>2. WorkflowTypes'
      BY <1>1, <2>1 DEF WorkflowTypes, Places
    <2>3. ChecksDone'
      BY <1>1, <2>1 DEF ChecksDone, Sound
    <2>4. ReasonsFit' /\ StopsShowNothing'
      BY <1>1, <2>1 DEF ReasonsFit, StopsShowNothing, Early, Late
    <2>. QED  BY <2>2, <2>3, <2>4
  <1>3. CASE RepairAnswer
    <2>1. Iterated \in States /\ Iterated.source = state.source /\ Iterated.termination = state.termination
      BY IteratedIs, BudgetAssumption DEF WorkflowTypes
    <2>2. Fresh("repair") \in Texts
      BY DEF Fresh, Texts, Marks
    <2>3. PICK n \in Nat : state' = [Iterated EXCEPT !.repairs = n, !.answer = Fresh("repair")]
      <3>1. Iterated.repairs \in Nat
        BY <2>1 DEF States
      <3>2. Iterated.repairs + 1 \in Nat
        BY <3>1
      <3>. QED  BY <1>3, <3>2 DEF RepairAnswer
    <2>4. state' \in States /\ state'.source = state.source /\ state'.termination = state.termination
      BY <2>1, <2>2, <2>3 DEF States
    <2>5. pc' = "verify"
      BY <1>3 DEF RepairAnswer, Leave, Goto
    <2>6. ChecksDone'
      BY <1>1, <2>5 DEF ChecksDone
    <2>. QED  BY <1>1, <2>4, <2>5, <2>6, Checking DEF WorkflowTypes, Late
  <1>. QED  BY <1>2, <1>3

LEMMA EndingStep == ASSUME WorkflowInv, AskUser \/ Finish \/ SafeStop \/ NodeRaises PROVE WorkflowInv'
  <1>. USE DEF WorkflowInv
  <1>1. /\ UNCHANGED <<request, manifest, review>> /\ Required' = Required
        /\ pc \in {"ask_user", "finish", "safe_stop"} \cup NodesThatRaise /\ ~review.corrected
    BY DEF AskUser, Finish, SafeStop, NodeRaises, NodesThatRaise, Raise, Leave, Goto, Enter, Required, Legal, ChecksDone
  <1>2. /\ Iterated \in States /\ Iterated.source = state.source /\ Iterated.answer = state.answer
        /\ Iterated.termination = state.termination
    BY IteratedIs, BudgetAssumption DEF WorkflowTypes
  <1>3. Fresh("program") \in Texts /\ Fresh("program").by = "program"
    BY DEF Fresh, Texts, Marks
  <1>4. CASE AskUser
    <2>1. state' \in States /\ pc' = "asked"
      BY <1>2, <1>3, <1>4 DEF AskUser, Leave, Goto, States, EndReasons
    <2>. QED  BY <1>1, <2>1 DEF WorkflowTypes, Places, Ended, ChecksDone, ReasonsFit, StopsShowNothing, Early, Late
  <1>5. CASE NodeRaises
    <2>1. UNCHANGED state /\ pc' = "raised"
      BY <1>5 DEF NodeRaises, Raise
    <2>. QED  BY <1>1, <2>1 DEF WorkflowTypes, Places, Ended, ChecksDone, ReasonsFit, StopsShowNothing, Early, Late
  <1>6. CASE SafeStop
    <2>1. StopReason \in {"invalid_input", "insufficient_evidence", "out_of_scope", "citation_verification_failed"}
      BY DEF StopReason
    <2>2. state' = [Iterated EXCEPT !.answer = Fresh("program"), !.termination = StopReason,
                                    !.source = "error", !.evidence = FALSE]
          /\ pc' = "stopped"
      BY <1>6 DEF SafeStop, Leave, Goto
    <2>3. /\ state' \in States /\ state'.answer = Fresh("program") /\ state'.termination = StopReason
          /\ state'.source = "error" /\ state'.evidence = FALSE
      BY <1>2, <1>3, <2>1, <2>2 DEF States, EndReasons
    <2>. QED  BY <1>1, <1>3, <2>1, <2>2, <2>3
              DEF WorkflowTypes, Places, Ended, ChecksDone, ReasonsFit, StopsShowNothing, Early, Late
  <1>7. CASE Finish
    <2>1. pc = "finish" /\ pc' = "finished"
      BY <1>7 DEF Finish, Enter, Leave, Goto
    <2>2. PICK reason \in {"cache_hit", "research_complete", "answer_complete"} :
             /\ state' = [Iterated EXCEPT !.termination = reason]
             /\ (reason = "cache_hit") = (state.source = "cache")
             /\ (reason = "research_complete") = (state.source = "web_search")
      <3>. DEFINE reason == CASE state.termination # "" -> state.termination
                              [] state.termination = "" /\ state.source = "web_search" -> "research_complete"
                              [] OTHER -> "answer_complete"
      <3>1. \/ state.termination = "cache_hit" /\ state.source = "cache"
            \/ state.termination = "" /\ state.source # "cache"
        BY <2>1 DEF ReasonsFit, Late
      <3>2. state.source = "web_search" => reason = (IF state.termination = "" THEN "research_complete" ELSE state.termination)
        OBVIOUS
      <3>3. state.source # "web_search" => reason = (IF state.termination = "" THEN "answer_complete" ELSE state.termination)
        OBVIOUS
      <3>4. state' = [Iterated EXCEPT !.termination = reason]
        BY <1>2, <1>7 DEF Finish
      <3>. HIDE DEF reason
      <3>. QED  BY <3>1, <3>2, <3>3, <3>4
    <2>3. /\ state' \in States /\ state'.answer = state.answer /\ state'.source = state.source
          /\ state'.termination = reason
      BY <1>2, <2>2 DEF States, EndReasons
    <2>4. WorkflowTypes'
      BY <1>1, <2>1, <2>3 DEF WorkflowTypes, Places, Ended
    <2>5. ChecksDone'
      BY <1>1, <2>1, <2>3 DEF ChecksDone, Sound
    <2>6. ReasonsFit' /\ StopsShowNothing'
      BY <2>1, <2>2, <2>3 DEF ReasonsFit, StopsShowNothing, Early, Late
    <2>. QED  BY <2>4, <2>5, <2>6
  <1>. QED  BY <1>4, <1>5, <1>6, <1>7

LEMMA ManifestStep == ASSUME WorkflowInv, ReplaceManifest PROVE WorkflowInv'
  <1>. USE DEF WorkflowInv
  <1>1. UNCHANGED <<request, pc, state, review>> /\ manifest' \in Manifests
    BY DEF ReplaceManifest
  <1>2. Required' = Required
    BY <1>1 DEF Required, Legal
  <1>. QED  BY <1>1, <1>2 DEF WorkflowTypes, ChecksDone, Sound, ReasonsFit, StopsShowNothing

LEMMA WorkflowStep == WorkflowInv /\ [WorkflowNext]_workflowVars => WorkflowInv'
  <1>. SUFFICES ASSUME WorkflowInv, [WorkflowNext]_workflowVars PROVE WorkflowInv'
    OBVIOUS
  <1>1. CASE \/ ValidateInput \/ LoadContext \/ UnderstandTask \/ CacheMiss \/ CacheHit
             \/ AnswerCache \/ RetrieveLegal \/ EvaluateEvidence \/ RetrieveWeb \/ ComposeAnswer
    BY <1>1, EarlyStep
  <1>2. CASE VerifyRefuses \/ VerifyStructure
    BY <1>2, VerifyBegins
  <1>3. CASE VerifyClaims \/ VerifierRaises
    BY <1>3, ClaimsStep
  <1>4. CASE VerifierCorrection \/ CriticCorrection \/ GenerationRepair
    BY <1>4, CorrectionStep
  <1>5. CASE PassCritic
    BY <1>5, PassStep
  <1>6. CASE ReviewAnswer
    BY <1>6, ReviewStep
  <1>7. CASE CriticRaises
    BY <1>7, Rejecting DEF CriticRaises, Enter, Late
  <1>8. CASE Recheck
    BY <1>8, RecheckStep
  <1>9. CASE Decide \/ RepairAnswer
    BY <1>9, LateStep
  <1>10. CASE AskUser \/ Finish \/ SafeStop \/ NodeRaises
    BY <1>10, EndingStep
  <1>11. CASE ReplaceManifest
    BY <1>11, ManifestStep
  <1>12. CASE UNCHANGED workflowVars
    <2>1. Required' = Required
      BY <1>12 DEF Required, Legal, workflowVars
    <2>. QED  BY <1>12, <2>1 DEF workflowVars, WorkflowInv, WorkflowTypes, ChecksDone, Sound,
                                 ReasonsFit, StopsShowNothing
  <1>. QED  BY <1>1, <1>2, <1>3, <1>4, <1>5, <1>6, <1>7, <1>8, <1>9, <1>10, <1>11, <1>12
            DEF WorkflowNext, Node, Done

LEMMA WorkflowKeeps == WorkflowSpec => []WorkflowInv
  <1>. QED  BY WorkflowInitially, WorkflowStep, PTL DEF WorkflowSpec

-------------------------------------------------------------------------------
(* Whatever the models, the retriever and the cache reply, whatever the    *)
(* budgets are and however often the manifest is replaced: the text that   *)
(* the workflow delivers has itself passed every check that its request    *)
(* asks for, and no fatal verdict was given on it.                         *)
THEOREM DeliveryIsChecked == WorkflowSpec => []DeliveredIsChecked
  <1>1. WorkflowInv => DeliveredIsChecked
    BY DEF WorkflowInv, ChecksDone, DeliveredIsChecked, Sound
  <1>. QED  BY WorkflowKeeps, <1>1, PTL

(* A stopped run shows neither a rejected text nor a rejected source, and  *)
(* only an answer from the cache or the web ends with their reasons.       *)
THEOREM StopsAreClean == WorkflowSpec => []StopsShowNothing
  <1>1. WorkflowInv => StopsShowNothing
    BY DEF WorkflowInv
  <1>. QED  BY WorkflowKeeps, <1>1, PTL

(***************************************************************************)
(* The evidence gate                                                       *)
(***************************************************************************)

(* The first of the eight checks that failed is one that failed. *)
LEMMA FirstCheck ==
    ASSUME NEW failed \in SUBSET (1..8), failed # {}
    PROVE  Min(failed) \in failed
  <1>1. \E x \in failed : \A y \in failed : x =< y
    <2>1. CASE 1 \in failed \/ 2 \in failed \/ 3 \in failed \/ 4 \in failed
      BY <2>1
    <2>2. CASE failed \in SUBSET (5..8)
      <3>1. CASE 5 \in failed \/ 6 \in failed
        BY <2>2, <3>1
      <3>2. CASE failed \in SUBSET (7..8)
        <4>1. CASE 7 \in failed
          BY <3>2, <4>1
        <4>2. CASE failed = {8}
          BY <4>2
        <4>3. \A y \in failed : y = 7 \/ y = 8
          BY <3>2
        <4>. QED  BY <4>1, <4>2, <4>3
      <3>. QED  BY <2>2, <3>1, <3>2
    <2>. QED  BY <2>1, <2>2
  <1>. QED  BY <1>1 DEF Min

(* Documents are accepted only when no check has failed. *)
LEMMA AcceptanceMeans ==
    ASSUME NEW q, NEW unlikely, Reason(q, unlikely) = "ok"
    PROVE  ~LacksAnchor(q) /\ ~LacksForce(q)
  <1>1. PICK checks : checks = Checks(q, unlikely)
    OBVIOUS
  <1>2. /\ DOMAIN checks = 1..8
        /\ checks[6][1] = LacksAnchor(q)
        /\ checks[7][1] = LacksForce(q)
    BY <1>1 DEF Checks
  <1>3. \A i \in 1..8 : checks[i][2] # "ok"
    BY <1>1 DEF Checks
  <1>4. PICK failed : failed = {i \in DOMAIN checks : checks[i][1]}
    OBVIOUS
  <1>5. failed = {}
    <2>1. Reason(q, unlikely) = IF failed = {} THEN "ok" ELSE checks[Min(failed)][2]
      BY <1>1, <1>4 DEF Reason
    <2>2. failed \in SUBSET (1..8)
      BY <1>2, <1>4
    <2>. QED  BY <2>1, <2>2, <1>3, FirstCheck
  <1>. QED  BY <1>2, <1>4, <1>5

LEMMA OneElement ==
    ASSUME NEW S \in SUBSET Nat, IsFiniteSet(S), Cardinality(S) = 1
    PROVE  Max(S) \in S
  <1>1. PICK x : S = {x}
    BY FS_Singleton
  <1>. QED  BY <1>1 DEF Max

-------------------------------------------------------------------------------
GateInv ==
    /\ inquiry \in Inquiries
    /\ gate \in {"search", "fetch", "evaluate", "done"}
    /\ AcceptedEvidenceIsSound

(* One version of one document is one document, and the named one. *)
LEMMA VersionIsOne ==
    ASSUME NEW q, DescribesVersion(q)
    PROVE  /\ q.lookup /\ ~q.current
           /\ Cardinality({s.instrument : s \in sources}) = 1
           /\ q.instruments \subseteq {s.instrument : s \in sources}
  <1>1. PICK i \in {s.instrument : s \in sources} :
           q.instruments \subseteq {i} /\ \A s \in sources : s.instrument = i
    BY DEF DescribesVersion
  <1>2. {s.instrument : s \in sources} = {i}
    BY <1>1
  <1>3. Cardinality({i}) = 1
    BY FS_Singleton
  <1>. QED  BY <1>1, <1>2, <1>3 DEF DescribesVersion

(* An anchor that is found is the article, and the document if one is named. *)
LEMMA AnchorsAreFound ==
    ASSUME NEW q \in InquiryRecords, IsFiniteSet(q.instruments), 0 \notin GateArticles,
           q.caller = "workflow", ~LacksAnchor(q),
           \A s \in sources, i \in q.instruments : IsOf(s, i) => s.instrument = i,
           NEW a \in q.articles
    PROVE  \E s \in sources : /\ a \in Heads(s)
                              /\ (\A t \in sources : t.heading = {}) => s.article = a
                              /\ Cardinality(q.instruments) = 1 => s.instrument \in q.instruments
  <1>1. PICK document : document = IF Cardinality(q.instruments) = 1 THEN Max(q.instruments) ELSE 0
    OBVIOUS
  <1>2. PICK anchor : anchor = [instrument |-> document, article |-> a]
    OBVIOUS
  <1>3. anchor \in Expected(q)
    BY <1>1, <1>2 DEF Expected, Anchors
  <1>4. PICK s \in sources : MatchesAnchor(s, anchor)
    BY <1>3 DEF LacksAnchor
  <1>5. a # 0 /\ q.instruments \in SUBSET Nat /\ 0 \notin q.instruments
    BY DEF InquiryRecords
  <1>6. a \in Heads(s) /\ (s.heading = {} => s.article = a)
    BY <1>2, <1>4, <1>5 DEF MatchesAnchor, Heads
  <1>7. ASSUME Cardinality(q.instruments) = 1
        PROVE  s.instrument \in q.instruments
    <2>1. document \in q.instruments
      BY <1>1, <1>5, <1>7, OneElement
    <2>2. IsOf(s, document)
      BY <1>2, <1>4, <1>5, <2>1 DEF MatchesAnchor
    <2>. QED  BY <2>1, <2>2
  <1>. QED  BY <1>6, <1>7

LEMMA EvaluateIsSound ==
    ASSUME GateInv, Evaluate
    PROVE  AcceptedEvidenceIsSound'
  <1>1. PICK unlikely \in BOOLEAN :
           assessment' = [reason |-> Reason(inquiry, unlikely),
                          versionOnly |-> Reason(inquiry, unlikely) = "ok" /\ DescribesVersion(inquiry)]
    BY DEF Evaluate
  <1>2. UNCHANGED <<inquiry, sources>>
    BY DEF Evaluate
  <1>3. SUFFICES ASSUME Reason(inquiry, unlikely) = "ok"
        PROVE  AcceptedEvidenceIsSound'
    BY <1>1 DEF AcceptedEvidenceIsSound, Accepted
  <1>4. ~LacksAnchor(inquiry) /\ ~LacksForce(inquiry)
    BY <1>3, AcceptanceMeans
  <1>5. \/ \A s \in sources : InForce(s)
        \/ /\ assessment'.versionOnly /\ inquiry.lookup /\ ~inquiry.current
           /\ Cardinality({s.instrument : s \in sources}) = 1
           /\ inquiry.instruments \subseteq {s.instrument : s \in sources}
    <2>1. CASE \A s \in sources : InForce(s)
      BY <2>1
    <2>2. CASE DescribesVersion(inquiry)
      <3>1. assessment'.versionOnly
        BY <1>1, <1>3, <2>2
      <3>. QED  BY <2>2, <3>1, VersionIsOne
    <2>. QED  BY <1>4, <2>1, <2>2 DEF LacksForce
  <1>6. /\ inquiry \in InquiryRecords
        /\ IsFiniteSet(inquiry.instruments)
        /\ 0 \notin GateArticles
    BY GateAssumption DEF GateInv
  <1>7. inquiry.caller = "workflow" /\ WholeNumbers =>
            \A a \in inquiry.articles :
                \E s \in sources : /\ a \in Heads(s)
                                   /\ (\A t \in sources : t.heading = {}) => s.article = a
                                   /\ Cardinality(inquiry.instruments) = 1 => s.instrument \in inquiry.instruments
    BY <1>4, <1>6, AnchorsAreFound DEF WholeNumbers
  <1>. QED  BY <1>2, <1>5, <1>7 DEF AcceptedEvidenceIsSound, WholeNumbers, InForce, IsOf, Heads

(* What is accepted carries the answer: all of it is in force, or the      *)
(* answer is about one version of the one document that was named; and the *)
(* workflow gets a source of the very document whose heading names the     *)
(* article it asks for, and the very article when headings name one each.  *)
THEOREM EvidenceIsSound == GateSpec => []AcceptedEvidenceIsSound
  <1>1. GateInit => GateInv
    BY DEF GateInit, GateInv, AcceptedEvidenceIsSound, Accepted
  <1>2. GateInv /\ [GateNext]_gateVars => GateInv'
    <2>1. SUFFICES ASSUME GateInv, [GateNext]_gateVars
          PROVE  GateInv'
      OBVIOUS
    <2>2. CASE SearchCorpus \/ SearchWeb \/ FetchPages
      BY <2>1, <2>2 DEF GateInv, SearchCorpus, SearchWeb, FetchPages, AcceptedEvidenceIsSound, Accepted
    <2>3. CASE Evaluate
      <3>1. AcceptedEvidenceIsSound'
        BY <2>1, <2>3, EvaluateIsSound
      <3>. QED  BY <2>1, <2>3, <3>1 DEF GateInv, Evaluate
    <2>4. CASE UNCHANGED gateVars
      BY <2>1, <2>4 DEF GateInv, gateVars, AcceptedEvidenceIsSound, Accepted, WholeNumbers, InForce, IsOf
    <2>. QED  BY <2>1, <2>2, <2>3, <2>4 DEF GateNext
  <1>3. GateInv => AcceptedEvidenceIsSound
    BY DEF GateInv
  <1>. QED  BY <1>1, <1>2, <1>3, PTL DEF GateSpec
===================================================================================
