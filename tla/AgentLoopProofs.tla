--------------------------- MODULE AgentLoopProofs ---------------------------
(***************************************************************************)
(* The theorems about the reasoning loop, for any budgets, any number of   *)
(* steps and calls, any queries, hints and documents.                      *)
(***************************************************************************)
EXTENDS AgentLoop, RanksProofs

Arguments == Seq(Rewrites)
Calls     == [tool : AllTools, query : Rewrites, arg : Arguments]
Entries   == [tool : AllTools, arg : Arguments, allowed : BOOLEAN]

LoopTypes ==
    /\ pc \in {"step", "reason", "calls", "execute", "done"}
    /\ step \in Nat
    /\ pending \in Seq(Calls)
    /\ asked \in Nat
    /\ answered \in Nat
    /\ trajectory \in Seq(Entries)
    /\ evidence \in Seq(Provisions)
    /\ cited \subseteq Provisions \X Nat

(* While the calls of a response are worked off, those that wait for their *)
(* message are the pending ones; between responses there are none.         *)
MessagesOwed ==
    /\ pc \in {"calls", "execute"} => answered + Len(pending) = asked
    /\ pc \in {"step", "reason"} => answered = asked
    /\ pc = "execute" => pending # << >>

(* The call that is executed was allowed by the trajectory as it is now.   *)
WorkInv ==
    /\ pc = "execute" => MayRun(Head(pending))
    /\ WorkIsBounded

(* The numbers count from one.                                             *)
CitedInv ==
    \A p \in cited : p[2] \in 1 .. Len(evidence) /\ evidence[p[2]] = p[1]

LoopInv == LoopTypes /\ MessagesOwed /\ WorkInv /\ CitedInv
-----------------------------------------------------------------------------
(***************************************************************************)
(* The documents of a search, appended to the evidence                     *)
(***************************************************************************)

(* The value of the recursive function of Appended at i. *)
Grows(known, docs, i, all) ==
    IF i = 0 THEN known
    ELSE IF docs[i] \in Range(all[i - 1]) THEN all[i - 1] ELSE Append(all[i - 1], docs[i])

Grown(known, docs, n, all) == all = [i \in 0 .. n |-> Grows(known, docs, i, all)]

(* The function that Appended defines exists. *)
LEMMA GrownExists ==
  ASSUME NEW known, NEW docs, Len(docs) \in Nat
  PROVE  \E all : Grown(known, docs, Len(docs), all)
  <1>. DEFINE Without == {n \in 0 .. Len(docs) : ~ \E all : Grown(known, docs, n, all)}
  <1>1. CASE Without = {}
    <2>1. Len(docs) \in 0 .. Len(docs)
      OBVIOUS
    <2>. QED  BY <1>1, <2>1
  <1>2. CASE Without # {}
    <2>1. PICK n \in Without : \A m \in Without : n <= m
      <3>1. Without \in SUBSET Nat
        OBVIOUS
      <3>. HIDE DEF Without
      <3>. QED  BY <1>2, <3>1, LeastOf
    <2>2. n # 0
      <3>1. SUFFICES ASSUME n = 0 PROVE FALSE
        OBVIOUS
      <3>2. PICK all : all = [i \in 0 .. 0 |-> known]
        OBVIOUS
      <3>3. Grown(known, docs, 0, all)
        BY <3>2 DEF Grown, Grows
      <3>. QED  BY <3>1, <3>3
    <2>3. n \in Nat /\ n - 1 \in 0 .. Len(docs) /\ n - 1 \notin Without
      BY <2>1, <2>2
    <2>4. PICK less : Grown(known, docs, n - 1, less)
      BY <2>3
    <2>5. PICK all : all = [i \in 0 .. n |-> IF i < n THEN less[i] ELSE Grows(known, docs, n, less)]
      OBVIOUS
    <2>6. ASSUME NEW i \in 0 .. n
          PROVE  all[i] = Grows(known, docs, i, all)
      <3>1. CASE i = 0
        BY <2>2, <2>3, <2>4, <2>5, <3>1 DEF Grown, Grows
      <3>2. CASE i # 0
        <4>1. i - 1 \in 0 .. n - 1 /\ all[i - 1] = less[i - 1]
          BY <2>3, <2>5, <3>2
        <4>2. Grows(known, docs, i, all) = Grows(known, docs, i, less)
          BY <4>1, <3>2 DEF Grows
        <4>3. CASE i < n
          <5>1. i \in 0 .. n - 1
            BY <2>3, <4>3
          <5>. QED  BY <2>4, <2>5, <4>2, <4>3, <5>1 DEF Grown
        <4>4. CASE i = n
          BY <2>3, <2>5, <4>2, <4>4
        <4>. QED  BY <2>3, <4>3, <4>4
      <3>. QED  BY <3>1, <3>2
    <2>7. Grown(known, docs, n, all)
      BY <2>5, <2>6 DEF Grown
    <2>. QED  BY <2>1, <2>7
  <1>. QED  BY <1>1, <1>2

(* How far the evidence has come after n documents: what it held is where  *)
(* it was, and each of the n documents is in it.                           *)
Extends(D, known, docs, n, all) ==
    /\ all[n] \in Seq(D)
    /\ Len(known) <= Len(all[n])
    /\ \A i \in 1 .. Len(known) : all[n][i] = known[i]
    /\ \A j \in 1 .. n : docs[j] \in Range(all[n])

LEMMA ExtendsStep ==
  ASSUME NEW D, NEW known \in Seq(D), NEW docs \in Seq(D), NEW all, NEW n \in 1 .. Len(docs),
         all[n] = Grows(known, docs, n, all), Extends(D, known, docs, n - 1, all)
  PROVE  Extends(D, known, docs, n, all)
  <1>. PICK old : old = all[n - 1]
    OBVIOUS
  <1>. PICK d : d = docs[n]
    OBVIOUS
  <1>1. old \in Seq(D) /\ d \in D /\ n # 0
    BY DEF Extends
  <1>2. \A j \in 1 .. n : j = n \/ j \in 1 .. n - 1
    OBVIOUS
  <1>3. CASE d \in Range(old)
    <2>1. all[n] = old
      BY <1>1, <1>3 DEF Grows
    <2>. QED  BY <1>2, <1>3, <2>1 DEF Extends
  <1>4. CASE d \notin Range(old)
    <2>1. all[n] = Append(old, d)
      BY <1>1, <1>4 DEF Grows
    <2>2. all[n] \in Seq(D) /\ Len(all[n]) = Len(old) + 1 /\ Len(old) \in Nat
      BY <1>1, <2>1
    <2>3. \A i \in 1 .. Len(old) : all[n][i] = old[i]
      BY <1>1, <2>1
    <2>4. all[n][Len(old) + 1] = d
      BY <1>1, <2>1
    <2>5. DOMAIN old = 1 .. Len(old) /\ DOMAIN all[n] = 1 .. Len(old) + 1
      BY <1>1, <2>2
    <2>6. Range(old) \subseteq Range(all[n]) /\ d \in Range(all[n])
      <3>1. PICK new : new = all[n]
        OBVIOUS
      <3>2. \A i \in DOMAIN old : i \in DOMAIN new /\ new[i] = old[i]
        BY <2>2, <2>3, <2>5, <3>1
      <3>3. Len(old) + 1 \in DOMAIN new /\ new[Len(old) + 1] = d
        BY <2>2, <2>4, <2>5, <3>1
      <3>. QED  BY <3>1, <3>2, <3>3 DEF Range
    <2>7. Len(known) <= Len(all[n]) /\ \A i \in 1 .. Len(known) : all[n][i] = known[i]
      <3>1. Len(known) \in Nat /\ Len(known) <= Len(old)
        BY DEF Extends
      <3>2. \A i \in 1 .. Len(known) : old[i] = known[i] /\ i \in 1 .. Len(old)
        BY <2>2, <3>1 DEF Extends
      <3>. QED  BY <2>2, <2>3, <3>1, <3>2
    <2>. QED  BY <1>2, <2>2, <2>6, <2>7 DEF Extends
  <1>. QED  BY <1>3, <1>4

(* What a search appends keeps the evidence where it was and holds every   *)
(* document that was found.                                                *)
LEMMA AppendedKeeps ==
  ASSUME NEW D, NEW known \in Seq(D), NEW docs \in Seq(D)
  PROVE  LET all == Appended(known, docs) IN
         /\ all \in Seq(D)
         /\ Len(known) <= Len(all)
         /\ \A i \in 1 .. Len(known) : all[i] = known[i]
         /\ Range(docs) \subseteq Range(all)
  <1>1. Len(docs) \in Nat /\ DOMAIN docs = 1 .. Len(docs)
    OBVIOUS
  <1>2. PICK all : all = [i \in 0 .. Len(docs) |-> Grows(known, docs, i, all)]
                   /\ Appended(known, docs) = all[Len(docs)]
    <2>1. PICK g : g = [i \in 0 .. Len(docs) |-> Grows(known, docs, i, g)]
      BY <1>1, GrownExists DEF Grown
    <2>. QED  BY <2>1 DEF Appended, Grows
  <1>. DEFINE Short == {n \in 0 .. Len(docs) : ~ Extends(D, known, docs, n, all)}
  <1>3. Short = {}
    <2>1. SUFFICES ASSUME Short # {} PROVE FALSE
      OBVIOUS
    <2>2. PICK n \in Short : \A m \in Short : n <= m
      <3>1. Short \in SUBSET Nat
        OBVIOUS
      <3>. HIDE DEF Short
      <3>. QED  BY <2>1, <3>1, LeastOf
    <2>3. Extends(D, known, docs, 0, all)
      <3>1. all[0] = known
        BY <1>1, <1>2 DEF Grows
      <3>. QED  BY <3>1 DEF Extends
    <2>4. n \in 1 .. Len(docs) /\ n - 1 \in 0 .. Len(docs) /\ n - 1 \notin Short
      BY <1>1, <2>2, <2>3
    <2>5. all[n] = Grows(known, docs, n, all) /\ Extends(D, known, docs, n - 1, all)
      BY <1>2, <2>4
    <2>. QED  BY <2>2, <2>4, <2>5, ExtendsStep
  <1>4. Extends(D, known, docs, Len(docs), all)
    BY <1>1, <1>3
  <1>. QED  BY <1>1, <1>2, <1>4 DEF Extends, Range

(* The model is shown documents that the search found. *)
LEMMA ShownDocuments ==
  ASSUME NEW seen, seen.docs \in Seq(Provisions) PROVE ShownToModel(seen) \subseteq Range(seen.docs)
  BY DEF ShownToModel, Range

(* The number of a document is its place in the evidence. *)
LEMMA CitationIndexPoints ==
  ASSUME NEW D, NEW known \in Seq(D), NEW docs \in Seq(D), NEW d \in Range(docs)
  PROVE  LET all == Appended(known, docs)
             n   == CitationIndex(known, docs, d)
         IN  n \in 1 .. Len(all) /\ all[n] = d
  <1>. PICK all : all = Appended(known, docs)
    OBVIOUS
  <1>1. all \in Seq(D) /\ d \in Range(all)
    BY AppendedKeeps
  <1>2. \E i \in 1 .. Len(all) : all[i] = d
    BY <1>1 DEF Range
  <1>. QED  BY <1>2 DEF CitationIndex

LEMMA ObservedDocuments ==
  ASSUME NEW tool, NEW seen \in Observations(tool)
  PROVE  seen.docs \in Seq(Provisions)
  <1>1. \A n \in 1 .. MaxFound : n \in Nat /\ [1 .. n -> Provisions] \subseteq Seq(Provisions)
    BY BudgetsAssumption
  <1>2. seen.docs \in Findings
    BY DEF Observations, Findings
  <1>3. << >> \in Seq(Provisions)
    OBVIOUS
  <1>. QED  BY <1>1, <1>2, <1>3 DEF Findings

LEMMA PreparedIsCall ==
  ASSUME NEW tool \in AllTools, NEW query \in Rewrites
  PROVE  Prepared(tool, query) \in Calls
  <1>1. SearchArguments(query) \in Arguments
    <2>1. PICK kept : kept = IF query \in Range(Hints) THEN Hints ELSE Append(Hints, query)
      OBVIOUS
    <2>2. kept \in Seq(Rewrites) /\ Len(kept) \in Nat
      BY <2>1, HintsAssumption
    <2>3. PICK n : n = IF Len(kept) < 2 THEN Len(kept) ELSE 2
      OBVIOUS
    <2>4. n \in Int /\ \A i \in 1 .. n : kept[i] \in Rewrites
      BY <2>2, <2>3
    <2>5. SubSeq(kept, 1, n) \in Seq(Rewrites)
      BY <2>4, SubSeqProperties
    <2>. QED  BY <2>1, <2>3, <2>5 DEF SearchArguments, Arguments
  <1>2. <<query>> \in Arguments
    BY DEF Arguments
  <1>. QED  BY <1>1, <1>2 DEF Prepared, Calls
-----------------------------------------------------------------------------
(***************************************************************************)
(* The invariant                                                           *)
(***************************************************************************)
LEMMA LoopStart == LoopInit => LoopInv
  <1>. SUFFICES ASSUME LoopInit PROVE LoopInv
    OBVIOUS
  <1>1. LoopTypes
    BY DEF LoopInit, LoopTypes
  <1>2. MessagesOwed
    BY DEF LoopInit, MessagesOwed
  <1>3. WorkInv
    <2>1. ExecutedWith(AllTools) = {} /\ ExecutedWith(SearchTools) = {}
          /\ ExecutedWith({"search_web_official"}) = {}
      BY DEF LoopInit, ExecutedWith
    <2>2. Cardinality({}) = 0 /\ MaxSearchCalls \in Nat /\ MaxWebCalls \in Nat
      BY FS_EmptySet, BudgetsAssumption
    <2>3. WorkIsBounded
      BY <2>1, <2>2 DEF WorkIsBounded
    <2>. QED  BY <2>3 DEF WorkInv, LoopInit
  <1>4. CitedInv
    BY DEF LoopInit, CitedInv
  <1>. QED  BY <1>1, <1>2, <1>3, <1>4 DEF LoopInv

LEMMA HeadIsCall ==
  ASSUME LoopTypes, pending # << >>
  PROVE  /\ Head(pending) \in Calls
         /\ Tail(pending) \in Seq(Calls)
         /\ Len(Tail(pending)) = Len(pending) - 1
         /\ Len(pending) \in Nat
  BY DEF LoopTypes

(* A call that is finished is answered, unless the loop ends with it. *)
LEMMA FinishedCall ==
  ASSUME FinishCall, ~cancelled
  PROVE  /\ step' = step /\ asked' = asked
         /\ \/ pc' = "done" /\ pending' = pending /\ answered' = answered
            \/ pc' = "calls" /\ pending' = Tail(pending) /\ answered' = answered + 1
  <1>. PICK c : c = Head(pending)
    OBVIOUS
  <1>1. \E seen \in Observations(c.tool) :
           IF c.tool = "ask_user_for_clarification" /\ ~InsistsOnSearch(evidence')
             THEN pc' = "done" /\ UNCHANGED <<pending, answered>>
             ELSE pending' = Tail(pending) /\ answered' = answered + 1 /\ pc' = "calls"
    BY DEF FinishCall
  <1>. QED  BY <1>1 DEF FinishCall

LEMMA TypesStep ==
  ASSUME LoopTypes, MessagesOwed, LoopNext PROVE LoopTypes'
  <1>1. CASE BeginStep
    BY <1>1 DEF LoopTypes, BeginStep, Complete
  <1>2. CASE StepsExhausted
    BY <1>2 DEF LoopTypes, StepsExhausted, Complete
  <1>3. CASE ModelFails
    BY <1>3 DEF LoopTypes, ModelFails, Complete
  <1>4. CASE ModelAnswers
    BY <1>4 DEF LoopTypes, ModelAnswers, Complete, NextStep
  <1>5. CASE ModelRequests
    <2>0. PICK n \in 1 .. MaxAtOnce : \E calls \in [1 .. n -> Tools \X Rewrites] :
             /\ pending' = [i \in 1 .. n |-> Prepared(calls[i][1], calls[i][2])]
             /\ asked' = n
      BY <1>5 DEF ModelRequests
    <2>1. PICK calls \in [1 .. n -> Tools \X Rewrites] :
             /\ pending' = [i \in 1 .. n |-> Prepared(calls[i][1], calls[i][2])]
             /\ asked' = n
      BY <2>0
    <2>2. n \in Nat
      BY BudgetsAssumption
    <2>3. \A i \in 1 .. n : Prepared(calls[i][1], calls[i][2]) \in Calls
      <3>1. \A i \in 1 .. n : calls[i][1] \in AllTools /\ calls[i][2] \in Rewrites
        BY ToolsAssumption
      <3>. QED  BY <3>1, PreparedIsCall
    <2>4. pending' \in Seq(Calls)
      BY <2>1, <2>2, <2>3
    <2>. QED  BY <1>5, <2>1, <2>2, <2>4 DEF LoopTypes, ModelRequests
  <1>6. CASE StartCall
    <2>1. CASE cancelled
      BY <1>6, <2>1 DEF LoopTypes, StartCall, Complete
    <2>2. CASE ~cancelled /\ MayRun(Head(pending))
      BY <1>6, <2>2 DEF LoopTypes, StartCall
    <2>3. CASE ~cancelled /\ ~MayRun(Head(pending))
      <3>1. PICK c : c = Head(pending)
        OBVIOUS
      <3>2. c \in Calls /\ Tail(pending) \in Seq(Calls)
        BY <1>6, <3>1, HeadIsCall DEF StartCall
      <3>3. trajectory' = Append(trajectory, [tool |-> c.tool, arg |-> c.arg, allowed |-> FALSE])
        BY <1>6, <2>3, <3>1 DEF StartCall, Logged
      <3>4. [tool |-> c.tool, arg |-> c.arg, allowed |-> FALSE] \in Entries
        BY <3>2 DEF Calls, Entries
      <3>5. trajectory' \in Seq(Entries)
        BY <3>3, <3>4 DEF LoopTypes
      <3>6. /\ pending' = Tail(pending) /\ answered' = answered + 1
            /\ UNCHANGED <<pc, step, asked, evidence, cited>>
        BY <1>6, <2>3 DEF StartCall, WithDenial
      <3>. QED  BY <3>2, <3>5, <3>6 DEF LoopTypes
    <2>. QED  BY <2>1, <2>2, <2>3
  <1>7. CASE CallsHandled
    BY <1>7 DEF LoopTypes, CallsHandled, NextStep
  <1>8. CASE FinishCall
    <2>1. PICK c : c = Head(pending)
      OBVIOUS
    <2>2. c \in Calls /\ Tail(pending) \in Seq(Calls) /\ pc = "execute"
      BY <1>8, <2>1, HeadIsCall DEF FinishCall, MessagesOwed
    <2>3. trajectory' = Append(trajectory, [tool |-> c.tool, arg |-> c.arg, allowed |-> TRUE])
      BY <1>8, <2>1 DEF FinishCall, Logged
    <2>4. [tool |-> c.tool, arg |-> c.arg, allowed |-> TRUE] \in Entries
      BY <2>2 DEF Calls, Entries
    <2>5. trajectory' \in Seq(Entries)
      BY <2>3, <2>4 DEF LoopTypes
    <2>6. CASE cancelled
      BY <1>8, <2>5, <2>6 DEF LoopTypes, FinishCall
    <2>7. CASE ~cancelled
      <3>1. PICK seen \in Observations(c.tool) :
               /\ evidence' = Appended(evidence, seen.docs)
               /\ cited' = cited \cup {<<d, CitationIndex(evidence, seen.docs, d)>> :
                                          d \in ShownToModel(seen)}
        BY <1>8, <2>1, <2>7 DEF FinishCall
      <3>2. evidence \in Seq(Provisions) /\ seen.docs \in Seq(Provisions)
        BY ObservedDocuments DEF LoopTypes
      <3>3. evidence' \in Seq(Provisions) /\ Len(evidence') \in Nat
        BY <3>1, <3>2, AppendedKeeps
      <3>4. \A d \in Range(seen.docs) : d \in Provisions
                                      /\ CitationIndex(evidence, seen.docs, d) \in Nat
        BY <3>1, <3>2, <3>3, CitationIndexPoints DEF Range
      <3>5. cited' \subseteq Provisions \X Nat
        BY <3>1, <3>2, <3>4, ShownDocuments DEF LoopTypes
      <3>6. /\ step' = step /\ asked' = asked
            /\ \/ pc' = "done" /\ pending' = pending /\ answered' = answered
               \/ pc' = "calls" /\ pending' = Tail(pending) /\ answered' = answered + 1
        BY <1>8, <2>7, FinishedCall
      <3>7. pc' \in {"calls", "done"} /\ pending' \in Seq(Calls) /\ answered' \in Nat
        <4>1. pending \in Seq(Calls) /\ answered \in Nat
          BY DEF LoopTypes
        <4>. QED  BY <2>1, <2>2, <3>6, <4>1
      <3>. QED  BY <2>5, <3>3, <3>5, <3>6, <3>7 DEF LoopTypes
    <2>. QED  BY <2>6, <2>7
  <1>9. CASE PressStopLoop
    BY <1>9 DEF LoopTypes, PressStopLoop
  <1>. QED  BY <1>1, <1>2, <1>3, <1>4, <1>5, <1>6, <1>7, <1>8, <1>9 DEF LoopNext, RunnerStep

LEMMA OwedStep ==
  ASSUME LoopTypes, MessagesOwed, LoopNext PROVE MessagesOwed'
  <1>1. CASE BeginStep
    BY <1>1 DEF MessagesOwed, BeginStep, Complete
  <1>2. CASE StepsExhausted
    BY <1>2 DEF MessagesOwed, StepsExhausted, Complete
  <1>3. CASE ModelFails
    BY <1>3 DEF MessagesOwed, ModelFails, Complete
  <1>4. CASE ModelAnswers
    BY <1>4 DEF MessagesOwed, ModelAnswers, Complete
  <1>5. CASE ModelRequests
    <2>1. PICK n \in 1 .. MaxAtOnce : \E calls \in [1 .. n -> Tools \X Rewrites] :
             /\ pending' = [i \in 1 .. n |-> Prepared(calls[i][1], calls[i][2])]
             /\ asked' = n
      BY <1>5 DEF ModelRequests
    <2>2. n \in Nat /\ Len(pending') = n
      BY <2>1, BudgetsAssumption
    <2>. QED  BY <1>5, <2>1, <2>2 DEF MessagesOwed, ModelRequests
  <1>6. CASE StartCall
    <2>1. CASE cancelled
      BY <1>6, <2>1 DEF MessagesOwed, StartCall, Complete
    <2>2. CASE ~cancelled /\ MayRun(Head(pending))
      BY <1>6, <2>2 DEF MessagesOwed, StartCall
    <2>3. CASE ~cancelled /\ ~MayRun(Head(pending))
      <3>1. /\ pending' = Tail(pending) /\ answered' = answered + 1
            /\ pc = "calls" /\ pc' = "calls" /\ asked' = asked /\ pending # << >>
        BY <1>6, <2>3 DEF StartCall, WithDenial
      <3>. QED  BY <3>1, HeadIsCall DEF MessagesOwed, LoopTypes
    <2>. QED  BY <2>1, <2>2, <2>3
  <1>7. CASE CallsHandled
    BY <1>7 DEF MessagesOwed, CallsHandled, LoopTypes
  <1>8. CASE FinishCall
    <2>1. pc = "execute" /\ pending # << >>
      BY <1>8 DEF FinishCall, MessagesOwed
    <2>2. CASE cancelled
      BY <1>8, <2>2 DEF MessagesOwed, FinishCall
    <2>3. CASE ~cancelled
      <3>1. /\ asked' = asked
            /\ pc' # "done" => /\ pc' = "calls" /\ pending' = Tail(pending)
                               /\ answered' = answered + 1
        BY <1>8, <2>3, FinishedCall
      <3>2. Len(Tail(pending)) = Len(pending) - 1 /\ Len(pending) \in Nat /\ answered \in Nat
        BY <2>1, HeadIsCall DEF LoopTypes
      <3>3. pc' # "done" => pc' = "calls" /\ answered' + Len(pending') = asked'
        BY <2>1, <3>1, <3>2 DEF MessagesOwed
      <3>. QED  BY <3>3 DEF MessagesOwed
    <2>. QED  BY <2>2, <2>3
  <1>9. CASE PressStopLoop
    BY <1>9 DEF MessagesOwed, PressStopLoop
  <1>. QED  BY <1>1, <1>2, <1>3, <1>4, <1>5, <1>6, <1>7, <1>8, <1>9 DEF LoopNext, RunnerStep

(* Only a call that is finished counts as executed; every other step keeps *)
(* the trajectory, or logs a call that it denies.                          *)
LEMMA OnlyFinishExecutes ==
  ASSUME LoopNext
  PROVE  \/ FinishCall
         \/ UNCHANGED trajectory /\ (pc' = "execute" => /\ pending' = pending
                                                       /\ \/ pc = "execute"
                                                          \/ MayRun(Head(pending)))
         \/ Logged(Head(pending), FALSE) /\ pc' = "calls"
  BY DEF LoopNext, RunnerStep, BeginStep, StepsExhausted, ModelFails, ModelAnswers, ModelRequests,
         StartCall, CallsHandled, PressStopLoop, Complete

LEMMA ExecutedAfter ==
  ASSUME LoopTypes, NEW c, NEW ok \in BOOLEAN, Logged(c, ok), NEW tools
  PROVE  /\ \A i \in 1 .. Len(trajectory) : trajectory'[i] = trajectory[i]
         /\ trajectory'[Len(trajectory) + 1] = [tool |-> c.tool, arg |-> c.arg, allowed |-> ok]
         /\ ExecutedWith(tools)' = IF ok /\ c.tool \in tools
                                     THEN ExecutedWith(tools) \cup {Len(trajectory) + 1}
                                     ELSE ExecutedWith(tools)
  <1>. PICK entry : entry = [tool |-> c.tool, arg |-> c.arg, allowed |-> ok]
    OBVIOUS
  <1>. PICK n : n = Len(trajectory)
    OBVIOUS
  <1>1. trajectory \in Seq(Entries) /\ n \in Nat /\ DOMAIN trajectory = 1 .. n
    BY DEF LoopTypes
  <1>2. trajectory' = Append(trajectory, entry)
    BY DEF Logged
  <1>3. /\ DOMAIN trajectory' = 1 .. n + 1
        /\ \A i \in 1 .. n : trajectory'[i] = trajectory[i]
        /\ trajectory'[n + 1] = entry
    BY <1>1, <1>2
  <1>4. entry.tool = c.tool /\ entry.arg = c.arg /\ entry.allowed = ok
    OBVIOUS
  <1>5. \A i : i \in ExecutedWith(tools)' <=>
             i \in 1 .. n + 1 /\ trajectory'[i].allowed /\ trajectory'[i].tool \in tools
    BY <1>3 DEF ExecutedWith
  <1>6. \A i : i \in ExecutedWith(tools) <=>
             i \in 1 .. n /\ trajectory[i].allowed /\ trajectory[i].tool \in tools
    BY <1>1 DEF ExecutedWith
  <1>7. \A i : i \in 1 .. n + 1 <=> i \in 1 .. n \/ i = n + 1
    BY <1>1
  <1>8. n + 1 \notin 1 .. n
    BY <1>1
  <1>9. \A i : i \in ExecutedWith(tools)' <=>
             i \in ExecutedWith(tools) \/ (i = n + 1 /\ ok /\ c.tool \in tools)
    BY <1>3, <1>4, <1>5, <1>6, <1>7, <1>8, Zenon
  <1>. QED  BY <1>3, <1>9

LEMMA ExecutedInLog ==
  ASSUME LoopTypes, NEW tools
  PROVE  ExecutedWith(tools) \subseteq 1 .. Len(trajectory)
  BY DEF LoopTypes, ExecutedWith

(* No more calls are executed than are logged. *)
LEMMA ExecutedAreLogged ==
  ASSUME LoopTypes, NEW tools
  PROVE  /\ IsFiniteSet(ExecutedWith(tools))
         /\ Cardinality(ExecutedWith(tools)) \in Nat
         /\ CallsOf(tools) \in Nat
         /\ Cardinality(ExecutedWith(tools)) <= CallsOf(tools)
  <1>. PICK all : all = {i \in DOMAIN trajectory : trajectory[i].tool \in tools}
    OBVIOUS
  <1>1. DOMAIN trajectory = 1 .. Len(trajectory) /\ Len(trajectory) \in Int
    BY DEF LoopTypes
  <1>2. IsFiniteSet(DOMAIN trajectory)
    BY <1>1, FS_Interval
  <1>3. IsFiniteSet(all)
    BY <1>2, FS_Subset
  <1>4. ExecutedWith(tools) \in SUBSET all
    BY DEF ExecutedWith
  <1>5. CallsOf(tools) = Cardinality(all)
    BY DEF CallsOf
  <1>. QED  BY <1>3, <1>4, <1>5, FS_Subset, FS_CardinalityType

(* A budget that the log keeps is kept by what is executed. *)
LEMMA BudgetKept ==
  ASSUME LoopTypes, NEW c, Logged(c, TRUE), NEW tools, NEW max \in Nat,
         Cardinality(ExecutedWith(tools)) <= max, c.tool \in tools => CallsOf(tools) < max
  PROVE  Cardinality(ExecutedWith(tools)') <= max
  <1>. PICK before : before = ExecutedWith(tools)
    OBVIOUS
  <1>. PICK n : n = Len(trajectory) + 1
    OBVIOUS
  <1>1. IsFiniteSet(before) /\ Cardinality(before) \in Nat /\ CallsOf(tools) \in Nat
        /\ Cardinality(before) <= CallsOf(tools)
    BY ExecutedAreLogged
  <1>2. CASE c.tool \in tools
    <2>1. ExecutedWith(tools)' = before \cup {n}
      BY <1>2, ExecutedAfter
    <2>2. IsFiniteSet(before)
      BY <1>1
    <2>3. Cardinality(before \cup {n}) = IF n \in before THEN Cardinality(before)
                                                          ELSE Cardinality(before) + 1
      BY <2>2, FS_AddElement
    <2>. QED  BY <1>1, <1>2, <2>1, <2>2, <2>3
  <1>3. CASE c.tool \notin tools
    BY <1>3, ExecutedAfter
  <1>. QED  BY <1>2, <1>3

LEMMA WorkStep ==
  ASSUME LoopTypes, MessagesOwed, WorkInv, LoopNext PROVE WorkInv'
  <1>1. CASE UNCHANGED trajectory /\ (pc' = "execute" => /\ pending' = pending
                                                       /\ \/ pc = "execute"
                                                          \/ MayRun(Head(pending)))
    BY <1>1 DEF WorkInv, WorkIsBounded, ExecutedWith, MayRun, Repeats, WithinBudget, CallsOf
  <1>2. CASE Logged(Head(pending), FALSE) /\ pc' = "calls"
    <2>1. PICK c : c = Head(pending)
      OBVIOUS
    <2>2. \A tools : ExecutedWith(tools)' = ExecutedWith(tools)
      BY <1>2, <2>1, ExecutedAfter
    <2>3. \A i \in ExecutedWith(AllTools) : trajectory'[i] = trajectory[i]
      <3>1. \A i \in 1 .. Len(trajectory) : trajectory'[i] = trajectory[i]
        BY <1>2, <2>1, ExecutedAfter
      <3>. QED  BY <3>1, ExecutedInLog
    <2>. QED  BY <1>2, <2>2, <2>3 DEF WorkInv, WorkIsBounded
  <1>3. CASE FinishCall
    <2>1. PICK c : c = Head(pending)
      OBVIOUS
    <2>2. pc = "execute" /\ c \in Calls /\ Logged(c, TRUE) /\ pc' # "execute" /\ MayRun(c)
      BY <1>3, <2>1, HeadIsCall DEF FinishCall, MessagesOwed, WorkInv
    <2>3. Cardinality(ExecutedWith(SearchTools)') <= MaxSearchCalls
      <3>1. c.tool \in SearchTools => CallsOf(SearchTools) < MaxSearchCalls
        BY <2>2 DEF MayRun, WithinBudget
      <3>. QED  BY <2>2, <3>1, BudgetKept, BudgetsAssumption DEF WorkInv, WorkIsBounded
    <2>4. Cardinality(ExecutedWith({"search_web_official"})') <= MaxWebCalls
      <3>1. c.tool \in {"search_web_official"} => CallsOf({"search_web_official"}) < MaxWebCalls
        BY <2>2 DEF MayRun, WithinBudget
      <3>. QED  BY <2>2, <3>1, BudgetKept, BudgetsAssumption DEF WorkInv, WorkIsBounded
    <2>5. \A i, j \in ExecutedWith(AllTools)' :
             trajectory'[i].tool = trajectory'[j].tool /\ trajectory'[i].arg = trajectory'[j].arg
               => i = j
      <3>1. PICK n : n = Len(trajectory)
        OBVIOUS
      <3>2. ExecutedWith(AllTools)' = ExecutedWith(AllTools) \cup {n + 1}
            /\ trajectory'[n + 1] = [tool |-> c.tool, arg |-> c.arg, allowed |-> TRUE]
        BY <2>2, <3>1, ExecutedAfter DEF Calls
      <3>3. \A i \in ExecutedWith(AllTools) : i \in 1 .. n /\ trajectory'[i] = trajectory[i]
        <4>1. \A i \in 1 .. n : trajectory'[i] = trajectory[i]
          BY <2>2, <3>1, ExecutedAfter
        <4>. QED  BY <3>1, <4>1, ExecutedInLog
      <3>4. \A i \in ExecutedWith(AllTools) :
               ~ (trajectory[i].tool = c.tool /\ trajectory[i].arg = c.arg)
        BY <2>2, <3>1, <3>3 DEF MayRun, Repeats
      <3>. QED  BY <3>2, <3>3, <3>4 DEF WorkInv, WorkIsBounded
    <2>. QED  BY <2>2, <2>3, <2>4, <2>5 DEF WorkInv, WorkIsBounded
  <1>. QED  BY <1>1, <1>2, <1>3, OnlyFinishExecutes

(* The evidence changes only with a call that is finished. *)
LEMMA CitedStep ==
  ASSUME LoopTypes, MessagesOwed, CitedInv, LoopNext PROVE CitedInv'
  <1>1. CASE UNCHANGED <<evidence, cited>>
    BY <1>1 DEF CitedInv
  <1>2. CASE FinishCall /\ ~UNCHANGED <<evidence, cited>>
    <2>1. PICK c : c = Head(pending)
      OBVIOUS
    <2>2. PICK seen \in Observations(c.tool) :
             /\ evidence' = Appended(evidence, seen.docs)
             /\ cited' = cited \cup {<<d, CitationIndex(evidence, seen.docs, d)>> :
                                        d \in ShownToModel(seen)}
      BY <1>2, <2>1 DEF FinishCall
    <2>3. evidence \in Seq(Provisions) /\ seen.docs \in Seq(Provisions) /\ Len(evidence) \in Nat
      BY ObservedDocuments DEF LoopTypes
    <2>4. /\ evidence' \in Seq(Provisions) /\ Len(evidence') \in Nat
          /\ Len(evidence) <= Len(evidence')
          /\ \A i \in 1 .. Len(evidence) : evidence'[i] = evidence[i]
      BY <2>2, <2>3, AppendedKeeps
    <2>5. ASSUME NEW p \in cited PROVE p[2] \in 1 .. Len(evidence') /\ evidence'[p[2]] = p[1]
      BY <2>3, <2>4, <2>5 DEF CitedInv
    <2>6. ASSUME NEW d \in Range(seen.docs)
          PROVE  LET n == CitationIndex(evidence, seen.docs, d)
                 IN  n \in 1 .. Len(evidence') /\ evidence'[n] = d
      BY <2>2, <2>3, CitationIndexPoints
    <2>7. ShownToModel(seen) \subseteq Range(seen.docs)
      BY <2>3, ShownDocuments
    <2>. QED  BY <2>2, <2>5, <2>6, <2>7 DEF CitedInv
  <1>3. FinishCall \/ UNCHANGED <<evidence, cited>>
    BY DEF LoopNext, RunnerStep, BeginStep, StepsExhausted, ModelFails, ModelAnswers, ModelRequests,
           StartCall, CallsHandled, PressStopLoop, Complete
  <1>. QED  BY <1>1, <1>2, <1>3

LEMMA LoopStep ==
  ASSUME LoopInv, [LoopNext]_loopVars PROVE LoopInv'
  <1>1. CASE LoopNext
    BY <1>1, TypesStep, OwedStep, WorkStep, CitedStep DEF LoopInv
  <1>2. CASE UNCHANGED loopVars
    BY <1>2 DEF loopVars, LoopInv, LoopTypes, MessagesOwed, WorkInv, CitedInv, WorkIsBounded,
                ExecutedWith, MayRun, Repeats, WithinBudget, CallsOf
  <1>. QED  BY <1>1, <1>2

THEOREM LoopInvariant == LoopSpec => []LoopInv
  <1>1. LoopInit => LoopInv
    BY LoopStart
  <1>2. LoopInv /\ [LoopNext]_loopVars => LoopInv'
    BY LoopStep
  <1>. QED  BY <1>1, <1>2, PTL DEF LoopSpec

(* Whatever the model asks for, no call is executed twice with the same    *)
(* arguments, and the searches stay within their budgets.                  *)
THEOREM BudgetsAreKept == LoopSpec => []WorkIsBounded
  <1>1. LoopInv => WorkIsBounded
    BY DEF LoopInv, WorkInv
  <1>. QED  BY <1>1, LoopInvariant, PTL

(* The model is called only with messages that answer every call of its    *)
(* last response.                                                          *)
THEOREM CallsAreAnswered == LoopSpec => []EveryCallIsAnswered
  <1>1. LoopInv => EveryCallIsAnswered
    BY DEF LoopInv, MessagesOwed, EveryCallIsAnswered
  <1>. QED  BY <1>1, LoopInvariant, PTL

(* The number by which the model was told to cite a document stays the     *)
(* place of that document in the evidence.                                 *)
THEOREM CitationsHold == LoopSpec => []CitationsStayStable
  <1>1. LoopInv => CitationsStayStable
    BY DEF LoopInv, CitedInv, CitationsStayStable, LoopTypes
  <1>. QED  BY <1>1, LoopInvariant, PTL
(***************************************************************************)
(* The loop runs out                                                       *)
(***************************************************************************)

(* The step is one of the run's, and a response has no more calls than one *)
(* may have.                                                               *)
StepsInv ==
    /\ settings.limit \in Nat
    /\ pc = "step" => step <= settings.limit
    /\ pc \in {"reason", "calls", "execute"} => step < settings.limit
    /\ pc \in {"calls", "execute"} => Len(pending) <= MaxAtOnce

LEMMA StepsStart == LoopInit => StepsInv
  <1>. SUFFICES ASSUME LoopInit PROVE StepsInv
    OBVIOUS
  <1>1. settings.limit \in 1 .. MaxSteps /\ MaxSteps \in Nat
    BY BudgetsAssumption DEF LoopInit, StepLimits
  <1>. QED  BY <1>1 DEF LoopInit, StepsInv

LEMMA TailIsShorter ==
  ASSUME LoopTypes, pending # << >>, pending' = Tail(pending)
  PROVE  Len(pending) \in Nat \ {0} /\ Len(pending') = Len(pending) - 1
  BY DEF LoopTypes

LEMMA StepsStep ==
  ASSUME LoopTypes, MessagesOwed, StepsInv, [LoopNext]_loopVars PROVE StepsInv'
  <1>1. CASE UNCHANGED loopVars
    BY <1>1 DEF loopVars, StepsInv
  <1>2. CASE BeginStep \/ StepsExhausted \/ ModelFails \/ PressStopLoop
    BY <1>2 DEF BeginStep, StepsExhausted, ModelFails, PressStopLoop, Complete, StepsInv
  <1>3. CASE ModelAnswers
    BY <1>3 DEF ModelAnswers, Complete, NextStep, StepsInv, LoopTypes
  <1>4. CASE ModelRequests
    <2>1. PICK n \in 1 .. MaxAtOnce : \E calls \in [1 .. n -> Tools \X Rewrites] :
             pending' = [i \in 1 .. n |-> Prepared(calls[i][1], calls[i][2])]
      BY <1>4 DEF ModelRequests
    <2>2. n \in Nat /\ Len(pending') = n
      BY <2>1, BudgetsAssumption
    <2>. QED  BY <1>4, <2>1, <2>2 DEF ModelRequests, StepsInv
  <1>5. CASE StartCall
    <2>1. /\ pc = "calls" /\ UNCHANGED settings
          /\ \/ pc' = "done"
             \/ pc' = "execute" /\ UNCHANGED <<step, pending>>
             \/ pc' = "calls" /\ UNCHANGED step /\ pending' = Tail(pending) /\ pending # << >>
      BY <1>5 DEF StartCall, Complete
    <2>2. pending' = Tail(pending) /\ pending # << >> => Len(pending') <= MaxAtOnce
      BY <2>1, TailIsShorter, BudgetsAssumption DEF StepsInv
    <2>. QED  BY <2>1, <2>2 DEF StepsInv
  <1>6. CASE CallsHandled
    BY <1>6 DEF CallsHandled, NextStep, StepsInv, LoopTypes
  <1>7. CASE FinishCall
    <2>1. /\ pc = "execute" /\ UNCHANGED <<settings, step>>
          /\ \/ pc' = "done"
             \/ pc' = "calls" /\ pending' = Tail(pending)
      BY <1>7 DEF FinishCall
    <2>2. pending' = Tail(pending) => Len(pending') <= MaxAtOnce
      BY <2>1, TailIsShorter, BudgetsAssumption DEF StepsInv, MessagesOwed
    <2>. QED  BY <2>1, <2>2 DEF StepsInv
  <1>. QED  BY <1>1, <1>2, <1>3, <1>4, <1>5, <1>6, <1>7 DEF LoopNext, RunnerStep

LEMMA OneLess ==
  ASSUME NEW n \in Nat, NEW b \in Nat
  PROVE  n * b \in Nat /\ (n > 0 => (n - 1) * b = n * b - b)
  OBVIOUS

(* The work that a loop at p with that many calls pending has left in this *)
(* step.                                                                   *)
LeftInStep(p, waiting) ==
    CASE p = "step" -> 2 * MaxAtOnce + 3
      [] p = "reason" -> 2 * MaxAtOnce + 2
      [] p = "calls" -> 2 * waiting + 1
      [] p = "execute" -> 2 * waiting

LEMMA WorkSplit ==
  ASSUME LoopTypes, StepsInv, MessagesOwed
  PROVE  /\ pc = "done" => WorkLeft = 0
         /\ pc # "done" =>
               /\ settings.limit - step \in Nat
               /\ (settings.limit - step) * WorkOfStep \in Nat
               /\ WorkLeft = (settings.limit - step) * WorkOfStep + LeftInStep(pc, Len(pending))
               /\ LeftInStep(pc, Len(pending)) \in Nat \ {0}
  <1>1. MaxAtOnce \in Nat /\ Len(pending) \in Nat /\ WorkOfStep \in Nat
    BY BudgetsAssumption DEF LoopTypes, WorkOfStep
  <1>2. pc # "done" => settings.limit - step \in Nat
    BY DEF LoopTypes, StepsInv
  <1>. PICK work : work = (settings.limit - step) * WorkOfStep
    OBVIOUS
  <1>3. pc # "done" => work \in Nat
    BY <1>1, <1>2, OneLess
  <1>4. pc = "execute" => Len(pending) # 0
    BY DEF MessagesOwed, LoopTypes
  <1>5. pc # "done" => LeftInStep(pc, Len(pending)) \in Nat \ {0}
    BY <1>1, <1>4 DEF LeftInStep, LoopTypes
  <1>6. pc # "done" => WorkLeft = work + LeftInStep(pc, Len(pending))
    BY <1>1, <1>3 DEF LeftInStep, WorkLeft, LoopTypes
  <1>. QED  BY <1>2, <1>3, <1>5, <1>6 DEF WorkLeft

LEMMA WorkShrinks ==
  ASSUME LoopInv, StepsInv, LoopInv', StepsInv', RunnerStep
  PROVE  WorkLeft' \in 0 .. WorkLeft - 1 /\ (pc' # "done" => WorkLeft' > 0)
  <1>. PICK n : n = settings.limit - step
    OBVIOUS
  <1>. PICK b : b = WorkOfStep
    OBVIOUS
  <1>. PICK k : k = Len(pending)
    OBVIOUS
  <1>1. /\ MaxAtOnce \in Nat /\ b \in Nat /\ b = 2 * MaxAtOnce + 3
        /\ k \in Nat /\ pc # "done" /\ WorkOfStep' = b /\ settings' = settings
    <2>1. pc # "done" /\ settings' = settings
      BY DEF RunnerStep, BeginStep, StepsExhausted, ModelFails, ModelAnswers, ModelRequests,
             StartCall, CallsHandled, FinishCall, Complete
    <2>2. MaxAtOnce \in Nat /\ k \in Nat
      BY BudgetsAssumption DEF LoopInv, LoopTypes
    <2>. QED  BY <2>1, <2>2 DEF WorkOfStep
  <1>2. /\ n \in Nat /\ n * b \in Nat /\ WorkLeft = n * b + LeftInStep(pc, k)
        /\ LeftInStep(pc, k) \in Nat \ {0}
    BY <1>1, WorkSplit DEF LoopInv
  <1>3. CASE pc' = "done"
    <2>1. WorkLeft' = 0
      BY <1>3 DEF WorkLeft
    <2>2. WorkLeft \in Nat \ {0}
      BY <1>2
    <2>. QED  BY <1>3, <2>1, <2>2
  <1>4. ASSUME pc' # "done"
        PROVE  /\ WorkLeft' = (settings.limit - step)' * b + LeftInStep(pc', Len(pending'))
               /\ LeftInStep(pc', Len(pending')) \in Nat \ {0}
               /\ (settings.limit - step)' * b \in Nat
    <2>1. /\ pending' \in Seq(Calls) /\ step' \in Nat /\ settings'.limit \in Nat
          /\ pc' \in {"step", "reason", "calls", "execute"}
          /\ pc' = "execute" => pending' # << >>
          /\ (settings.limit - step)' \in Nat
      BY <1>4 DEF LoopInv, LoopTypes, StepsInv, MessagesOwed
    <2>2. Len(pending') \in Nat /\ (pc' = "execute" => Len(pending') # 0)
      BY <2>1
    <2>. PICK work : work = (settings.limit - step)' * b
      OBVIOUS
    <2>3. work \in Nat
      BY <1>1, <2>1, OneLess
    <2>4. LeftInStep(pc', Len(pending')) \in Nat \ {0}
      <3>. PICK next : next = Len(pending')
        OBVIOUS
      <3>. PICK p : p = pc'
        OBVIOUS
      <3>1. /\ next \in Nat /\ (p = "execute" => next # 0)
            /\ p \in {"step", "reason", "calls", "execute"}
        BY <2>1, <2>2
      <3>2. LeftInStep(p, next) \in Nat \ {0}
        BY <1>1, <3>1 DEF LeftInStep
      <3>. QED  BY <3>2
    <2>5. WorkLeft' = work + LeftInStep(pc', Len(pending'))
      BY <1>1, <2>1, <2>3 DEF LeftInStep, WorkLeft
    <2>. QED  BY <2>3, <2>4, <2>5
  <1>5. CASE pc' # "done" /\ step' = step /\ LeftInStep(pc', Len(pending')) < LeftInStep(pc, k)
    <2>1. WorkLeft' = n * b + LeftInStep(pc', Len(pending'))
      BY <1>1, <1>4, <1>5
    <2>. QED  BY <1>2, <1>4, <1>5, <2>1
  <1>6. CASE pc' = "step" /\ step' = step + 1 /\ n > 0
    <2>1. (settings.limit - step)' = n - 1
      BY <1>1, <1>6 DEF LoopInv, LoopTypes, StepsInv
    <2>2. (n - 1) * b = n * b - b
      BY <1>1, <1>2, <1>6, OneLess
    <2>3. WorkLeft' = n * b - b + LeftInStep(pc', Len(pending')) /\ WorkLeft' > 0
      BY <1>1, <1>2, <1>4, <1>6, <2>1, <2>2
    <2>4. LeftInStep(pc', Len(pending')) = b
      BY <1>1, <1>6 DEF LeftInStep
    <2>. QED  BY <1>1, <1>2, <2>3, <2>4
  <1>7. CASE BeginStep \/ StepsExhausted \/ ModelFails
    <2>1. pc' # "done" => pc = "step" /\ pc' = "reason" /\ step' = step
      BY <1>7 DEF BeginStep, StepsExhausted, ModelFails, Complete
    <2>2. pc' # "done" => LeftInStep(pc', Len(pending')) < LeftInStep(pc, k)
      BY <1>1, <2>1 DEF LeftInStep
    <2>. QED  BY <1>3, <1>5, <2>1, <2>2
  <1>8. CASE ModelAnswers
    <2>1. pc' # "done" => pc = "reason" /\ pc' = "step" /\ step' = step + 1
      BY <1>8 DEF ModelAnswers, Complete, NextStep
    <2>2. pc = "reason" => n > 0
      BY DEF LoopInv, StepsInv, LoopTypes
    <2>3. CASE pc' # "done"
      <3>1. pc = "reason" /\ pc' = "step" /\ step' = step + 1 /\ n > 0
        BY <2>1, <2>2, <2>3
      <3>. QED  BY <1>6, <3>1
    <2>. QED  BY <1>3, <2>3
  <1>9. CASE ModelRequests
    <2>1. pc = "reason" /\ pc' = "calls" /\ step' = step
      BY <1>9 DEF ModelRequests
    <2>2. Len(pending') \in Nat /\ Len(pending') <= MaxAtOnce
      BY <2>1 DEF LoopInv, LoopTypes, StepsInv
    <2>3. LeftInStep(pc', Len(pending')) < LeftInStep(pc, k)
      BY <1>1, <2>1, <2>2 DEF LeftInStep
    <2>. QED  BY <1>5, <2>1, <2>3
  <1>10. CASE StartCall
    <2>1. /\ pc = "calls"
          /\ \/ pc' = "done"
             \/ pc' = "execute" /\ UNCHANGED <<step, pending>>
             \/ /\ pc' = "calls" /\ UNCHANGED step
                /\ pending' = Tail(pending) /\ pending # << >>
      BY <1>10 DEF StartCall, Complete
    <2>2. CASE pc' = "execute" /\ UNCHANGED <<step, pending>>
      <3>1. LeftInStep(pc', Len(pending')) < LeftInStep(pc, k)
        BY <1>1, <2>1, <2>2 DEF LeftInStep
      <3>. QED  BY <1>5, <2>2, <3>1
    <2>3. CASE pc' = "calls" /\ UNCHANGED step /\ pending' = Tail(pending) /\ pending # << >>
      <3>1. Len(pending') = k - 1
        BY <2>3, TailIsShorter DEF LoopInv
      <3>2. LeftInStep(pc', Len(pending')) < LeftInStep(pc, k)
        BY <1>1, <2>1, <2>3, <3>1 DEF LeftInStep
      <3>. QED  BY <1>5, <2>3, <3>2
    <2>. QED  BY <1>3, <2>1, <2>2, <2>3
  <1>11. CASE CallsHandled
    <2>1. pc = "calls" /\ pc' = "step" /\ step' = step + 1
      BY <1>11 DEF CallsHandled, NextStep
    <2>2. n > 0
      BY <2>1 DEF LoopInv, StepsInv, LoopTypes
    <2>. QED  BY <1>6, <2>1, <2>2
  <1>12. CASE FinishCall
    <2>1. /\ pc = "execute" /\ UNCHANGED step
          /\ \/ pc' = "done"
             \/ pc' = "calls" /\ pending' = Tail(pending)
      BY <1>12 DEF FinishCall
    <2>2. CASE pc' = "calls" /\ pending' = Tail(pending)
      <3>1. k # 0 /\ Len(pending') = k - 1
        BY <2>1, <2>2, TailIsShorter DEF LoopInv, MessagesOwed
      <3>2. LeftInStep(pc', Len(pending')) < LeftInStep(pc, k)
        BY <1>1, <2>1, <2>2, <3>1 DEF LeftInStep
      <3>. QED  BY <1>5, <2>1, <2>2, <3>2
    <2>. QED  BY <1>3, <2>1, <2>2
  <1>. QED  BY <1>7, <1>8, <1>9, <1>10, <1>11, <1>12 DEF RunnerStep

(* Each step of the loop leaves less to do, whatever the model asks for    *)
(* and the tools return, for any number of steps and of calls: a loop that *)
(* goes on taking steps is done after finitely many.                       *)
THEOREM LoopEnds == LoopSpec => LoopRunsOut
  <1>1. LoopInit => StepsInv
    BY StepsStart
  <1>2. LoopInv /\ StepsInv /\ [LoopNext]_loopVars => StepsInv'
    BY StepsStep DEF LoopInv
  <1>3. LoopInv /\ StepsInv /\ LoopInv' /\ StepsInv' /\ [LoopNext]_loopVars
           => [/\ RunnerStep => WorkLeft' \in 0 .. WorkLeft - 1
               /\ pc' # "done" => WorkLeft' > 0]_loopVars
    <2>. SUFFICES ASSUME LoopInv, StepsInv, LoopInv', StepsInv', LoopNext
                  PROVE  /\ RunnerStep => WorkLeft' \in 0 .. WorkLeft - 1
                         /\ pc' # "done" => WorkLeft' > 0
      OBVIOUS
    <2>1. CASE RunnerStep
      BY <2>1, WorkShrinks
    <2>2. CASE PressStopLoop /\ ~RunnerStep
      <3>1. pc # "done" => WorkLeft > 0
        BY WorkSplit DEF LoopInv
      <3>2. WorkLeft' = WorkLeft /\ pc' = pc
        BY <2>2 DEF PressStopLoop, WorkLeft, WorkOfStep
      <3>. QED  BY <2>2, <3>1, <3>2
    <2>. QED  BY <2>1, <2>2 DEF LoopNext
  <1>. QED  BY <1>1, <1>2, <1>3, LoopInvariant, PTL DEF LoopSpec, LoopRunsOut
=============================================================================
