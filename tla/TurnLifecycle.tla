---------------------------- MODULE TurnLifecycle ----------------------------
(***************************************************************************)
(* What the durable turns promise the rest of the program, at the          *)
(* isolation level the code runs at: a turn is begun once; whoever has     *)
(* seen it active may write to it once, however late, and nobody else may; *)
(* whoever has seen it stopped may restate its answer and no more.  So the *)
(* outcome of a turn is final as soon as no writer is left that saw it     *)
(* active.                                                                 *)
(***************************************************************************)
CONSTANTS Turns, Writers, Answers, Nothing

VARIABLES
    status,  \* of each turn
    answer,  \* of each turn
    seen     \* per writer, the turn it may write to and the status it saw

lifecycle == <<status, answer, seen>>

Active   == {"pending", "streaming"}
Outcomes == {"complete", "stopped", "failed"}

NothingSeen == [turn |-> Nothing, status |-> "absent"]

Init ==
    /\ status = [t \in Turns |-> "absent"]
    /\ answer = [t \in Turns |-> Nothing]
    /\ seen = [w \in Writers |-> NothingSeen]

Begin(t) ==
    /\ status[t] = "absent"
    /\ status' = [status EXCEPT ![t] = "pending"]
    /\ UNCHANGED <<answer, seen>>

See(w, t) ==
    /\ status[t] \in Active \cup {"stopped"}
    /\ seen' = [seen EXCEPT ![w] = [turn |-> t, status |-> status[t]]]
    /\ UNCHANGED <<status, answer>>

Forget(w) ==
    /\ seen' = [seen EXCEPT ![w] = NothingSeen]
    /\ UNCHANGED <<status, answer>>

(* Writer w, which saw a turn active, leaves one of the statuses sts and   *)
(* one of the answers as, and has written.                                 *)
Write(w, sts, as) ==
    LET t == seen[w].turn
    IN  /\ seen[w].status \in Active
        /\ \E st \in sts : status' = [status EXCEPT ![t] = st]
        /\ \E x \in as : answer' = [answer EXCEPT ![t] = x]
        /\ seen' = [seen EXCEPT ![w] = NothingSeen]

Kept(w) == {answer[seen[w].turn]}

(* A writer that saw the turn streaming does not write its status. *)
Grow(w) == Write(w, {"streaming", status[seen[w].turn]}, Answers \cup Kept(w))

(* Stop keeps what there is. *)
Stop(w) == Write(w, {"stopped"}, Kept(w))

End(w) == Write(w, Outcomes, Answers \cup Kept(w))

(* The request that was stopped may still say what it had shown. *)
Restate(w) ==
    /\ seen[w].status = "stopped"
    /\ \E x \in Answers : answer' = [answer EXCEPT ![seen[w].turn] = x]
    /\ seen' = [seen EXCEPT ![w] = NothingSeen]
    /\ UNCHANGED status

Remove(ts) ==
    /\ status' = [t \in Turns |-> IF t \in ts THEN "absent" ELSE status[t]]
    /\ answer' = [t \in Turns |-> IF t \in ts THEN Nothing ELSE answer[t]]
    /\ seen' = [w \in Writers |-> IF seen[w].turn \in ts THEN NothingSeen ELSE seen[w]]

Next ==
    \/ \E w \in Writers :
          \/ Forget(w)
          \/ \E t \in Turns : See(w, t)
          \/ Grow(w)
          \/ Stop(w)
          \/ End(w)
          \/ Restate(w)
    \/ \E t \in Turns : Begin(t)
    \/ \E ts \in SUBSET Turns : Remove(ts)

Spec == Init /\ [][Next]_lifecycle
=============================================================================
