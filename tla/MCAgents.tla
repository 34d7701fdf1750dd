------------------------------- MODULE MCAgents -------------------------------
(***************************************************************************)
(* A small instance of the stream of pipeline-agent: one worker and one    *)
(* more session that presses Stop.                                         *)
(***************************************************************************)
EXTENDS AgentStream

CONSTANTS w1, t1, c1

OneTurn     == [w \in Workers |-> t1]
OneScope    == [w \in Workers |-> c1]
AnswerTexts == Workers \X {0, Chunks}
=============================================================================
