------------------------------ MODULE MCV4Stream ------------------------------
(* Small instances of V4Stream: one or two workers in one conversation, and *)
(* one more session that presses Stop.                                      *)
EXTENDS V4Stream

CONSTANTS w1, w2, t1, t2, c1

OneTurn  == [w \in Workers |-> t1]
OneScope == [w \in Workers |-> c1]

AnswerTexts == Workers \X (0 .. Chunks)
=============================================================================
