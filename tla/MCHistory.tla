------------------------------- MODULE MCHistory -------------------------------
(* One session, so the calls run one after another; three turns and five    *)
(* messages are two exchanges and a replay.                                 *)
EXTENDS History, TLC

Symmetry == Permutations(Turns)
===============================================================================
