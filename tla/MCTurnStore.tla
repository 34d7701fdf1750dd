----------------------------- MODULE MCTurnStore -----------------------------
(* Small instances of TurnStore.  Every constant is a set of model values;  *)
(* sessions, turns and texts are only compared, never ordered or chosen.    *)
EXTENDS TurnStore, TLC

(* How its last call ended matters to no session here. *)
WithoutResults == <<rows, call, stage, loaded>>

Symmetry == Permutations(Sessions) \cup Permutations(Turns) \cup Permutations(Texts)
=============================================================================
