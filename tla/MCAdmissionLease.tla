--------------------------- MODULE MCAdmissionLease ---------------------------
(* Small instances of AdmissionLease. *)
EXTENDS AdmissionLease, TLC

CONSTANTS r1, r2, r3

OneAhead   == [r \in Requests |-> IF r = r2 THEN 1 ELSE 0]

Symmetry == Permutations(Requests)
=============================================================================
