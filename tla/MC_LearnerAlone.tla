--------------------------- MODULE MC_LearnerAlone ---------------------------
(* Small instances of LearnerAlone. *)
EXTENDS LearnerAlone, TLC

CONSTANTS v1, v2, l1

MCValues == {v1, v2}
ValueSymmetry == Permutations(MCValues)

=============================================================================
