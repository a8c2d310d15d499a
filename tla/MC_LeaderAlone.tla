--------------------------- MODULE MC_LeaderAlone ---------------------------
(* Small instances of LeaderAlone. *)
EXTENDS LeaderAlone, TLC

CONSTANTS v1, v2, v3, v4

MC2Values == {v1, v2}
MC3Values == {v1, v2, v3}
MC4Values == {v1, v2, v3, v4}
MC2Others == {v2}  \* of MC2Values
Value2Symmetry == Permutations(MC2Values)
Value3Symmetry == Permutations(MC3Values)
Value4Symmetry == Permutations(MC4Values)

=============================================================================
