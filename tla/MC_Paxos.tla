------------------------------ MODULE MC_Paxos ------------------------------
(* Small instances of Paxos. *)
EXTENDS Paxos, TLC

CONSTANTS v1, v2

MC1Values == {v1}
MC2Values == {v1, v2}
Value2Symmetry == Permutations(MC2Values)

=============================================================================
