-------------------------- MODULE MC_AcceptorAlone --------------------------
(* Small instances of AcceptorAlone. *)
EXTENDS AcceptorAlone, TLC

CONSTANTS v1, v2

MCValues == {v1, v2}

ValueSymmetry == Permutations(MCValues)

=============================================================================
