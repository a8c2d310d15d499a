------------------------- MODULE MC_ProposerProcess -------------------------
(* Small instances of ProposerProcess. *)
EXTENDS ProposerProcess

MCWrappers == 1 .. 3

=============================================================================
