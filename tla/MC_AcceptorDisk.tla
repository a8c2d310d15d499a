--------------------------- MODULE MC_AcceptorDisk ---------------------------
(* Small instances of AcceptorDisk. *)
EXTENDS AcceptorDisk

CONSTANT v1

MC1Values == {v1}

=============================================================================
