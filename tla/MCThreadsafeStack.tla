------------------------- MODULE MCThreadsafeStack -------------------------
(* ThreadsafeStack instantiated for TLC, with liveness and so without symmetry. *)
EXTENDS ThreadsafeStack, TLC
=============================================================================
