------------------------- MODULE MCThreadsafeQueue -------------------------
(* ThreadsafeQueue instantiated for TLC; two liveness properties are checked, so   *)
(* no symmetry is used.                                                            *)
EXTENDS ThreadsafeQueue
=============================================================================
