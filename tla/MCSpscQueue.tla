---------------------------- MODULE MCSpscQueue ----------------------------
(* SpscQueue instantiated for TLC, with liveness and so without symmetry. *)
EXTENDS SpscQueue, TLC
=============================================================================
