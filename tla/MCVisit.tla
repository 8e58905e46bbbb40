------------------------------ MODULE MCVisit ------------------------------
(* Visit instantiated for TLC. *)
EXTENDS Visit
=============================================================================
