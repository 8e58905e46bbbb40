---------------------------- MODULE MCUniquePtr ----------------------------
(* UniquePtr instantiated for TLC: small enough without symmetry. *)
EXTENDS UniquePtr
=============================================================================
