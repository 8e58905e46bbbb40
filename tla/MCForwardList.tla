--------------------------- MODULE MCForwardList ---------------------------
(* ForwardList instantiated for TLC. *)
EXTENDS ForwardList, TLC

Symmetry == Permutations(Lists) \cup Permutations(Nodes)
=============================================================================
