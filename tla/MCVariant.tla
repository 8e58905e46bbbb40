----------------------------- MODULE MCVariant -----------------------------
(* Variant instantiated for TLC: lists of one to five types, with and without     *)
(* repetitions, blocks of two types, and indexes of one, two or three bits.        *)
EXTENDS Variant, TLC

CONSTANTS A, B, C

MCTypeLists == {<<A>>, <<A, B>>, <<B, B, A>>, <<A, B, C>>, <<A, B, A, A, C>>}
MCLimits == <<1, 3, 7>>

Symmetry == Permutations(Variants)
=============================================================================
