------------------------------ MODULE MCVector ------------------------------
(* Vector instantiated for TLC. *)
EXTENDS Vector, TLC

\* What the last call was, spilled and threw is the subject of action properties alone:
\* no guard and no next value depends on it, so that states that differ in nothing else
\* have the same future.
View == <<kind, storage, size, capacity>>

Symmetry == Permutations(Vectors)
=============================================================================
