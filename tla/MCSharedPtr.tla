---------------------------- MODULE MCSharedPtr ----------------------------
(* SharedPtr instantiated for TLC: the handles of a class, objects and blocks are  *)
(* each alike.                                                                     *)
EXTENDS SharedPtr, TLC

Symmetry == Permutations(Handles \ ArrayHandles) \cup Permutations(ArrayHandles)
                \cup Permutations(Objects) \cup Permutations(Blocks)

\* No property says anything of what follows an abuse.
Unabused == ~abused

\* Of an object that is destroyed no step and no property reads more than that; of a block
\* that no handle refers to, only its state and whether it managed an object.
Reachable(b) == \E h \in Handles : cb[h] = b \/ tmp[h].cb = b
View ==
    <<handle, fault, abused,
      [b \in Blocks |-> IF Reachable(b) THEN block[b] ELSE <<block[b].state, block[b].managed>>],
      [o \in Objects |-> IF object[o].state = "destroyed" THEN "destroyed" ELSE object[o]]>>
=============================================================================
