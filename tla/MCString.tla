------------------------------ MODULE MCString ------------------------------
(* String instantiated for TLC. *)
EXTENDS String, TLC

\* No call reads a char behind the place of the terminator, and none the last call: states
\* that differ there alone have the same future.  (The properties about what a call
\* writes are action properties, or about overflow.)
ToTheEnd(r) == [i \in DOMAIN r.buffer \cap 1..(r.size + 1) |-> r.buffer[i]]
View ==
    <<overflow,
      [s \in Strings |-> [str[s] EXCEPT !.buffer = <<Len(@), ToTheEnd(str[s])>>]]>>

Symmetry == Permutations(Strings)
=============================================================================
