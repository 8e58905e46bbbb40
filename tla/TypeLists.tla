----------------------------- MODULE TypeLists -----------------------------
(***************************************************************************)
(* The compile-time functions on lists of types that dev::variant is built *)
(* from (src/core/tagged_union/utilities.h).  A list of types is a         *)
(* sequence; indexes into it count from 0, as the code's do.               *)
(***************************************************************************)
EXTENDS Naturals, Sequences

CONSTANTS Types,    \* the types there are
          Void,     \* the default of a missing argument
          Block,    \* how many types the recursive lookup takes at once; 10 in the code
          Limits    \* the greatest values of the unsigned types, narrowest first; in the
                    \* code 2^8 - 1, 2^16 - 1, 2^32 - 1 and 2^64 - 1

ASSUME TypesAssumption == Void \notin Types /\ Block \in Nat \ {0}
ASSUME LimitsAssumption == Limits \in Seq(Nat \ {0}) /\ Limits # <<>>

\* The loop stops at the first occurrence, or behind the last type.
find_index_of(T, Ts) ==
    LET from[i \in 0..Len(Ts)] ==
            IF i = Len(Ts) THEN i ELSE IF Ts[i + 1] = T THEN i ELSE from[i + 1]
    IN  from[0]

exists(T, Ts) == find_index_of(T, Ts) < Len(Ts)

\* The greatest value of the narrowest type whose greatest value is at least max.
Narrowest(max) == Limits[1]
uint_atleast(max) ==
    Limits[CHOOSE k \in DOMAIN Limits :
              max <= Limits[k] /\ \A j \in 1..(k - 1) : max > Limits[j]]

\* v1: the first Block types are parameters of their own, with Void for those that are
\* missing; a larger index goes on with the rest of the pack.
WithoutRest(Ts) == Ts
Rest(Ts) == SubSeq(Ts, Block + 1, Len(Ts))
nth_type_v1(n, Ts) ==
    LET rest[k \in 0..(n \div Block)] == IF k = 0 THEN Ts ELSE Rest(rest[k - 1])
        pack == rest[n \div Block]
        i == n % Block
    IN  IF i < Len(pack) THEN pack[i + 1] ELSE Void

\* v2: overload resolution finds the one base of the indexer that has the index.
indexer(Ts) == {<<i - 1, Ts[i]>> : i \in DOMAIN Ts}
nth_type_v2(n, Ts) == (CHOOSE base \in indexer(Ts) : base[1] = n)[2]

\* v3: the parameter behind n parameters that take any pointer deduces its type.
nth_type_v3(n, Ts) == Head(SubSeq(Ts, n + 1, Len(Ts)))

\* What the library uses; the index has to be one of the list.
get_nth_type(n, Ts) == nth_type_v2(n, Ts)
=============================================================================
