------------------------------- MODULE Visit -------------------------------
(***************************************************************************)
(* dev::visit (src/core/tagged_union/visit.h): a call on several variants  *)
(* goes through a table with one entry for every combination of the        *)
(* alternatives they may hold.  Combinations and entries are numbered by   *)
(* to_index and from_index.  Positions count from 1, indexes from 0.       *)
(***************************************************************************)
EXTENDS Integers, Sequences

CONSTANTS
    MaxVariants,       \* bound: the arguments of a visit
    MaxAlternatives    \* bound: the alternatives of an argument

ASSUME VisitAssumption ==
    /\ MaxVariants \in Nat \ {0}
    /\ MaxAlternatives \in Nat \ {0}

VARIABLES
    dimensions,   \* per argument, its number of alternatives
    held,         \* per argument, index()
    entry,        \* the entry last looked up, as from_index of its place in the table
    outcome,      \* how the last visit ended: "none", "called", "bad access", "undefined"
    received      \* per argument, the alternative the visitor got it as

visitVars == <<dimensions, held, entry, outcome, received>>

\* index() of a variant that an exception has left without a value, 2^64 - 1, which the
\* sum over ints in to_index takes for -1.
npos == -1

-----------------------------------------------------------------------------
\* Step i multiplies the coefficients up to i by the dimension after it.
OnesOnly(d) == [j \in DOMAIN d |-> 1]
build_coeffs_array(d) ==
    LET after[i \in 0..(Len(d) - 1)] ==
            IF i = 0 THEN [j \in DOMAIN d |-> 1]
            ELSE [j \in DOMAIN d |->
                    IF j <= i THEN after[i - 1][j] * d[i + 1] ELSE after[i - 1][j]]
    IN  after[Len(d) - 1]

\* std::inner_product of the coefficients and the indexes
to_index(d, indices) ==
    LET coeffs == build_coeffs_array(d)
        sum[i \in 0..Len(d)] == IF i = 0 THEN 0 ELSE sum[i - 1] + coeffs[i] * indices[i]
    IN  sum[Len(d)]

QuotientsOnly(d, n) == [i \in DOMAIN d |-> n \div build_coeffs_array(d)[i]]
\* build_coords_array: the quotients by the coefficients, one after the other
from_index(d, n) ==
    LET coeffs == build_coeffs_array(d)
        state[i \in 0..Len(d)] == IF i = 0 THEN n ELSE state[i - 1] % coeffs[i]
    IN  [i \in DOMAIN d |-> state[i - 1] \div coeffs[i]]

vtable_size(d) ==
    LET product[i \in 0..Len(d)] == IF i = 0 THEN 1 ELSE product[i - 1] * d[i]
    IN  product[Len(d)]

VisitInit ==
    /\ dimensions \in UNION {[1..n -> 1..MaxAlternatives] : n \in 1..MaxVariants}
    /\ held = [i \in DOMAIN dimensions |-> 0]
    /\ entry = <<>> /\ outcome = "none" /\ received = <<>>

\* The program assigns to one of its variants, which may throw and leave it valueless.
Assign ==
    /\ \E i \in DOMAIN dimensions, a \in npos..(MaxAlternatives - 1) :
          a < dimensions[i] /\ held' = [held EXCEPT ![i] = a]
    /\ entry' = <<>> /\ outcome' = "none" /\ received' = <<>>
    /\ UNCHANGED dimensions

\* vtable[to_index(...)]: an entry takes its alternatives with std::get, which throws
\* bad_variant_access if another one is held.  Each argument then reaches the visitor as
\* the alternative Passed.
LookUp(d, Passed) ==
    LET n == to_index(d, held)
    IN  /\ IF n \notin 0..(vtable_size(d) - 1)
           THEN entry' = <<>> /\ outcome' = "undefined"
           ELSE /\ entry' = from_index(d, n)
                /\ outcome' = IF entry' = held THEN "called" ELSE "bad access"
        /\ received' = IF outcome' = "called" THEN Passed ELSE <<>>
        /\ UNCHANGED <<dimensions, held>>

\* example::visit, for two variants of two alternatives: the visitor gets what is held.
ExampleVisit == dimensions = <<2, 2>> /\ LookUp(<<2, 2>>, held)

\* dev::visit: argument k is converted to the alternative with the index k - 1 of its
\* variant, whatever it holds.  It compiles if there is such an alternative.
ConvertedTo(k) == k - 1

VisitAll ==
    /\ \A k \in DOMAIN dimensions : ConvertedTo(k) < dimensions[k]
    /\ LookUp(dimensions, [k \in DOMAIN dimensions |-> ConvertedTo(k)])

VisitNext == Assign \/ ExampleVisit \/ VisitAll

VisitSpec == VisitInit /\ [][VisitNext]_visitVars

-----------------------------------------------------------------------------
(* Properties *)

\* A visit of variants that all have a value finds the entry of the alternatives held:
\* no two combinations share an entry, and none is out of the table.
EntryForHeld ==
    outcome \in {"bad access", "undefined"} => \E i \in DOMAIN held : held[i] = npos

\* Every entry of the table is that of the combination it was generated for.
NoEntryUnused ==
    \A n \in 0..(vtable_size(dimensions) - 1) :
        to_index(dimensions, from_index(dimensions, n)) = n
=============================================================================
