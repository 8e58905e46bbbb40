----------------------------- MODULE UniquePtr -----------------------------
(***************************************************************************)
(* dev::unique_ptr (src/core/smart_pointers/unique_ptr.h): handles that    *)
(* own one object each.  The deleter is a base class and may have a state, *)
(* an arena say; each object belongs to one arena, and only that arena's   *)
(* deleter may dispose of it.  Calls are sequential.                       *)
(***************************************************************************)
EXTENDS FiniteSets, Naturals

CONSTANTS Handles, Objects, Arenas, Null

ASSUME NullAssumption == Null \notin Objects

VARIABLES
    live,      \* the handles that exist
    ptr,       \* per handle, m_underlying_ptr
    deleter,   \* per handle, the arena of its deleter
    home,      \* per object, its arena
    object,    \* per object: "unborn", "owned", "released", "destroyed"
    misdeeds,  \* deletions gone wrong: <<object, "twice" or "elsewhere">>
    mixed      \* history: swap or operator= was called on handles of two arenas

vars == <<live, ptr, deleter, home, object, misdeeds, mixed>>

Init ==
    /\ live = {}
    /\ ptr = [h \in Handles |-> Null]
    /\ deleter \in [Handles -> Arenas]
    /\ home \in [Objects -> Arenas]
    /\ object = [o \in Objects |-> "unborn"]
    /\ misdeeds = {}
    /\ mixed = FALSE

-----------------------------------------------------------------------------
\* The deleter of arena a is called with o, which may be the null pointer.
Deleted(o) == IF o = Null THEN object ELSE [object EXCEPT ![o] = "destroyed"]
Misdeeds(o, a) ==
    IF o = Null THEN {}
    ELSE (IF object[o] = "destroyed" THEN {<<o, "twice">>} ELSE {})
           \cup (IF home[o] # a THEN {<<o, "elsewhere">>} ELSE {})
Delete(o, a) ==
    /\ object' = Deleted(o)
    /\ misdeeds' = misdeeds \cup Misdeeds(o, a)

\* What std::exchange(other.m_underlying_ptr, nullptr) leaves behind.
NotEmptied(f, g) == f
Emptied(f, g) == [f EXCEPT ![g] = Null]

\* unique_ptr(): m_underlying_ptr is null
Construct(h) ==
    /\ h \notin live
    /\ live' = live \cup {h}
    /\ ptr' = [ptr EXCEPT ![h] = Null]
    /\ UNCHANGED <<deleter, home, object, misdeeds, mixed>>

\* unique_ptr(ptr): the clients hand over objects of the deleter's arena
ConstructFrom(h, o) ==
    /\ h \notin live
    /\ object[o] \in {"unborn", "released"} /\ home[o] = deleter[h]
    /\ live' = live \cup {h}
    /\ ptr' = [ptr EXCEPT ![h] = o]
    /\ object' = [object EXCEPT ![o] = "owned"]
    /\ UNCHANGED <<deleter, home, misdeeds, mixed>>

\* unique_ptr(unique_ptr&&): the pointer is taken over, the deleter copied.
DeleterKept(h, g) == deleter
DeleterTaken(h, g) == [deleter EXCEPT ![h] = deleter[g]]

MoveConstruct(h, g) ==
    /\ h \notin live /\ g \in live
    /\ live' = live \cup {h}
    /\ ptr' = [Emptied(ptr, g) EXCEPT ![h] = ptr[g]]
    /\ deleter' = DeleterTaken(h, g)
    /\ UNCHANGED <<home, object, misdeeds, mixed>>

Mixes(h, g) == mixed' = (mixed \/ deleter[h] # deleter[g])

\* swap exchanges the pointers.  The deleters stay where they are: what it swaps are
\* two local pointers to them.
Swap(h, g) ==
    /\ {h, g} \subseteq live
    /\ ptr' = [ptr EXCEPT ![h] = ptr[g], ![g] = ptr[h]]
    /\ UNCHANGED <<live, deleter, home, object, misdeeds>>
    /\ Mixes(h, g)

\* h = std::move(g): a temporary moved from g swaps with h and is destroyed, so that
\* a copy of g's deleter disposes of h's object.  With h = g nothing changes.
OldObject(h, g) == IF h = g THEN Null ELSE ptr[h]

MoveAssign(h, g) ==
    /\ {h, g} \subseteq live
    /\ ptr' = [Emptied(ptr, g) EXCEPT ![h] = ptr[g]]
    /\ Delete(OldObject(h, g), deleter[g])
    /\ Mixes(h, g)
    /\ UNCHANGED <<live, deleter, home>>

\* The destructor calls the deleter, with a null pointer too.
Destroy(h) ==
    /\ h \in live
    /\ live' = live \ {h}
    /\ Delete(ptr[h], deleter[h])
    /\ ptr' = [ptr EXCEPT ![h] = Null]
    /\ UNCHANGED <<deleter, home, mixed>>

\* release(): the object is the caller's again.
Release(h) ==
    /\ h \in live
    /\ ptr[h] # Null
    /\ object' = [object EXCEPT ![ptr[h]] = "released"]
    /\ ptr' = Emptied(ptr, h)
    /\ UNCHANGED <<live, deleter, home, misdeeds, mixed>>

\* reset(other): nothing if it is the pointer already held.
Replaces(h, o) == ptr[h] # o

Reset(h, o) ==
    /\ h \in live
    /\ Replaces(h, o)
    /\ \/ o = Null
       \/ o \in Objects /\ object[o] \in {"unborn", "released"} /\ home[o] = deleter[h]
    /\ LET old == ptr[h]
       IN  /\ misdeeds' = misdeeds \cup Misdeeds(old, deleter[h])
           /\ object' = [x \in Objects |-> IF x = old THEN "destroyed"
                                           ELSE IF x = o THEN "owned" ELSE object[x]]
    /\ ptr' = [ptr EXCEPT ![h] = o]
    /\ UNCHANGED <<live, deleter, home, mixed>>

Next ==
    \E h \in Handles :
        \/ Construct(h) \/ Destroy(h) \/ Release(h)
        \/ \E o \in Objects : ConstructFrom(h, o)
        \/ \E o \in Objects \cup {Null} : Reset(h, o)
        \/ \E g \in Handles : MoveConstruct(h, g) \/ MoveAssign(h, g) \/ Swap(h, g)

Spec == Init /\ [][Next]_vars

-----------------------------------------------------------------------------
(* Properties *)

Owners(o) == {h \in live : ptr[h] = o}

\* Every object is owned by exactly one handle, or is the caller's, or is gone; what
\* a handle points to is alive, and nothing is destroyed twice.  No sequence of moves,
\* swaps, releases and resets breaks it.
UniqueOwnership ==
    /\ \A o \in Objects : Cardinality(Owners(o)) = IF object[o] = "owned" THEN 1 ELSE 0
    /\ \A h \in Handles \ live : ptr[h] = Null
    /\ \A o \in Objects : <<o, "twice">> \notin misdeeds

\* Each object goes back to the arena it came from ("When we swap two unique pointers,
\* you expect the point-to-pool or arena to be swapped as well", unique_ptr.h:64), as
\* long as no swap and no operator= has two handles of different arenas: these do not
\* take the deleters along.
DeletedAtHome == ~mixed => \A o \in Objects : <<o, "elsewhere">> \notin misdeeds
=============================================================================
