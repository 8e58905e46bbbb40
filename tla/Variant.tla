------------------------------ MODULE Variant ------------------------------
(***************************************************************************)
(* dev::variant (src/core/tagged_union/variant.h): a union of which m_idx  *)
(* tells the alternative that is alive, over a list of types in which a    *)
(* type may occur twice; and its draft in src/experimental/tagged_union/v2 *)
(* of which only the destructor is different.                              *)
(*                                                                         *)
(* misread records undefined behaviour, which ends the behaviour.  abused  *)
(* records that the client has reached one of the places where the class   *)
(* cannot keep its promises.                                               *)
(***************************************************************************)
EXTENDS TypeLists, FiniteSets

CONSTANTS
    Variants,
    TypeListsUsed,  \* the lists Ts... the class is instantiated with
    Payloads,       \* the values of a type
    Zero,           \* the one that T() gives
    MayThrow        \* converting assignment may throw in the constructor of the new value

ASSUME VariantAssumption ==
    /\ TypeListsUsed \subseteq Seq(Types) \ {<<>>}
    /\ \A Ts \in TypeListsUsed : \E k \in DOMAIN Limits : Len(Ts) <= Limits[k]
    /\ Zero \in Payloads
    /\ MayThrow \in BOOLEAN

VARIABLES
    types,     \* Ts..., chosen once
    draft,     \* the class is the draft, chosen once
    live,      \* the variants that exist
    m_idx,     \* per variant, the index of the alternative
    m_data,    \* per variant, the alternative alive in the union and its value, or None
    leaked,    \* an object was overwritten, or its variant gone, without being destroyed
    misread,   \* an alternative was destroyed, read or taken from that was not alive
    abused     \* a constructor threw in v = x, or x was the value inside v, or the
               \* draft destroyed a variant, a temporary one too, with another alternative
               \* than the first

vars == <<types, draft, live, m_idx, m_data, leaked, misread, abused>>

None == <<>>    \* no object is alive in the union

Init ==
    /\ types \in TypeListsUsed
    /\ draft \in BOOLEAN
    /\ live = {}
    /\ m_idx = [v \in Variants |-> 0]
    /\ m_data = [v \in Variants |-> None]
    /\ leaked = FALSE /\ misread = FALSE /\ abused = FALSE

-----------------------------------------------------------------------------
(* The union. *)

ListedTypes == {types[i] : i \in DOMAIN types}

\* construct_at<i>: the object becomes the alternative i.
Value(i, p) == <<i, p>>

\* The index as a number of type index_type.
StoredIndex(i) == i % (uint_atleast(Len(types)) + 1)

\* The alternative that m_idx names is the one operated on.
Alive(v) == m_data[v] # None /\ m_data[v][1] = m_idx[v]

\* The alternative that ~variant() destroys.  The draft has one function for each
\* alternative, but the index that each of them takes from make_indexer is 0.
FirstOfAll(v) == 0
DraftDestroys(v) == 0
ToDestroy(v) == IF draft THEN DraftDestroys(v) ELSE m_idx[v]
DraftMisses(v) == draft /\ m_idx[v] # 0
DestroysAlive(v) == m_data[v] # None /\ m_data[v][1] = ToDestroy(v)

\* variant(), with a value of the first type, and variant(T&&).
Construct(v, i, p) ==
    /\ v \notin live
    /\ live' = live \cup {v}
    /\ m_data' = [m_data EXCEPT ![v] = Value(i, p)]
    /\ m_idx' = [m_idx EXCEPT ![v] = StoredIndex(i)]
    /\ UNCHANGED <<types, draft, leaked, misread, abused>>

ConstructDefault(v) == Construct(v, 0, Zero)

ConstructFrom(v, T, p) == exists(T, types) /\ Construct(v, find_index_of(T, types), p)

CopyConstruct(v, w) ==
    /\ v \notin live /\ w \in live
    /\ live' = live \cup {v}
    /\ m_data' = [m_data EXCEPT ![v] = m_data[w]]
    /\ m_idx' = [m_idx EXCEPT ![v] = m_idx[w]]
    /\ misread' = (misread \/ ~Alive(w))
    /\ UNCHANGED <<types, draft, leaked, abused>>

\* tools::get takes the rvalue union by reference to const, so that the new object is
\* constructed from a const T&, a copy.
MoveConstruct(v, w) == CopyConstruct(v, w)

\* What is left of the object in v.
NotDestroyed(v) == m_data[v]
AfterDestruction(v) == IF DestroysAlive(v) THEN None ELSE m_data[v]

\* ~variant()
Destroy(v) ==
    /\ v \in live
    /\ live' = live \ {v}
    /\ m_data' = [m_data EXCEPT ![v] = None]
    /\ leaked' = (leaked \/ AfterDestruction(v) # None)
    /\ misread' = (misread \/ ~DestroysAlive(v))
    /\ abused' = (abused \/ DraftMisses(v))
    /\ UNCHANGED <<types, draft, m_idx>>

\* v.swap(w) of different alternatives constructs both variants anew on top of objects
\* that are alive, w from p, a copy of v, which ~variant() then destroys.
OverwrittenBySwap(v, w) == m_idx[v] # m_idx[w] /\ (m_data[v] # None \/ m_data[w] # None)
MissesP(v, w) == m_idx[v] # m_idx[w] /\ ~DestroysAlive(v)
DraftMissesP(v, w) == m_idx[v] # m_idx[w] /\ DraftMisses(v)

swap(v, w) ==
    /\ {v, w} \subseteq live
    /\ m_data' = [m_data EXCEPT ![v] = m_data[w], ![w] = m_data[v]]
    /\ m_idx' = [m_idx EXCEPT ![v] = m_idx[w], ![w] = m_idx[v]]
    /\ leaked' = (leaked \/ OverwrittenBySwap(v, w))
    /\ misread' = (misread \/ ~Alive(v) \/ ~Alive(w) \/ MissesP(v, w))
    /\ abused' = (abused \/ DraftMissesP(v, w))
    /\ UNCHANGED <<types, draft, live>>

\* v = w: a copy of w swaps with v, through a p with the content of w, and is destroyed
\* with v's old content.
CopyAssign(v, w) ==
    /\ {v, w} \subseteq live
    /\ m_data' = [m_data EXCEPT ![v] = m_data[w]]
    /\ m_idx' = [m_idx EXCEPT ![v] = m_idx[w]]
    /\ leaked' = (leaked \/ OverwrittenBySwap(v, w) \/ AfterDestruction(v) # None)
    /\ misread' = (misread \/ ~Alive(v) \/ ~Alive(w) \/ MissesP(w, v) \/ ~DestroysAlive(v))
    /\ abused' = (abused \/ DraftMissesP(w, v) \/ DraftMisses(v))
    /\ UNCHANGED <<types, draft, live>>

\* v = std::move(w): the same with the move constructor, which copies.
MoveAssign(v, w) == CopyAssign(v, w)

\* v = x for a value of type T: the old object is destroyed first.
AssignValue(v, T, p) ==
    /\ v \in live
    /\ exists(T, types)
    /\ m_data' = [m_data EXCEPT ![v] = Value(find_index_of(T, types), p)]
    /\ m_idx' = [m_idx EXCEPT ![v] = StoredIndex(find_index_of(T, types))]
    /\ leaked' = (leaked \/ AfterDestruction(v) # None)
    /\ misread' = (misread \/ ~DestroysAlive(v))
    /\ abused' = (abused \/ DraftMisses(v))
    /\ UNCHANGED <<types, draft, live>>

\* v = std::move(get<T>(v)): the new object is built from the one just destroyed.
AssignOwnValue(v, p) ==
    /\ v \in live
    /\ m_data' = [m_data EXCEPT ![v] = Value(find_index_of(types[m_idx[v] + 1], types), p)]
    /\ m_idx' = [m_idx EXCEPT ![v] = StoredIndex(find_index_of(types[m_idx[v] + 1], types))]
    /\ leaked' = (leaked \/ AfterDestruction(v) # None)
    /\ misread' = TRUE /\ abused' = TRUE
    /\ UNCHANGED <<types, draft, live>>

\* The constructor of the new value throws: m_idx is still that of the old object.
AssignValueThrows(v) ==
    /\ MayThrow
    /\ v \in live
    /\ m_data' = [m_data EXCEPT ![v] = AfterDestruction(v)]
    /\ misread' = (misread \/ ~DestroysAlive(v))
    /\ abused' = TRUE
    /\ UNCHANGED <<types, draft, live, m_idx, leaked>>

\* get<T>(v) where index() tells that v holds a T, and swap's get<m_idx>.
Get(v, T) ==
    /\ v \in live
    /\ m_idx[v] = find_index_of(T, types)
    /\ misread' = (misread \/ ~Alive(v))
    /\ UNCHANGED <<types, draft, live, m_idx, m_data, leaked, abused>>

Next ==
    ~misread /\ \E v \in Variants :
        \/ ConstructDefault(v) \/ Destroy(v) \/ AssignValueThrows(v)
        \/ \E p \in Payloads : AssignOwnValue(v, p)
        \/ \E T \in ListedTypes, p \in Payloads : ConstructFrom(v, T, p) \/ AssignValue(v, T, p)
        \/ \E T \in ListedTypes : Get(v, T)
        \/ \E w \in Variants :
              CopyConstruct(v, w) \/ MoveConstruct(v, w) \/ swap(v, w)
                \/ CopyAssign(v, w) \/ MoveAssign(v, w)

Spec == Init /\ [][Next]_vars

-----------------------------------------------------------------------------
(* Properties *)

\* The index round trip: the three lookups of a type by its index agree with each other
\* on every list, also beyond the block that v1 takes at once, and lead back from the
\* first index of each type to that type.
LookupsAgree ==
    /\ \A n \in 0..(Len(types) - 1) :
          /\ nth_type_v1(n, types) = get_nth_type(n, types)
          /\ nth_type_v3(n, types) = get_nth_type(n, types)
          /\ find_index_of(get_nth_type(n, types), types) <= n
    /\ \A T \in ListedTypes : get_nth_type(find_index_of(T, types), types) = T

\* No call leaves m_idx and the union disagreeing about the alternative, however many
\* there are: a throwing constructor may leave nothing in it, but never an object of
\* another type.
IndexNeverWrong == \A v \in live : Alive(v) \/ m_data[v] = None

\* Only the object that is there is ever destroyed, copied or read, in every sequence of
\* calls without a constructor that throws in v = x, without v = std::move(get<T>(v)),
\* and with the draft until it destroys a variant that holds another alternative than
\* the first, be it the p of swap.
NothingMisread == ~abused => ~misread

\* An object is lost only by the swap, or by the assignment, of two variants that hold
\* different alternatives, and by the draft where it destroys the wrong one: a program
\* that does neither loses nothing.
OnlyMixingLeaks ==
    [][leaked' # leaked =>
          \/ draft /\ misread'
          \/ \E v, w \in live : m_idx[v] # m_idx[w] /\ (swap(v, w) \/ CopyAssign(v, w))]_vars

\* "moved-from is empty" (src/tests/variant_test/variant_test.cpp:113): a move takes the
\* value away from its source.
MoveTakesValue ==
    [][\A v, w \in Variants :
          v # w /\ m_data[w] # None /\ (MoveConstruct(v, w) \/ MoveAssign(v, w))
              => m_data'[w][2] = Zero]_vars
=============================================================================
