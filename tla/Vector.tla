------------------------------- MODULE Vector -------------------------------
(***************************************************************************)
(* dev::vector<T> (src/core/containers/vector.h).  A vector owns a storage *)
(* of m_capacity cells, the first m_size of which should hold objects.     *)
(*                                                                         *)
(* T is of a kind that never changes.  If it moves without throwing then   *)
(* relocation moves: the new object has the value and the old one stays    *)
(* behind as a Husk.  Otherwise relocation copies.  Copying, and T(),      *)
(* never throw or may throw each time:                                     *)
(*                     never throw      may throw                          *)
(*    relocation moves   "moves"        "string", as std::string does      *)
(*    relocation copies  "copies"       "throws"                           *)
(***************************************************************************)
EXTENDS Naturals, Sequences, SequencesExt, FiniteSets

CONSTANTS
    Vectors,      \* the vectors of the program
    Values,       \* the values of T
    Default,      \* the value of T()
    Raw,          \* a cell without an object
    Husk,         \* a moved-from object
    Kinds,        \* the kinds of T considered
    MaxSize       \* bound: the vectors together hold no more elements

ASSUME VectorAssumption ==
    /\ IsFiniteSet(Vectors)
    /\ Default \in Values
    /\ Raw \notin Values \cup {Husk} /\ Husk \notin Values
    /\ Kinds \subseteq {"moves", "string", "copies", "throws"}
    /\ MaxSize \in Nat /\ MaxSize > 1

VARIABLES
    kind,        \* the kind of T
    storage,     \* per vector, the cells m_data points to
    size,        \* per vector, m_size
    capacity,    \* per vector, m_capacity
    spilled,     \* the objects that the last call abandoned undestroyed
    thrown,      \* a constructor or assignment of T threw in the last call
    propagated,  \* the last call ended in an exception
    call         \* the last call and its arguments, for RefinesSequences only

vars == <<kind, storage, size, capacity, spilled, thrown, propagated, call>>

NothrowMove == kind \in {"moves", "string"}   \* std::is_nothrow_move_constructible_v<T>
MayThrow == kind \in {"throws", "string"}

Objects == Values \cup {Husk}
Cells == Objects \cup {Raw}

-----------------------------------------------------------------------------
(* Storage.  An offset counts from 0; cell i+1 of the sequence is at offset i. *)

allocate_helper(n) == [i \in 1..n |-> Raw]

\* the cells [from, to)
Slice(s, from, to) == SubSeq(s, from + 1, to)

\* xs put at offset `at`, by std::uninitialized_*, construct_at or assignment
Put(s, at, xs) == [i \in DOMAIN s |-> IF i - at \in DOMAIN xs THEN xs[i - at] ELSE s[i]]

\* what a move, or a copy, leaves in [from, to)
TakenAndDestroyed(s, from, to) ==
    [i \in DOMAIN s |-> IF i \in (from + 1)..to THEN Raw ELSE s[i]]
Taken(s, from, to) ==
    [i \in DOMAIN s |-> IF NothrowMove /\ i \in (from + 1)..to THEN Husk ELSE s[i]]

\* std::destroy on [from, to)
destroy(s, from, to) == [i \in DOMAIN s |-> IF i \in (from + 1)..to THEN Raw ELSE s[i]]

\* copy_old_storage_to_new, into fresh cells
Moved(s, n, new) == Put(new, 0, Slice(s, 0, n))

ObjectsIn(s) == {s[i] : i \in DOMAIN s} \ {Raw}

elements(v) == Slice(storage[v], 0, size[v])

\* how many elements v may have, within the bound, beside those of the other vectors
Room(v) ==
    MaxSize - Cardinality({p \in (Vectors \ {v}) \X (1..MaxSize) : p[2] <= size[p[1]]})

is_full(v) == size[v] = capacity[v]

Init ==
    /\ kind \in Kinds
    /\ storage = [v \in Vectors |-> <<>>]
    /\ size = [v \in Vectors |-> 0]
    /\ capacity = [v \in Vectors |-> 0]
    /\ spilled = {} /\ thrown = FALSE /\ propagated = FALSE
    /\ call = [op |-> "none"]

\* Once a swallowed exception has left raw memory for elements, their use is undefined
\* and no further call is modelled.
ElementsSurvive == \A v \in Vectors : Raw \notin ToSet(elements(v))

\* How a call ends: it returns, returns though a copy has thrown, or an exception of T
\* passes through it.
Ends(throw, out, c) ==
    /\ ElementsSurvive
    /\ thrown' = throw /\ propagated' = out /\ call' = c
    /\ UNCHANGED kind
Returns(c) == Ends(FALSE, FALSE, c)
Swallows(throw, c) == Ends(throw, FALSE, c)
Throws == MayThrow /\ Ends(TRUE, TRUE, [op |-> "throws"])

\* Vector v now has the storage s, of capacity c, and n elements.
Install(v, s, c, n) ==
    /\ storage' = [storage EXCEPT ![v] = s]
    /\ capacity' = [capacity EXCEPT ![v] = c]
    /\ size' = [size EXCEPT ![v] = n]

\* operator delete on a storage: the objects still in it are not destroyed.
Deallocate(s) == spilled' = ObjectsIn(s)

-----------------------------------------------------------------------------
(* Constructors and assignment.  A vector that did not exist before the call *)
(* is an empty one here: ~vector leaves nothing that a later call could see. *)

\* The storage of a constructor's new vector: n cells, xs in the first ones.
Fresh(n, xs) == Put(allocate_helper(n), 0, xs)

\* ~vector, after which v is used to construct anew
DiscardMemory(v) == Deallocate(storage[v])
Discard(v) == Deallocate(destroy(storage[v], 0, size[v]))

\* vector(n, value), vector(n), vector(list), vector(first, last).  A range is copied
\* even when T moves without throwing: its iterators are to const.
Construct(v) ==
    /\ \E n \in 0..Room(v) : \E xs \in [1..n -> Values] :
          Install(v, Fresh(n, xs), n, n) /\ Returns([op |-> "assign", v |-> v, s |-> xs])
    /\ Discard(v)

\* vector(const vector&): the copy gets the capacity of the original, too.  With v = w
\* this is the self-assignment v = v, through a temporary copy.
CopyConstruct(v, w) ==
    /\ size[w] <= Room(v)
    /\ Install(v, Fresh(capacity[w], elements(w)), capacity[w], size[w])
    /\ Discard(v)
    /\ Returns([op |-> "copy", v |-> v, w |-> w])

\* A constructor throws: ~vector of the delegating constructor finds m_size = 0, and
\* the algorithm has destroyed what it had built.
ConstructThrows(v) == Throws /\ Discard(v) /\ Install(v, <<>>, 0, 0)

\* vector(vector&&).  v = std::move(v) leaves v as it is.
MoveConstruct(v, w) ==
    /\ v # w
    /\ storage' = [storage EXCEPT ![v] = storage[w], ![w] = <<>>]
    /\ size' = [size EXCEPT ![v] = size[w], ![w] = 0]
    /\ capacity' = [capacity EXCEPT ![v] = capacity[w], ![w] = 0]
    /\ Discard(v)
    /\ Returns([op |-> "move", v |-> v, w |-> w])

swap(v, w) ==
    /\ storage' = [storage EXCEPT ![v] = storage[w], ![w] = storage[v]]
    /\ size' = [size EXCEPT ![v] = size[w], ![w] = size[v]]
    /\ capacity' = [capacity EXCEPT ![v] = capacity[w], ![w] = capacity[v]]
    /\ spilled' = {}
    /\ Returns([op |-> "swap", v |-> v, w |-> w])

\* A call whose first copy throws, operator= among them, leaves everything as it was.
NothingDone(v) == Throws /\ UNCHANGED <<storage, size, capacity>> /\ spilled' = {}

-----------------------------------------------------------------------------
(* push_back and emplace_back.  The argument is a value, or refers to an element *)
(* of the vector itself.                                                         *)

Arguments(v) == Values \cup {elements(v)[i] : i \in 1..size[v]}

TripledCapacity(c) == IF c = 0 THEN 1 ELSE 3 * c
SameCapacity(c) == c
new_capacity(c) == IF c = 0 THEN 1 ELSE 2 * c

push_back_fast_path(v, x) ==
    /\ Install(v, Put(storage[v], size[v], <<x>>), capacity[v], size[v] + 1)
    /\ spilled' = ObjectsIn(Slice(storage[v], size[v], size[v] + 1))
    /\ Returns([op |-> "push", v |-> v, x |-> x])

\* The new element is built before the old ones are relocated, so that an argument
\* in the old storage is still intact.  The old objects are not destroyed.
AfterRelocation(v, x) ==
    Put(allocate_helper(new_capacity(capacity[v])), size[v],
        <<IF x \in ToSet(elements(v)) THEN Husk ELSE x>>)
WithNewElement(v, x) == Put(allocate_helper(new_capacity(capacity[v])), size[v], <<x>>)

push_back_slow_path(v, x) ==
    /\ Install(v, Moved(storage[v], size[v], WithNewElement(v, x)),
               new_capacity(capacity[v]), size[v] + 1)
    /\ Deallocate(Taken(storage[v], 0, size[v]))
    /\ Returns([op |-> "push", v |-> v, x |-> x])

\* A copy into the new storage throws: uninitialized_copy undoes its work, the handler
\* destroys the new element and swallows the exception, and the call goes on with the
\* new storage.  An exception that is not a std::exception passes, and leaves the
\* storage as it was and the new element undestroyed in the memory it frees.
CopyOldStorageThrows(v, x) ==
    /\ MayThrow /\ ~NothrowMove /\ size[v] > 0
    /\ \/ /\ Install(v, allocate_helper(new_capacity(capacity[v])),
                     new_capacity(capacity[v]), size[v] + 1)
          /\ Deallocate(storage[v])
          /\ Swallows(TRUE, [op |-> "push", v |-> v, x |-> x])
       \/ /\ UNCHANGED <<storage, size, capacity>>
          /\ spilled' = {x}
          /\ Throws

push_back(v, x) ==
    /\ size[v] < Room(v)
    /\ IF is_full(v) THEN push_back_slow_path(v, x) \/ CopyOldStorageThrows(v, x)
                     ELSE push_back_fast_path(v, x)

-----------------------------------------------------------------------------
(* The size and the capacity.  Storage that is left behind after a relocation *)
(* holds moved-from objects, or the copied ones, until destroy.               *)

pop_back(v) ==
    /\ size[v] > 0
    /\ Install(v, destroy(storage[v], size[v] - 1, size[v]), capacity[v], size[v] - 1)
    /\ spilled' = {}
    /\ Returns([op |-> "pop", v |-> v])

\* the storage with n cells that reserve and shrink_to_fit replace the old one by
Reallocated(s, z, n) == Moved(s, z, allocate_helper(n))
Leftover(s, z) == destroy(Taken(s, 0, z), 0, z)

shrink_to_fit(v) ==
    /\ Install(v, Reallocated(storage[v], size[v], size[v]), size[v], size[v])
    /\ Deallocate(Leftover(storage[v], size[v]))
    /\ Returns([op |-> "storage"])

\* reserve(n) as a function of the storage, for resize and insert call it
Reserved(v, n) ==
    IF n <= capacity[v] THEN storage[v] ELSE Reallocated(storage[v], size[v], n)
SpilledByReserve(v, n) ==
    IF n <= capacity[v] THEN {} ELSE ObjectsIn(Leftover(storage[v], size[v]))
CapacityReserved(v, n) == IF n <= capacity[v] THEN capacity[v] ELSE n

reserve(v, n) ==
    /\ Install(v, Reserved(v, n), CapacityReserved(v, n), size[v])
    /\ spilled' = SpilledByReserve(v, n)
    /\ Returns([op |-> "storage"])

resize(v, n) ==
    /\ IF n <= size[v]
         THEN /\ Install(v, destroy(storage[v], n, size[v]), capacity[v], n)
              /\ spilled' = {}
         ELSE /\ Install(v, Put(Reserved(v, n), size[v], [i \in 1..(n - size[v]) |-> Default]),
                         CapacityReserved(v, n), n)
              /\ spilled' = SpilledByReserve(v, n)
                              \cup ObjectsIn(Slice(Reserved(v, n), size[v], n))
    /\ Returns([op |-> "resize", v |-> v, n |-> n])

\* T() throws in resize, after reserve
ResizeThrows(v, n) ==
    /\ n > size[v]
    /\ Install(v, Reserved(v, n), CapacityReserved(v, n), size[v])
    /\ spilled' = SpilledByReserve(v, n)
    /\ Throws

-----------------------------------------------------------------------------
(* insert(pos, first, last): the range [f, l) of w goes before offset pos of v. *)
(* Its steps work on a storage s with z elements and room for n more.           *)

Smaller(a, b) == IF a < b THEN a ELSE b

\* the last elements, n of them or those from pos, go past the end
Displaced(s, z, pos, n) ==
    LET from == IF n < z - pos THEN z - n ELSE pos
    IN  Put(Taken(s, from, z), from + n, Slice(s, from, z))

\* the elements between pos and those, if any, go to the end
Shifted(s, z, pos, n) ==
    IF n < z - pos THEN Put(Taken(s, pos, z - n), pos + n, Slice(s, pos, z - n)) ELSE s

\* the part of the range that does not fit before the old end goes after it
WithTail(s, z, pos, items) ==
    LET head == Smaller(Len(items), z - pos)
    IN  Put(s, z, Slice(items, head, Len(items)))

\* the rest of the range is assigned to the elements from pos
WithHead(s, z, pos, items) == Put(s, pos, Slice(items, 0, Smaller(Len(items), z - pos)))

Inserted(s, z, pos, items) ==
    LET n == Len(items)
        room == Shifted(Displaced(s, z, pos, n), z, pos, n)
    IN  WithHead(WithTail(room, z, pos, items), z, pos, items)

\* A range of another vector loses its tail to a move.
RangeAfter(w, l, tail) == Taken(storage[w], l - tail, l)

\* A range of v itself is copied to a temporary, whose growth, at the sizes 1, 2, 4, ...,
\* spills what push_back's does, and swallows the exceptions of its copies: then what
\* was to be relocated, and the new element, is raw memory.
GrewAt(n) == {2 ^ k : k \in 0..n} \cap 1..(n - 1)
SpilledByTemp(v, w, items) ==
    IF v # w THEN {}
    ELSE {IF NothrowMove THEN Husk ELSE items[i] :
             i \in {j \in DOMAIN items : \E c \in GrewAt(Len(items)) : j <= c}}
temp(v, w, items) ==
    {items} \cup
    IF v = w /\ MayThrow /\ ~NothrowMove
    THEN {[i \in DOMAIN items |-> IF i <= c + 1 THEN Raw ELSE items[i]] : c \in GrewAt(Len(items))}
    ELSE {}

\* The n new cells may hold what an insert that an exception ended has left there.
BuiltOver(v, n) == ObjectsIn(Slice(Reserved(v, size[v] + n), size[v], size[v] + n))

insert(v, pos, w, f, l) ==
    LET n == l - f
        range == Slice(storage[w], f, l)
        tail == n - Smaller(n, size[v] - pos)
        s == Reserved(v, size[v] + n)
    IN  /\ f < l /\ size[v] + n <= Room(v)
        /\ \E items \in temp(v, w, range) :
             /\ storage' = [x \in Vectors |->
                    IF x = v THEN Inserted(s, size[v], pos, items)
                    ELSE IF x = w THEN RangeAfter(w, l, tail) ELSE storage[x]]
             /\ Swallows(items # range, [op |-> "insert", v |-> v, pos |-> pos,
                                         w |-> w, f |-> f, l |-> l])
        /\ size' = [size EXCEPT ![v] = size[v] + n]
        /\ capacity' = [capacity EXCEPT ![v] = CapacityReserved(v, size[v] + n)]
        /\ spilled' = SpilledByReserve(v, size[v] + n) \cup SpilledByTemp(v, w, range)
                        \cup BuiltOver(v, n)

\* What a throw in the middle of insert leaves: a step that builds objects undoes its
\* own work, one that assigns has done j of its assignments, and the steps before it
\* stay done.  If T moves without throwing only the last step, which copies, can throw:
\* elements have then gone past the end, and the size is not yet the new one.
CutShort(s, z, pos, items) ==
    LET n == Len(items)
        d == Displaced(s, z, pos, n)
        t == WithTail(Shifted(d, z, pos, n), z, pos, items)
        m == IF n < z - pos THEN z - pos - n ELSE 0
        head == Smaller(n, z - pos)
    IN  {Put(t, pos, Slice(items, 0, j)) : j \in 0..(head - 1)}
          \cup IF NothrowMove THEN {}
               ELSE {s, d} \cup {Put(d, z - j, Slice(d, z - n - j, z - n)) : j \in 1..m}

InsertThrows(v, pos, w, f, l) ==
    LET n == l - f
        range == Slice(storage[w], f, l)
        tail == n - Smaller(n, size[v] - pos)
    IN  /\ f < l /\ size[v] + n <= Room(v)
        /\ \/ /\ ~NothrowMove \/ v = w       \* in reserve, or in temp's push_back
              /\ UNCHANGED <<storage, capacity>>
              /\ spilled' = SpilledByTemp(v, w, range)
           \/ /\ \E s \in CutShort(Reserved(v, size[v] + n), size[v], pos, range) :
                    storage' = [x \in Vectors |->
                        IF x = v THEN s
                        ELSE IF x = w THEN RangeAfter(w, l, tail) ELSE storage[x]]
              /\ capacity' = [capacity EXCEPT ![v] = CapacityReserved(v, size[v] + n)]
              /\ spilled' = SpilledByReserve(v, size[v] + n) \cup SpilledByTemp(v, w, range)
                              \cup BuiltOver(v, n)
        /\ UNCHANGED size
        /\ Throws

-----------------------------------------------------------------------------
Next ==
    \E v \in Vectors :
        \/ Construct(v) \/ ConstructThrows(v) \/ NothingDone(v)
        \/ \E w \in Vectors : CopyConstruct(v, w) \/ MoveConstruct(v, w) \/ swap(v, w)
        \/ \E x \in Arguments(v) : push_back(v, x)
        \/ pop_back(v) \/ shrink_to_fit(v)
        \/ \E n \in 0..Room(v) : reserve(v, n) \/ resize(v, n) \/ ResizeThrows(v, n)
        \/ \E w \in Vectors, pos \in 0..size[v] : \E l \in 0..size[w] : \E f \in 0..l :
              insert(v, pos, w, f, l) \/ InsertThrows(v, pos, w, f, l)

Spec == Init /\ [][Next]_vars

-----------------------------------------------------------------------------
(* Properties *)

\* Sizes and capacities stay within what doubling can reach from the bound.
TypeOK ==
    /\ kind \in Kinds
    /\ storage \in [Vectors -> BoundedSeq(Cells, 2 * MaxSize - 2)]
    /\ size \in [Vectors -> 0..MaxSize]
    /\ capacity \in [Vectors -> 0..(2 * MaxSize - 2)]
    /\ spilled \subseteq Objects
    /\ thrown \in BOOLEAN /\ propagated \in BOOLEAN

\* If nothing throws then after any sequence of calls the elements are objects, the
\* cells beyond them are not, and the storage has the capacity the vector believes in.
ElementsExactly ==
    ~MayThrow =>
        \A v \in Vectors :
            /\ Len(storage[v]) = capacity[v] /\ size[v] <= capacity[v]
            /\ \A i \in 1..capacity[v] : (storage[v][i] # Raw) <=> i <= size[v]

\* the objects that live in cells beyond the elements, where nobody destroys them
Stranded ==
    (UNION {{storage[v][i] : i \in (size[v] + 1)..capacity[v]} : v \in Vectors}) \ {Raw}

\* push_back's slow path leaves objects undestroyed, but if T moves without throwing
\* they are husks.  A value is lost only if it has been stranded beyond the elements, and
\* that is done only by a call that ends in an exception.
OnlyHusksSpilled ==
    [][NothrowMove => /\ spilled' \subseteq {Husk} \cup Stranded
                      /\ Stranded' \subseteq Stranded \/ propagated']_vars

\* The exceptions that do reach the caller leave every element an object, however far
\* the call had come.
IntactAfterException == [][propagated' => ElementsSurvive']_vars

Promise == INSTANCE ElementSequences
              WITH Containers <- Vectors, contents <- [v \in Vectors |-> elements(v)]

\* The vectors implement plain sequences of elements: growth, relocation and the five
\* steps of insert, from another vector or from the vector itself, have exactly the
\* effect of the call on its vector, and none on the others, but that the range of an
\* insert may lose its tail.  This goes for every call in which nothing throws.
RefinesSequences ==
    Promise!Init /\ [][thrown' \/ Promise!Next]_vars

\* "If T's copy/move ctor throws, the objects already constructed are destroyed and
\* the exception is propagated to the caller" (vector.h:79)
ExceptionPropagated == [][thrown' => propagated']_vars
=============================================================================
