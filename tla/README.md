# Verification of qc-libcpp

qc-libcpp (`src/`) is a header library of data structures for C++: a lock-free
ring buffer, a queue and a stack for several threads, smart pointers, a vector,
a string, a variant with its visit, and a singly linked list.  This directory
holds TLA+ models of these components, the TLC runs that check them on small
instances, and TLAPS proofs, for all instances, of every safety property that a
passing run checks.

- [1 The system](#1-the-system)
- [2 The modules and the code](#2-the-modules-and-the-code)
- [3 What the runs check](#3-what-the-runs-check)
- [4 Bounds, views, symmetry](#4-bounds-views-symmetry)
- [5 Fairness](#5-fairness)
- [6 What is proved](#6-what-is-proved)
- [7 Where the code departs from what one expects](#7-where-the-code-departs-from-what-one-expects)
- [8 What is not modelled](#8-what-is-not-modelled)
- [9 Plan](#9-plan)

To check: `tlc -config X.cfg M` for each run listed in PROJECT.json, `tlapm
M_proofs.tla` for each module of proofs.

## 1 The system

The components are independent templates.  They share little code (`variant` and
`visit` use `utilities.h`), and interact with their clients: threads that call
one object, sequences of calls on several objects of a type, and the element
type T, whose constructors and assignments run in the middle of the operations
and may throw.

| component | state | operations | what is hard | correct means |
|---|---|---|---|---|
| `spsc_queue` (`core/lock_free`) | ring of 2^N slots, two atomic indices | `try_push` by one thread, `try_pop` by another | no lock: slots are ordered by acquire/release alone, indices read may be old, T's assignment may throw between the index accesses | no data race, FIFO, calls refused only when full or empty, no starvation |
| `threadsafe_queue` (`core/concurrency`) | `std::queue`, mutex, condition variable | `push`, `emplace`, `try_push`, `pop` (blocking), `try_pop`, `front`, `back`, `empty`, `size`, copy | notification after the unlock, spurious wakeups, barging, copies that throw after a wakeup was consumed, returns that throw after the element was removed, answers of `empty` that go stale | mutual exclusion, FIFO, no lost wakeup, no element left beside a sleeper, `front` safe until an element is removed |
| `threadsafe_stack` (`core/concurrency`) | `std::stack`, shared mutex | `push`, `pop`, `top`, `empty`, `size`, copy, `swap`, `==` | readers and writers, two mutexes at once in either order, exceptions before and after the element is removed | atomicity of every call, no hold and wait, calls return |
| `shared_ptr` (`core/smart_pointers`) | pointer, control block with atomic count, deleter, perhaps the object itself | constructors, `make_shared`, copy, move, assignment, `swap`, `reset`, destructor | the count is atomic, what surrounds it is not; failing allocations; deleters whose lifetime is over; two templates that share their base | count equals owners, no dangling handle, one destruction, by the right deleter |
| `unique_ptr` (`core/smart_pointers`) | pointer, deleter as base class | move, assignment, `swap`, `release`, `reset`, destructor | stateful deleters | one owner per object, each object goes back where it came from |
| `vector` (`core/containers`) | storage, size, capacity | constructors, assignment, `push_back`, `emplace_back`, `pop_back`, `insert`, `resize`, `reserve`, `shrink_to_fit`, `swap` | raw and moved-from cells, overlapping shifts, arguments that refer into the vector, exceptions half way | effect of a sequence, elements are exactly the first `m_size` cells, exceptions leave elements intact |
| `string` (`core/string`) | short buffer in place or long buffer on the heap | constructors, assignment, `push_back`, `pop_back`, `insert`, `erase`, `reserve`, `swap` | two forms, the terminator, capacities at the boundary | effect of a sequence of chars, writes stay in the buffer, text terminated |
| `type_list` utilities (`core/tagged_union/utilities.h`) | none, compile time | `find_index_of`, `exists`, `uint_atleast`, three `nth_type` | repeated types, lists longer than a block, the width of the index | the lookups agree and invert each other |
| `variant` (`core/tagged_union`; a draft in `experimental/tagged_union/v2`) | union, `m_idx` | constructors, assignments, `swap`, `get`, destructor | a constructor that throws after the old object is destroyed, an argument inside the old object, alternatives that are swapped | index names what is alive, only what is alive is touched, nothing is overwritten undestroyed |
| `visit` (`core/tagged_union`) | dispatch table at compile time | `visit`, `example::visit` | mixed-radix numbering of combinations, arguments without a value | each combination has an entry of its own |
| `forward_list` (`core/containers`) | head, size, nodes | constructors, copy assignment, `swap`, `pop_front`, `clear`, destructor | ownership of nodes that are freed and reused | each node owned once, freed once |

Not part of this table: the benchmarks in `experimental/`, tests, build files
(section 8).

Only the first four components are used by several threads at once.  Nothing
is persisted and nothing is sent over a network; there are no crashes, no
messages and no timeouts, save that `try_push` and `try_pop` of the queue fail
at once when the lock is taken.  What makes the rest hard is long sequences of
legal calls, aliasing (an argument that is part of the object), exceptions from
T, and boundaries of sizes and capacities.  PROJECT.json lists these hazards
one by one, at their lines, with the properties aimed at each.

## 2 The modules and the code

Names of variables and operators are those of the members and functions of the
code where TLA+ allows it; history variables are declared as such.

**SpscQueue** models `try_push` and `try_pop` one access at a time, in the C++
memory model.  An atomic index is its modification order, the sequence of all
values stored.  The thread that owns the index reads the last store; the other
thread may read any store not older than the last one it read (read-read
coherence), so that stale reads are explicit (`LoadReadIndex(k)`,
`LoadWriteIndex(k)`).  A store carries a clock: how many slot accesses of its
thread happen before it.  An acquire load of a release store adds that clock to
what the reader knows (`Acquired`); a slot access races unless the other
thread's last access to that slot is known.  This is exact for two threads of
which each writes one index.  A throwing assignment leaves the slot `Vacant`
(`PushThrows`), a throwing move leaves it as it was (`PopThrows`); neither moves
the index.

**ThreadsafeQueue** models each call as: ask for the mutex, body, leave.  The
body of a critical section is one step; asking, the gap between `unlock` and
`notify_one`, sleeping, waking and asking again are steps of their own.
`notify_one` wakes any one sleeper.  `SpuriousWakeup` wakes one unasked.
`try_to_lock` may fail at any time, as the standard allows.  `MayThrow` says
which operations of T may throw.  With `"copy"` these are allocations, copies and
the assignment `item = ...` (`PushThrows`, `PopThrows`): the element stays, for
an assignment that throws is taken to leave its source as it was; the count of
blocking pops that threw so is the history `abandoned`.  With `"move"` it is also
`return item`, which converts to `std::optional<T>` after `m_queue.pop()`
(`PopLoses`): the element is gone and nobody has it.  The history `lost` counts
these, and so does the step `Lose` of BoundedFifo, so that an element that got
lost in any other way would be no step of it.  A consumer calls `front` only
after an `empty` that returned false; `told` keeps that answer and whether an
element has been removed since.

**ThreadsafeStack** splits reads in a beginning and an end and `std::swap` in
two halves, so that a lock that fails to exclude would be seen.
`std::scoped_lock` of two is the algorithm of `std::lock`: lock one, try the
other, back off.  `MayThrow` is that of the queue: `Throws` changes nothing,
`PopLoses` is `return element` that throws after `m_stack.pop()`, counted in `lost`
like the step `Lose` of AtomicStacks.

**SharedPtr** ends a step where another thread can see or change the count.  A
copy reads the pointers of its source (`ReadFrom`) and increments later
(`Increment`); letting go decrements (`Release`) and destroys later
(`DestroyLast`); `reset` decrements and then takes one of its ways, for a new object or for a null
pointer.  A handle is
in the hands of one thread; several may copy from it at once (`src`).
`ArrayHandles` are the `shared_ptr<T[]>`s: they give their objects another
deleter (`Default`), are copied and moved among themselves only (`SameClass`),
and share `swap` with the others, for it is a member of the common base.
A client's own deleter is kept by reference to a parameter of the constructor
(shared_ptr.h:402, 444), and whoever calls it later calls something that is gone
(`Dead`); only the constructor's own `catch` comes in time.
Undefined behaviour is recorded in `fault` and ends the behaviour.  `abused`
records that the clients have made a call where this implementation cannot keep
its promise although the interface allows it; section 7 lists these calls.

**UniquePtr** gives each object a home arena and each handle the deleter of an
arena.

**Vector** models storage as a sequence of cells that are raw, hold an object,
or hold a moved-from object (`Husk`).  T is of one of four kinds for a whole
behaviour: relocation moves, if T moves without throwing, or copies, and copies
may throw or never do; `"string"` is the kind of `std::string`, which moves
without throwing and throws when copied.  `insert` is the composition of its five steps, in their order
(`Reserved`, `Displaced`, `Shifted`, `WithTail`, `WithHead`); `CutShort`
enumerates what an exception in any of them leaves: for a T that moves without
throwing only the last step can throw, and then elements have gone past `m_size`,
where nobody destroys them (`Stranded`) and the next call builds over them.
`CopyOldStorageThrows` has
both outcomes of a failing relocation: a `std::exception` is swallowed, another
one passes.

**String** models both forms with their buffers, the uninitialised chars
included.  The operations are functions of the string as in the code
(`reserve`, `push_back`, `insert`, `erase`), each with the condition under which
it stays in its buffer.

**ElementSequences** is the promise of a container, a plain sequence per
container that every call changes as a whole; Vector and String are shown to
implement it.  **BoundedFifo** is the promise of a queue, implemented by both
queues; **AtomicStacks** that of the stacks.

**TypeLists** has the metafunctions of `utilities.h` as operators on sequences of
types: the loop of `find_index_of`, the choice of the index type, and the three
ways to look up the n-th type (blocks of the pack, overload resolution over an
indexer, skipped parameters).  **Variant** builds on it: the list `types` is
chosen in Init, an index is stored modulo the width of its type, and the object
alive in each union is kept apart from `m_idx`, so that the two can disagree.
`leaked` records objects that were never destroyed, `misread` that an alternative was
touched that was not alive, which ends the behaviour.  `draft` chooses the class
of `experimental/tagged_union/v2`, which differs in its destructor
(`DraftDestroys`), also where it ends the temporary `p` of a swap (`MissesP`); `v1` does not differ at all.  Moves are copies, as in the code
(section 7).

**Visit** has the numbering of the dispatch table as functions
(`build_coeffs_array`, `to_index`, `from_index`) and the visits as actions;
between visits any argument may be given another alternative or lose its value.
**ForwardList** has lists on a heap whose freed nodes are allocated
again; the nodes of a list (`Chain`) are the least set with the first one that is
closed under `next`, so that a walk over links that do not end is defined too.  The
names of these two modules differ from those of Variant and UniquePtr (`VisitInit`,
`ListSpec`, `CopyConstructList`, ...), because a module of proofs extends each pair.

**MC\*** instantiate these for TLC.  **SpscQueue_proofs**,
**ThreadsafeQueue_proofs**, **ThreadsafeStack_proofs**, **SharedPtr_proofs**,
**UniquePtr_proofs**, **Vector_proofs**, **String_proofs** and **Variant_proofs**
hold the theorems; those about ForwardList are in UniquePtr_proofs, with the other
component in which pointers own, those about Visit in Variant_proofs, with the other
one that indexes alternatives.

## 3 What the runs check

| run | module | checks |
|---|---|---|
| `spsc` | MCSpscQueue | race freedom, FIFO, exact refusals, refinement of BoundedFifo, and that every push is delivered in the end, with stale reads and throwing assignments |
| `queue` | MCThreadsafeQueue | mutual exclusion, no lost wakeup, `front` after `empty`, refinement of BoundedFifo, no element beside a sleeping popper, calls that may not block return: for two producers and two consumers, with throwing copies and returns |
| `stack` | MCThreadsafeStack | stable reads, no hold and wait, refinement of AtomicStacks, every call returns, with throwing copies and returns |
| `shared` | MCSharedPtr | the count is exact, nothing dangles, nothing undefined, nothing left over |
| `unique` | MCUniquePtr | one owner per object, and deletion in the right arena unless arenas were mixed |
| `vector` | MCVector | elements exactly, what is lost, state after exceptions, refinement of ElementSequences, for all four kinds of T |
| `string` | MCString | writes in the buffer, termination, what the move of a long string costs, refinement of ElementSequences |
| `variant` | MCVariant | the lookups of types agree, index and union agree, only what is alive is touched, only mixed alternatives and the draft leak |
| `visit` | MCVisit | the entry called is the one of the alternatives held, unless an argument has no value, and every entry is used |
| `list` | MCForwardList | every node owned once, sizes right, freed once |
| `vector_swallowed` | MCVector | that an exception of T in push_back reaches the caller, as the documentation says: **violated** (section 7) |
| `variant_moves` | MCVariant | that a move empties its source, as a test says: **violated** (section 7) |

Some properties are subtle; what they say and why:

- `NoDataRace` quantifies over the accesses about to happen, so it fails when
  any of the four memory orders is weakened to relaxed.
- `RefusalJustified` is about every store a load may return: the call is refused
  exactly when the ring is full, or empty, by the count that store stands for.
- `NoLostWakeup` counts: while some pop sleeps, each element has a notification
  to come or a popper under way, except for one per pop that threw and left its
  element.  The exception is the code's: a pop whose copy throws has consumed a
  wakeup and leaves the element, and nobody is notified again.  The property
  bounds that loss and does not deny it.  While no pop has done so `abandoned` is 0 and the statement is exact; `NoElementStranded` is its
  liveness counterpart and is claimed for that case.
- `FrontDefined`: `empty` and `front` are two critical sections.  A consumer
  may rely on the first in the second until an element is removed, by a pop that
  returns it or by one that throws on return; pops that throw before that take
  nothing.
- `RefinesFifo` and `RefinesAtomicStacks` say what exceptions cost: `lost` is part of
  the mapping, and only a pop that throws on return may raise it, by the one element
  it removes.  `RefinesBoundedFifo` of the ring maps `lost` to 0: nothing is lost there.
- `RefinesAtomicStacks` maps a half-done swap to a done one; between the halves
  the second stack is the temporary.
- `CountIsOwners`, `NoDangling`, `DefinedUnlessAbused` and `NothingLeft` hold
  until a call that `abused` names is made.  `NothingLeft` is about the blocks
  that managed an object to the end: those of null pointers are never freed, for
  the destructor does nothing when the pointer is null, and neither is the one
  that `reset(nullptr)` leaves to a sole owner.
- `OnlyHusksSpilled` is about a T that moves without throwing.  Two things are
  said of every step: what is freed or built over is a husk or was stranded
  beyond the elements, and only a call that ends in an exception strands.  A
  `push_back` after a failed `insert` does lose a value (vector.h:68).
- `RefinesSequences` and `RefinesTexts` require of each step the effect of the
  very call made (`call` is visible in the abstract module), on all containers:
  an insertion into one vector must not change another, apart from elements
  moved out of the range inserted.  `insert` of a range of the vector itself is
  included.
- `LongMoveCostsFirst` says how much of a string survives the order in which
  `string(string&&)` exchanges its three members: everything but the first char.
- `IndexNeverWrong` is about lists of more alternatives than an index type of
  the narrower width can tell; `LookupsAgree` relates `find_index_of`, written
  as a loop, to three unlike lookups.
- `OnlyMixingLeaks` and `NothingMisread` bound the damage of the calls that
  section 7 lists under `variant`, the draft's destructor included: nothing else
  reaches it in any number of steps.  The formula of the first names the very call
  that may leak, a swap or an assignment of two variants that differ.
- `IntactAfterException` is the basic guarantee, step by step, for exceptions
  that reach the caller.

## 4 Bounds, views, symmetry

| bound | value | why it is enough |
|---|---|---|
| spsc `Capacity`, `MaxPush` | 4, 7 | the ring goes round almost twice, with both indices wrapping and stale views a whole lap old being excluded or not; `MaxPush` bounds accepted pushes |
| queue `MaxCalls`, threads, `MaxSpurious` | 4 in all, 2+2, 1 | two sleepers and two notifications in any order, or one sleeper and a popper that barges in, with one spurious wakeup at any time |
| stack `MaxCalls`, threads, stacks | 3 in all, 3, 2 | a swap against a swap in the other order and a reader or writer between; deadlock needs two |
| shared handles, objects, blocks, `CountMod` | 3 (one of arrays), 2, 2, 8 | an owner that drops while another is copied, two that drop at once beside a third; the array handle joins them by a swap; a reset that needs a second object and block; the count wraps below zero |
| unique handles, objects, arenas | 3, 2, 2 | swaps of handles of different arenas, self moves |
| vector vectors, values, `MaxSize` | 2, 2, 3 in all | capacities 1, 2 and 4; tails shorter than, equal to and longer than the range; both the growing and the fitting case of every step of insert; room to build over what an insert has stranded |
| string strings, chars, `ShortCapacity`, `MaxSize` | 2, 2, 3, 5 in all | 3 stands for the code's 23: odd, as there; both forms, growth from short to long and from long to longer, the empty literal |
| variant variants, lists, `Block`, `Limits`, payloads | 3, 5, 2, 1-3-7, 2 | self and cross assignment with a bystander; lists of one to five types, with repetitions, that take one, two or three bits of index and up to three blocks (in the code 8 to 64 bits and blocks of 10) |
| visit `MaxVariants`, `MaxAlternatives` | 3, 4 | all 84 shapes of tables of up to three dimensions, with values and without |
| list lists, nodes, `MaxSize`, `SizeMod` | 2, 4, 2, 8 | copy assignment needs the old and the new nodes at once, and freed nodes come back |

A bound appears in the guard of the action it limits (`Call`, `Begin`,
`TryPushAdmitted`, `ConstructList`, ...) or as the number of blocks, objects or
nodes that can be allocated.

*Views.*  MCSharedPtr tells TLC to identify states that differ in how a destroyed
object was made, or in the contents of a block that no handle refers to: no step and
no property reads those (the state of either, and whether the block managed an object,
are kept).  MCVector and MCString tell TLC to identify states that differ in
variables no guard and no next value depends on: the call last made and its
outcome; for strings also the chars behind the place of the terminator, which
no operation reads.  The properties that mention those are action properties,
which TLC evaluates on every transition before states are identified; the
invariants do not depend on them in a way that the view could hide (type
correctness of what a call writes).

*Symmetry* is used only where vectors, strings, handles, threads or nodes are
interchangeable in Init, Next and the properties, and never with liveness.

*Constraint.*  MCSharedPtr does not explore past an abuse (`Unabused`): all its
properties but TypeOK are vacuous there, and `abused` never becomes false again.

*Deadlock* is checked for the queues, the stack, `unique_ptr` and `visit`.  The other
models do stop: `shared_ptr` when objects and blocks are used up or after undefined
behaviour, `variant` after undefined behaviour, `vector` after a swallowed exception
has left raw memory for elements, `string` after a stray write, `forward_list` after a
second deletion or when nothing is left to allocate.  In the queue, the step
`Quiescent` allows the system to rest only when all calls have been made and whoever
sleeps has a reason to, so that the deadlock check is itself a check for lost wakeups.

## 5 Fairness

- *spsc.*  The two threads keep calling, and a call under way continues (WF).  A
  store becomes visible to the other thread in finite time ([intro.progress] of
  the C++ standard), hence the WF on an admitted call that reads the *latest*
  store.  An assignment of T that is tried over and over does not throw every
  time (SF on `PushWrite` and `PopTake`).  With a T that throws for ever nothing
  could be delivered.
- *queue.*  A thread inside a call continues (WF of `Work`); a free mutex goes to
  some thread that asks (WF over all threads: a mutex is not fair to a
  particular one).  Nothing forces a client to call or a sleeper to wake
  spuriously.
- *stack.*  The same, and SF of `TryLockSecond`: `std::lock` leaves it open that
  two threads back off in step for ever; it relies on the scheduler to end that.

As calls are bounded, progress of some thread that asks implies progress of each
in these models; the runs show freedom from deadlock, lost wakeups and livelock,
not freedom from starvation under an endless load.

## 6 What is proved

Each theorem holds for every value of the constants; the run of the same
component checks the same formula on a small instance.

| module | theorem | statement |
|---|---|---|
| SpscQueue_proofs | `TypeCorrect` | `Spec => []TypeOK` |
| | `DataRaceFree` | `Spec => []NoDataRace` |
| | `FirstInFirstOut` | `Spec => []Fifo` |
| | `RefusalsExact` | `Spec => []RefusalJustified` |
| | `ImplementsBoundedFifo` | `Spec => RefinesBoundedFifo` |
| ThreadsafeQueue_proofs | `MutexExact` | `Spec => []MutualExclusion` |
| | `WakeupsNotLost` | `Spec => []NoLostWakeup` |
| | `FrontFindsElement` | `Spec => []FrontDefined` |
| | `ImplementsBoundedFifo` | `Spec => RefinesFifo` |
| ThreadsafeStack_proofs | `NoCycleOfWaiters` | `Spec => []NoHoldAndWait` |
| | `ReadsAreStable` | `Spec => []StableRead` |
| | `ImplementsAtomicStacks` | `Spec => RefinesAtomicStacks` |
| SharedPtr_proofs | `TypeCorrect` | `Spec => []TypeOK` |
| | `CountIsExact` | `Spec => []CountIsOwners` |
| | `NothingDangles` | `Spec => []NoDangling` |
| | `NothingUndefined` | `Spec => []DefinedUnlessAbused` |
| | `NothingLeaks` | `Spec => []NothingLeft` |
| UniquePtr_proofs | `OwnersUnique` | `Spec => []UniqueOwnership` |
| | `DeletionsAtHome` | `Spec => []DeletedAtHome` |
| | `NodesHaveOneOwner` | `ListSpec => []NodesOwnedOnce` |
| Vector_proofs | `TypeCorrect` | `Spec => []TypeOK` |
| | `Exact` | `Spec => []ElementsExactly` |
| | `HusksOnly` | `Spec => OnlyHusksSpilled` |
| | `IntactOnThrow` | `Spec => IntactAfterException` |
| | `ImplementsSequences` | `Spec => RefinesSequences` |
| String_proofs | `TypeCorrect` | `Spec => []TypeOK` |
| | `WritesInside` | `Spec => NoOverflow` |
| | `Terminates` | `Spec => OnlyReserveUnterminates` |
| | `FirstCharLost` | `Spec => LongMoveCostsFirst` |
| | `ImplementsTexts` | `Spec => RefinesTexts` |
| Variant_proofs | `IndexRight` | `Spec => []IndexNeverWrong` |
| | `NeverMisread` | `Spec => []NothingMisread` |
| | `LookupsCorrect` | `Spec => []LookupsAgree` |
| | `LeaksOnlyByMixing` | `Spec => OnlyMixingLeaks` |
| | `EntriesFound` | `VisitSpec => []EntryForHeld` |
| | `EntriesUsed` | `VisitSpec => []NoEntryUnused` |

All follow from an invariant that each module proves inductive (`IInv`, in
Vector_proofs and String_proofs `Inv`, for ForwardList and Visit `ListIInv` and
`VisitIInv`; the lemma is `InductiveInvariant`, `Invariance`, `ListInvariance` or
`VisitInvariance`), with one lemma per action or per kind of action.  None of the properties of the components that threads
share is inductive alone, nor are most of the others.  The reasons:

*SpscQueue.*  `IInv` has a conjunct for each link of the argument:

- `Clocks`: the k-th store of an index was made after k - 1 elements, and a
  thread knows what its last load carried;
- `Positions`: *every* store a thread may still read, not just the last, lies on
  the ring where the histories say, so that a stale view errs on the safe side;
- `Admitted`: what the load has established still holds at the access, because
  only this thread moves its own index and the other only makes more room;
- `Filled`: the slots between the indices hold the elements not yet popped;
- `Freed`: the slots that the producer will reach soonest were taken longest
  ago.  Together with `Positions` this gives that the slot about to be written
  was taken before the store the producer has read.

For the refinement, the abstract queue `Contents` (read off the ring) is first
shown equal to `Unpopped`, the elements of the history not yet popped; a store of
`m_write_index` then appends to it, one of `m_read_index` takes its head, and
nothing else changes it.  Of the assumption on `Capacity` the proof needs only
that it is positive: the modulo stands for the mask.

*ThreadsafeQueue.*  `MutualExclusion` also says that the condition variable has
exactly the threads that sleep, so that a notification moves one from the
sleepers to the poppers `Alert`: the sum in `NoLostWakeup` stays.  A push adds one
element and one notifier, a pop takes an element with an alert popper, whether or not it then throws on
return, and a pop that leaves its element is counted in `abandoned`.  `ToldRight` is what makes `FrontDefined`
inductive.  `Budget` says that the elements inside and the pushes under way are
no more than the calls made; the refinement needs it because BoundedFifo has a
bound and the queue has none but the number of calls.

*ThreadsafeStack.*  `LocksExact` says which mutexes a thread holds at each place
of its call.  Hence whoever reads or swaps is not under another's lock
(`ReadersAreApart`), and at most the holder of a stack is half way in swapping it
(`HolderSwapsAlone`).  In the refinement the first half of `std::swap` is the
abstract swap, the second half a stutter.

*SharedPtr.*  `Uses(h, b, o)` says that handle h, or the temporary that is about to
let go for it, has object o through block b; `IInv` is `Sound` as long as nobody has
abused the class, and `Sound` says, besides the types and that nothing undefined has
happened:

- `Shape` and `Sources`: what each place of a call says of its handle; in particular
  a handle that is being copied from rests, so that the pointers a copy has read are
  still there when it increments, and the count is not zero meanwhile;
- `Agree`: whoever uses a block and an object finds them alive and fitting (same
  deleter, or the object inside the block), and blocks and objects in use match one to
  one;
- `Exact`: the count is the number of owners and of those about to let go; `Kept`: a
  block that managed an object lives as long as somebody uses it and no longer;
- `Claims`: whoever has found the count at zero is the last user, and only he;
- `Resets`: the new object of a `reset` under way is nobody else's.

The heart is that a decrement to zero finds nobody else: `Exact` turns the zero into
two empty sets, which is `Claims`.  The lemmas on cardinalities reduce each action to
the handles it changes: the weight of a handle in the count of a block
(`Weight`) is 0, 1 or 2, and the sum changes by what changes there (`SumOfOne`,
`SumOfTwo`).  That the count does not wrap is `CountAssumption`: it has room for every
handle and one temporary each (in the code 2^64).  Actions that set `abused` need no
proof except for `TypeCorrect`, whose invariant is `TypeOK` itself.

*UniquePtr.*  `Ownership` replaces the count of owners by: an object is owned
exactly when some handle points to it, and two handles never point to the same.

*Vector.*  `Inv` is `Shape` (each vector has the storage its capacity says, the
capacities stay below twice the bound), `Ending` (what a call says of its end) and
`ElementsExactly`.  Whether the latter survives is a question about cells, and so most
of the proof is about single steps of the code on a storage of any length: a lemma
says what each of them makes of each cell (`ShiftedCells` of the two ways to shift the
tail, which overlap or do not; `DisplacedCells`, `WithTailCells`, `InsertedCells`;
`CutShortCells` of every place where an exception may stop them), and one per call says
that it keeps `Inv` and does what the action properties claim (`ConstructOutcome` to
`InsertThrowsOutcome`).  For the refinement, one more lemma per call
(`ConstructRefines` to `InsertRefines`) reads the new sequence off the new cells; in
`InsertRefines` the range may belong to the vector itself, whose storage may have moved
in between, and a range of another vector loses the tail that was moved from.

*String.*  `Inv` says that each string has one of the two forms with the right buffer
(`Shape`), and, as long as nothing was written outside, that it is `Sound`: its text has
no uninitialised char, and there is room for a terminator unless there is no buffer at
all.  It does not say that the terminator is there: `reserve` leaves it out, and the
other calls must not rely on it.  `Holds(r, xs)` says that the string r holds xs and an
end; each operation of section 2 is shown to hold, for a sound string, what it should
(`LiteralHolds` to `EraseHolds`), with the condition under which it keeps within its
buffers, and every string that is not `Cramped` meets that condition (`ReserveKeeps`,
`GrownKeeps`, `RoomForKeeps`: the capacity doubles to enough, in the short form as in the
long).  From `Holds` the five properties follow alike for all calls (`HeldOutcome`).

*Variant.*  `IInv` says that the union of a variant that exists holds what `m_idx` says
or nothing, and, before an abuse, that it does hold something and nothing was misread.
Where the draft has not missed, the destructor finds what is alive (`DestroysIt`, and
`PDestroyed` for the temporary of a swap); that nothing else is lost follows, for an
object that a destructor leaves is one it has missed.
`LookupsAgree` does not change with time; it is about the recursive functions
behind `find_index_of` and the first `nth_type`.  That such a function
exists and what it computes are proved by a least counterexample: a set of natural
numbers that is not empty has a least element (`Least`, from the well-foundedness of
<).  The same lemma carries the strings that are made by one `push_back` after another
(`RangeHolds` in String_proofs).

*ForwardList.*  `Met(links, h)` is the set of nodes that a walk from h along any links
meets, and `Own(l)` that of a list along `next`.  `OneOwner` adds two facts to
`NodesOwnedOnce`: no list is longer than one may be built, so that `pop_front` does not
count below zero, and a walk from the successor of a node on the heap does not come back
to the node.  Without the second `pop_front` could delete a node that its list still
reaches.  The lemmas need no induction along a list, for a set that has the first node and
follows the links has the nodes met (`MetLeast`): a walk starts with its first node
(`MetFirst`), stays within what it has met (`MetWithin`) and depends on the links of
those nodes only (`MetSame`), so that what one list does leaves the others' nodes alone.
Only for a list just built (`NewlyMet`) is the i-th node the one after the one before,
again by a least counterexample.  Once a list with nodes has been cleared (section 7),
nothing is claimed but types.

*Visit.*  `VisitIInv` says that the table has a shape, that every argument holds an
alternative it has or none, and `EntryForHeld`.  The work is in the operators.
A function that is defined by recursion along positions exists (`RunExists`) and its
values are as the recursion says.  `build_coeffs_array` multiplies in place, one step per
dimension; the invariant of that loop gives that coefficient j is d[j + 1] times
coefficient j + 1 and the last one is 1 (`Coefficients`), and that the table has
d[1] times the first coefficient entries (`Size`).  Then, going along the arguments, the
part of the number still to be accounted for is less than the coefficient just used, so
that quotients and remainders give back the indexes (`ForthAndBack`), and the indexes
taken from a number add up to it again (`BackAndForth`).

The assumptions are those the modules declare: finitely many threads, handles,
vectors, strings and nodes (for the cardinalities), `Nobody`, `Vacant`, `Null`,
`nullptr`, `Raw`, `Husk` and `Nul` outside the sets they are added to, natural bounds,
a modulus of the count above twice the number of handles, an odd short capacity, a
largest `size_t` that no text comes near, and index types of which one can tell all
places of a list apart.

Only model-checked are the liveness properties (`EveryPushDelivered`,
`NoElementStranded`, both `CallsReturn`) with the fairness they need, and the absence of
deadlock: both are about `ENABLED`, which is out of the prover's reach.  Where a proof
speaks of data of any length, it does so without the library's theorems of induction,
whose parameters are operators: it takes the least counterexample instead.

## 7 Where the code departs from what one expects

The models follow the code, and so they reproduce the following.

Runs show (findings in PROJECT.json):

- `vector`: when a copy throws a `std::exception` during growth,
  `push_back_slow_path` and `emplace_back_slow_path` swallow it (vector.h:56 and
  108) and go on with a storage whose first cells are raw.  The documentation
  says that the exception is propagated to the caller (vector.h:80).
- `variant`: `tools::get` has no overload for rvalue unions, so that the move
  constructor and the move assignment copy (variant.h:83); a test expects the
  source to be empty (variant_test.cpp:113).

The models contain, and the properties are stated around:

- the draft of `variant`: its destructor destroys the first alternative whatever
  is held, against its comment "Destroys the currently held alternative."
  (v2/variant.h:146).  That goes for the temporary of `swap` and of the
  assignments too (`DraftMisses`, `DraftMissesP`; these set `abused`).
- `shared_ptr`: a custom deleter is referred to after its lifetime
  (shared_ptr.h:402 and 444 pass an lvalue to a forwarding reference), against
  "Takes ownership of the pointee." (192).  The test of it (shared_ptr_test.cpp:317)
  has a deleter without state, of which a dangling reference goes unnoticed.
- `shared_ptr`: `reset(p)` of the sole owner of an object that came from
  `make_shared` calls the default deleter on a member of the control block and
  keeps the block, against "Replaces the managed object." (409).
- `unique_ptr`: `swap` and `operator=` leave the deleters where they are, against
  the comment at unique_ptr.h:64 (`mixed`).
- `shared_ptr`: besides the two above, `reset(p)` of an empty handle whose
  block is shared with other empty ones, or of a moved-from handle, which has no
  block; a constructor or a `reset` whose block, or whose wrapper of the deleter,
  cannot be allocated; `reset` of a handle that a `swap` with one of the other
  template has given a block with the other deleter.  These set `abused`.
  `shared_ptr<T[]>()` does not compile.  Control blocks of null pointers are never freed, the one that
  `reset(nullptr)` leaves to its sole owner (361-363, 271) among them, and
  `make_shared<T>()` without arguments makes a null pointer.
- `unique_ptr`: `operator bool` (unique_ptr.h:133) is inverted; a query without effect, it is not in the model.
- `vector`: the slow paths free the old storage without destroying the objects in
  it: husks, if T moves; live copies otherwise (`OnlyHusksSpilled`).  An `insert`
  that throws leaves the elements it has displaced beyond `m_size`, which it has
  not advanced (396, 401); the next `push_back` builds over them (68).  A range
  of another vector loses its tail to the insert, which moves it (387).
- `string`: moving a long string puts a terminator over its first char
  (`MovesLong`); `reserve` leaves the new buffer unterminated until the next
  change; the empty literal makes a long string of capacity 1, which never grows
  because `reserve` compares with the short capacity (`Cramped`).
- `variant`: a converting assignment whose constructor throws leaves the old
  index and no object; `v = std::move(get<T>(v))` builds the new object from the
  one it has just destroyed (both `abused`); swaps and assignments of two
  different alternatives construct over objects that are not destroyed
  (`OverwrittenBySwap`).
- `visit`: argument k of the general `visit` is converted to alternative k - 1
  whatever it holds; only `example::visit` passes what is held.  A valueless
  argument leads out of the table or to `bad_variant_access`, as it happens.
- `forward_list`: `clear()` leaves `m_head` pointing to the first freed node, and
  the destructor follows it (`cleared`).
- `threadsafe_queue`: a pop that throws before it has removed its element uses up
  a wakeup (`abandoned`).
- `threadsafe_queue`, `threadsafe_stack`: a pop whose `return` throws has removed
  its element already (threadsafe_queue.h:85-86, 100-101, threadsafe_stack.h:53-54;
  `PopLoses`).

## 8 What is not modelled

- Members of `forward_list` that do not compile when instantiated
  (`insert_after`, `emplace_after`, `erase_after`, `push_front`,
  `emplace_front`, `resize`) or that lack their return (move assignment).
- `swap` and `==` of a `threadsafe_stack` with itself: one mutex is locked twice,
  which is undefined.
- `front` and `back` of an empty `threadsafe_queue`: undefined; looking has no
  effect in the model.
- Element access, comparison, iteration and output operators, which change
  nothing, in all containers.
- The array form of `unique_ptr`: the same bodies, another deleter.
- Of `utilities.h`: `union_size`, `instance_of` and concepts, which compute
  nothing at run time; of `visit.h`: `poly_array` and `for_each`, plumbing.
- `get<I>` of another alternative than the one held: undefined.
- A copy of T that throws inside `variant`'s move constructor, move assignment or
  `swap`: these are `noexcept` although they copy, and the program ends there.
- A throwing assignment of T that changes its source: elements are taken to be as
  they were when `item = std::move(...)` has thrown.
- `experimental/`: `v1` and `utilities.h` repeat the core's text; benchmarks and
  their reports, tests, build files and documentation: read, not modelled.
- Allocation failures other than in `shared_ptr`; in vector and string a failed
  allocation happens before anything has changed.

## 9 Plan

The order was: the components used by several threads first (`spsc_queue`,
`threadsafe_queue`, `threadsafe_stack`, `shared_ptr`), then ownership
(`unique_ptr`, `forward_list`), then the containers over raw memory (`vector`,
`string`), then `variant` and `visit`.  All have a module, a run and their
properties.  What comes next:

1. Modelling: allocation failures in `vector` and `string`; copies of a whole
   `threadsafe_queue` and `threadsafe_stack` as objects of their own;
   `forward_list`'s remaining members should they come to compile.
2. Proofs: the liveness properties, when a prover for `ENABLED` is at hand.
