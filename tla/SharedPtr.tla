----------------------------- MODULE SharedPtr -----------------------------
(***************************************************************************)
(* dev::shared_ptr (src/core/smart_pointers/shared_ptr.h): handles that    *)
(* own objects together through a control block with an atomic count.      *)
(*                                                                         *)
(* Each handle is in the hands of one thread at a time; several may copy   *)
(* from it at once.  A step ends where another thread can see or change    *)
(* the count: reading the source and incrementing, decrementing and        *)
(* destroying are separate steps.  tmp is the temporary of an assignment,  *)
(* or the handle a destructor runs on.                                     *)
(*                                                                         *)
(* Undefined behaviour sets fault and ends the behaviour.  abused records  *)
(* that the clients, by calls the interface allows, have reached one of    *)
(* the places where this implementation cannot keep its promises.          *)
(***************************************************************************)
EXTENDS Integers, FiniteSets

CONSTANTS Handles, Objects, Blocks,   \* bounds on what is ever allocated
          ArrayHandles,               \* the shared_ptr<T[]>s among the handles
          Null,
          CountMod                    \* m_ref_count wraps: 2^64

ASSUME ClassesAssumption == ArrayHandles \subseteq Handles
ASSUME NullAssumption == Null \notin Handles \cup Objects \cup Blocks
\* A handle and the temporary of its assignment count separately.
ASSUME CountAssumption ==
    IsFiniteSet(Handles) /\ CountMod \in Nat /\ CountMod > 2 * Cardinality(Handles)

VARIABLES
    pc,       \* per handle: "dead", "ready", or where its call is
    raw,      \* m_raw_underlying_ptr
    cb,       \* m_control_block_ptr
    tmp,      \* per handle, the other shared_ptr of its call: [raw, cb]
    src,      \* per handle, the handle its copy reads from, or Null
    then,     \* per handle, its pc after the release under way
    block,    \* per control block: [state, count, deleter, m_object], and
              \* as history whether it was last given an object to manage, or none
    object,   \* per object: [state, deleter], the deleter it came with
    fault,    \* "none" or the first undefined behaviour
    abused

handle == <<pc, raw, cb, tmp, src, then>>
heap == <<block, object>>
vars == <<handle, heap, fault, abused>>

NoPtr == [raw |-> Null, cb |-> Null]
Ptr(h) == [raw |-> raw[h], cb |-> cb[h]]

Init ==
    /\ pc = [h \in Handles |-> "dead"]
    /\ raw = [h \in Handles |-> Null]
    /\ cb = [h \in Handles |-> Null]
    /\ tmp = [h \in Handles |-> NoPtr]
    /\ src = [h \in Handles |-> Null]
    /\ then = [h \in Handles |-> "dead"]
    /\ block = [b \in Blocks |-> [state |-> "free", count |-> 0,
                                  deleter |-> "default", m_object |-> Null,
                                  managed |-> FALSE]]
    /\ object = [o \in Objects |-> [state |-> "unborn", deleter |-> "default"]]
    /\ fault = "none" /\ abused = FALSE

-----------------------------------------------------------------------------
(* Objects and blocks *)

Fresh(o) == object[o].state = "unborn"
Unused(b) == block[b].state = "free"
Born(o, deleter) == object' = [object EXCEPT ![o] = [state |-> "alive", deleter |-> deleter]]
NewBlock(b, count, deleter, stored, managed) ==
    block' = [block EXCEPT ![b] = [state |-> "live", count |-> count, deleter |-> deleter,
                                   m_object |-> stored, managed |-> managed]]

Idle(h) == pc[h] = "ready" /\ fault = "none"
\* Nobody else reads the handle: it may be changed.
Mine(h) == Idle(h) /\ \A g \in Handles : src[g] # h
Stillborn(h) == pc[h] = "dead" /\ fault = "none" /\ \A g \in Handles : src[g] # h

\* shared_ptr<T> and shared_ptr<T[]> share their base class.  They differ in the deleter
\* of a pointer that comes without one; copies and moves stay within a class.
Default(h) == IF h \in ArrayHandles THEN "default[]" ELSE "default"
SameClass(h, g) == h \in ArrayHandles <=> g \in ArrayHandles

Become(h, ptr, where) ==
    /\ raw' = [raw EXCEPT ![h] = ptr.raw]
    /\ cb' = [cb EXCEPT ![h] = ptr.cb]
    /\ pc' = [pc EXCEPT ![h] = where]

\* destroy_wrapper(deleter) keeps a reference to the constructor's own parameter: of a
\* deleter the client passed only the constructor itself may still make use.
Dead(deleter) == deleter = "custom"

\* The deleter runs on o: what that does to it, and whether it is undefined.
Destroyed(o) == [object EXCEPT ![o].state = "destroyed"]
NeverDead(deleter) == FALSE
DestroyFault(o, deleter) ==
    CASE Dead(deleter)                  -> "dangling deleter"
      [] object[o].state = "destroyed"  -> "destroyed twice"
      [] object[o].deleter = "inside block" /\ deleter # "inside block" -> "invalid free"
      [] object[o].deleter # deleter    -> "wrong deleter"
      [] OTHER                          -> "none"

DecrementedSigned(n) == n - 1
Decremented(n) == (n + CountMod - 1) % CountMod
NotIncremented(n) == n
Incremented(n) == (n + 1) % CountMod

-----------------------------------------------------------------------------
(* Construction *)

\* A handle without an object, and a control block that nobody or one counts for.
ConstructEmpty(h, count, deleter) ==
    /\ Stillborn(h)
    /\ \E b \in Blocks : Unused(b) /\ NewBlock(b, count, deleter, Null, FALSE)
                                   /\ Become(h, [raw |-> Null, cb |-> b], "ready")
    /\ UNCHANGED <<tmp, src, then, object, fault, abused>>

\* shared_ptr(), shared_ptr(nullptr); those of shared_ptr<T[]> do not compile
ConstructNull(h) == h \notin ArrayHandles /\ ConstructEmpty(h, 0, "default")

\* shared_ptr(ptr) and shared_ptr(ptr, deleter) of a T* that is null
ConstructNullRaw(h) == ConstructEmpty(h, 1, Default(h))
ConstructNullCustom(h) == ConstructEmpty(h, 0, "custom")

\* shared_ptr(ptr), shared_ptr(ptr, deleter)
ConstructFrom(h, o, deleter) ==
    /\ Stillborn(h) /\ Fresh(o)
    /\ Born(o, deleter)
    /\ \E b \in Blocks : Unused(b) /\ NewBlock(b, 1, deleter, Null, TRUE)
                                   /\ Become(h, [raw |-> o, cb |-> b], "ready")
    /\ UNCHANGED <<tmp, src, then, fault, abused>>

ConstructRaw(h, o) == ConstructFrom(h, o, Default(h))
ConstructCustom(h, o) == ConstructFrom(h, o, "custom")

\* The control block cannot be allocated.  With a deleter the base's constructor
\* destroys the object and is never completed.
ConstructCustomThrows(h, o) ==
    /\ Stillborn(h) /\ Fresh(o)
    /\ object' = [object EXCEPT ![o] = [state |-> "destroyed", deleter |-> "custom"]]
    /\ UNCHANGED <<handle, block, fault, abused>>

\* If what cannot be allocated is the wrapper of the deleter, nobody destroys the object.
WrapperThrows(h, o) ==
    /\ Stillborn(h) /\ Fresh(o)
    /\ Born(o, "custom")
    /\ abused' = TRUE
    /\ UNCHANGED <<handle, block, fault>>

\* Without one the derived constructor deletes the object, and the destructor of the
\* completed base follows its null control block.
ConstructRawThrows(h, o) ==
    /\ Stillborn(h) /\ Fresh(o)
    /\ object' = [object EXCEPT ![o] = [state |-> "destroyed", deleter |-> Default(h)]]
    /\ fault' = "null control block"
    /\ abused' = TRUE
    /\ UNCHANGED <<handle, block>>

\* make_shared(args...): the object lies in the control block.
MakeShared(h, o) ==
    /\ h \notin ArrayHandles /\ Stillborn(h) /\ Fresh(o)
    /\ Born(o, "inside block")
    /\ \E b \in Blocks : Unused(b) /\ NewBlock(b, 1, "default", o, TRUE)
                                   /\ Become(h, [raw |-> o, cb |-> b], "ready")
    /\ UNCHANGED <<tmp, src, then, fault, abused>>

\* make_shared() without arguments is shared_ptr<T>(), the default constructor.
MakeSharedNoArgs(h) == ConstructNull(h)

-----------------------------------------------------------------------------
(* Copies and moves *)

\* shared_ptr(const shared_ptr&) of h, or of the temporary of h = g: read g ...
ReadFrom(h, g, where) ==
    /\ Idle(g) /\ SameClass(h, g)
    /\ tmp' = [tmp EXCEPT ![h] = Ptr(g)]
    /\ src' = [src EXCEPT ![h] = g]
    /\ pc' = [pc EXCEPT ![h] = where]
    /\ UNCHANGED <<raw, cb, then, heap, fault, abused>>

CopyConstruct(h, g) == Stillborn(h) /\ ReadFrom(h, g, "copy")
CopyAssign(h, g) == Mine(h) /\ ReadFrom(h, g, "assign")

\* ... and m_control_block_ptr->increment(), if there is one; an assignment then
\* swaps, and the temporary releases what the handle had.
Increment(h) ==
    /\ fault = "none"
    /\ pc[h] \in {"copy", "assign"}
    /\ LET b == tmp[h].cb
       IN  IF b = Null THEN UNCHANGED <<block, fault>>
           ELSE IF block[b].state = "live"
           THEN /\ block' = [block EXCEPT ![b].count = Incremented(@)]
                /\ UNCHANGED fault
           ELSE fault' = "use after free" /\ UNCHANGED block
    /\ Become(h, tmp[h], IF pc[h] = "copy" THEN "ready" ELSE "release")
    /\ tmp' = [tmp EXCEPT ![h] = IF pc[h] = "copy" THEN NoPtr ELSE Ptr(h)]
    /\ then' = [then EXCEPT ![h] = IF pc[h] = "copy" THEN "dead" ELSE "ready"]
    /\ src' = [src EXCEPT ![h] = Null]
    /\ UNCHANGED <<object, abused>>

\* The source of a move: std::exchange(..., nullptr)
NotEmptied(f, g) == f
Emptied(f, g) == [f EXCEPT ![g] = Null]

MoveConstruct(h, g) ==
    /\ Stillborn(h) /\ Mine(g) /\ SameClass(h, g)
    /\ raw' = [Emptied(raw, g) EXCEPT ![h] = raw[g]]
    /\ cb' = [Emptied(cb, g) EXCEPT ![h] = cb[g]]
    /\ pc' = [pc EXCEPT ![h] = "ready"]
    /\ UNCHANGED <<tmp, src, then, heap, fault, abused>>

\* h = std::move(g): moved into a temporary, swapped, and the temporary released;
\* with h and g the same handle it gets back what it had.
MoveAssign(h, g) ==
    /\ Mine(h) /\ Mine(g) /\ SameClass(h, g)
    /\ raw' = [Emptied(raw, g) EXCEPT ![h] = raw[g]]
    /\ cb' = [Emptied(cb, g) EXCEPT ![h] = cb[g]]
    /\ tmp' = [tmp EXCEPT ![h] = IF h = g THEN NoPtr ELSE Ptr(h)]
    /\ then' = [then EXCEPT ![h] = "ready"]
    /\ pc' = [pc EXCEPT ![h] = "release"]
    /\ UNCHANGED <<src, heap, fault, abused>>

\* Members of the base class: the two may be of different classes.
Swap(h, g) ==
    /\ Mine(h) /\ Mine(g)
    /\ raw' = [raw EXCEPT ![h] = raw[g], ![g] = raw[h]]
    /\ cb' = [cb EXCEPT ![h] = cb[g], ![g] = cb[h]]
    /\ UNCHANGED <<pc, tmp, src, then, heap, fault, abused>>

-----------------------------------------------------------------------------
(* Release *)

\* ~shared_ptr() of a handle
Destroy(h) ==
    /\ Mine(h)
    /\ tmp' = [tmp EXCEPT ![h] = Ptr(h)]
    /\ then' = [then EXCEPT ![h] = "dead"]
    /\ Become(h, NoPtr, "release")
    /\ UNCHANGED <<src, heap, fault, abused>>

Finish(h) == /\ pc' = [pc EXCEPT ![h] = then[h]]
             /\ then' = [then EXCEPT ![h] = "dead"]
             /\ tmp' = [tmp EXCEPT ![h] = NoPtr]

\* The destructor: nothing for a null pointer, else release_shared's decrement.
Release(h) ==
    /\ fault = "none"
    /\ pc[h] = "release"
    /\ LET b == tmp[h].cb
       IN  IF tmp[h].raw = Null
           THEN Finish(h) /\ UNCHANGED <<block, fault>>
           ELSE IF block[b].state # "live"
           THEN fault' = "use after free" /\ UNCHANGED <<pc, then, tmp, block>>
           ELSE /\ block' = [block EXCEPT ![b].count = Decremented(@)]
                /\ IF Decremented(block[b].count) = 0
                   THEN pc' = [pc EXCEPT ![h] = "last"] /\ UNCHANGED <<then, tmp>>
                   ELSE Finish(h)
                /\ UNCHANGED fault
    /\ UNCHANGED <<raw, cb, src, object, abused>>

\* The count has reached zero: destroy the object, by the deleter or with the block
\* that holds it, and delete the block.  A client's deleter has been dead for long.
DestroyLast(h) ==
    /\ fault = "none"
    /\ pc[h] = "last"
    /\ LET b == tmp[h].cb
           o == IF block[b].m_object = Null THEN tmp[h].raw ELSE block[b].m_object
           d == IF block[b].m_object = Null THEN block[b].deleter ELSE "inside block"
       IN  /\ object' = Destroyed(o)
           /\ fault' = DestroyFault(o, d)
           /\ abused' = (abused \/ Dead(d))
           /\ block' = [block EXCEPT ![b].state = "deleted"]
    /\ Finish(h)
    /\ UNCHANGED <<raw, cb, src>>

-----------------------------------------------------------------------------
(* reset(ptr) of a pointer the handle does not hold *)

\* The places where reset cannot keep its promise: no control block; the last that counts
\* of an empty handle's block, which other empty handles keep; sole owner of an object that
\* lies in its block, or with a client's deleter, or with one that is not the new object's.
CannotReset(h, o) ==
    LET b == cb[h]
    IN  \/ b = Null
        \/ block[b].count = 1
             /\ \/ block[b].m_object # Null
                \/ Dead(block[b].deleter)
                \/ o # Null /\ block[b].deleter # Default(h)
                \/ raw[h] = Null /\ \E g \in Handles \ {h} : cb[g] = b

\* --m_control_block_ptr->m_ref_count, for a new object or for a null pointer
Reset(h, o) ==
    /\ Mine(h) /\ raw[h] # o
    /\ IF o = Null THEN UNCHANGED object ELSE Fresh(o) /\ Born(o, Default(h))
    /\ abused' = (abused \/ CannotReset(h, o))
    /\ tmp' = [tmp EXCEPT ![h] = [raw |-> o, cb |-> Null]]
    /\ LET b == cb[h]
       IN  IF b = Null
           THEN fault' = "null control block" /\ UNCHANGED <<pc, block>>
           ELSE IF block[b].state # "live"
           THEN fault' = "use after free" /\ UNCHANGED <<pc, block>>
           ELSE /\ block' = [block EXCEPT ![b].count = Decremented(@)]
                /\ pc' = [pc EXCEPT ![h] = IF Decremented(block[b].count) = 0
                                           THEN "reset sole" ELSE "reset shared"]
                /\ UNCHANGED fault
    /\ UNCHANGED <<raw, cb, src, then>>

\* The old object goes by its deleter, which is called for a null pointer too; the block
\* and the deleter are kept for the new object, or for none.
StoreNothing(n) == n
StoreOne(n) == 1
ResetSole(h) ==
    /\ fault = "none"
    /\ pc[h] = "reset sole"
    /\ LET b == cb[h]
           o == raw[h]
           d == block[b].deleter
       IN  /\ IF o = Null
              THEN fault' = (IF Dead(d) THEN "dangling deleter" ELSE fault) /\ UNCHANGED object
              ELSE object' = Destroyed(o) /\ fault' = DestroyFault(o, d)
           /\ block' = [block EXCEPT ![b].count = StoreOne(@),
                                     ![b].managed = tmp[h].raw # Null]
    /\ Become(h, [raw |-> tmp[h].raw, cb |-> cb[h]], "ready")
    /\ tmp' = [tmp EXCEPT ![h] = NoPtr]
    /\ UNCHANGED <<src, then, abused>>

\* Other owners remain: a control block of one's own.
ResetShared(h) ==
    /\ fault = "none"
    /\ pc[h] = "reset shared"
    /\ \E b \in Blocks :
          /\ Unused(b) /\ NewBlock(b, 1, Default(h), Null, tmp[h].raw # Null)
          /\ Become(h, [raw |-> tmp[h].raw, cb |-> b], "ready")
    /\ tmp' = [tmp EXCEPT ![h] = NoPtr]
    /\ UNCHANGED <<src, then, object, fault, abused>>

\* It cannot be allocated: the count stays decremented, the handle stays an owner, and
\* the new object stays the caller's.
ResetThrows(h) ==
    /\ fault = "none"
    /\ pc[h] = "reset shared"
    /\ pc' = [pc EXCEPT ![h] = "ready"]
    /\ tmp' = [tmp EXCEPT ![h] = NoPtr]
    /\ abused' = TRUE
    /\ UNCHANGED <<raw, cb, src, then, heap, fault>>

-----------------------------------------------------------------------------
Next ==
    \E h \in Handles :
        \/ ConstructNull(h) \/ MakeSharedNoArgs(h)
        \/ ConstructNullRaw(h) \/ ConstructNullCustom(h)
        \/ \E o \in Objects : \/ ConstructRaw(h, o) \/ ConstructRawThrows(h, o)
                              \/ ConstructCustom(h, o) \/ ConstructCustomThrows(h, o)
                              \/ WrapperThrows(h, o)
                              \/ MakeShared(h, o)
        \/ \E o \in Objects \cup {Null} : Reset(h, o)
        \/ \E g \in Handles : \/ CopyConstruct(h, g) \/ CopyAssign(h, g)
                              \/ MoveConstruct(h, g) \/ MoveAssign(h, g) \/ Swap(h, g)
        \/ Increment(h) \/ Destroy(h) \/ Release(h) \/ DestroyLast(h)
        \/ ResetSole(h) \/ ResetShared(h) \/ ResetThrows(h)

Spec == Init /\ [][Next]_vars

-----------------------------------------------------------------------------
(* Properties *)

Pointers == [raw : Objects \cup {Null}, cb : Blocks \cup {Null}]
Deleters == {"default", "default[]", "custom", "inside block"}
ControlBlocks == [state : {"free", "live", "deleted"}, count : 0..(CountMod - 1),
                  deleter : Deleters, m_object : Objects \cup {Null}, managed : BOOLEAN]
ManagedObjects == [state : {"unborn", "alive", "destroyed"}, deleter : Deleters]

\* Handles, temporaries and blocks refer to what exists; the count wraps.
TypeOK ==
    /\ pc \in [Handles -> {"dead", "ready", "copy", "assign", "release", "last",
                           "reset sole", "reset shared"}]
    /\ raw \in [Handles -> Objects \cup {Null}]
    /\ cb \in [Handles -> Blocks \cup {Null}]
    /\ tmp \in [Handles -> Pointers]
    /\ src \in [Handles -> Handles \cup {Null}]
    /\ then \in [Handles -> {"dead", "ready"}]
    /\ block \in [Blocks -> ControlBlocks]
    /\ object \in [Objects -> ManagedObjects]
    /\ fault \in {"none", "null control block", "use after free", "destroyed twice",
                  "invalid free", "wrong deleter", "dangling deleter"}
    /\ abused \in BOOLEAN

\* The shared_ptrs, temporaries included, that the count of block b stands for.
Owners(b) ==
    {h \in Handles : cb[h] = b /\ raw[h] # Null /\ pc[h] \in {"ready", "copy", "assign", "release", "last"}}
Dropping(b) == {h \in Handles : pc[h] = "release" /\ tmp[h].cb = b /\ tmp[h].raw # Null}
Holding(b) == Owners(b) \cup Dropping(b)

\* The count is exact at every moment of every interleaving: each live block that
\* somebody holds an object through counts its owners and those about to let go.
CountIsOwners ==
    ~abused => \A b \in Blocks :
        block[b].state = "live" /\ Holding(b) # {} =>
            block[b].count = Cardinality(Owners(b)) + Cardinality(Dropping(b))

\* No handle dangles: while a shared_ptr points to an object the object is alive,
\* whatever the other owners copy, drop, swap or reset meanwhile.
NoDangling ==
    ~abused => \A h \in Handles :
        pc[h] \in {"ready", "copy", "assign"} /\ raw[h] # Null =>
            object[raw[h]].state = "alive" /\ block[cb[h]].state = "live"

\* Nothing is undefined but at the places that abused names, the death of a client's
\* deleter among them: no object is destroyed twice or by a deleter that is not its own, no
\* block is used after its deletion.
DefinedUnlessAbused == ~abused => fault = "none"

\* When no handle is left every object has been destroyed, and every control block that
\* managed one to the end has been deleted.  (The blocks of null pointers never are:
\* neither those built empty nor those that reset(nullptr) has left without an object.)
NothingLeft ==
    (~abused /\ \A h \in Handles : pc[h] = "dead") =>
        /\ \A o \in Objects : object[o].state # "alive"
        /\ \A b \in Blocks : block[b].state = "live" => ~block[b].managed
=============================================================================
