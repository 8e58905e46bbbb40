-------------------------- MODULE ThreadsafeStack --------------------------
(***************************************************************************)
(* dev::threadsafe_stack (src/core/concurrency/threadsafe_stack.h): stacks *)
(* behind one std::shared_mutex each.  Writers take it alone, readers      *)
(* share it; swap and == take the mutexes of two stacks with               *)
(* std::scoped_lock, which locks one, tries the other, and on failure lets *)
(* go and starts again.                                                    *)
(*                                                                         *)
(* Reading a stack has a beginning and an end, and a swap has a middle, so *)
(* that a lock that does not exclude would show.                           *)
(***************************************************************************)
EXTENDS Naturals, Sequences, FiniteSets

CONSTANTS Stacks,     \* the stacks
          Threads,    \* their users
          Nobody,     \* no writer
          MayThrow,   \* what may throw: "copy" (or an allocation), "move"
          MaxCalls    \* bound on the calls of all threads together

ASSUME ThreadsAssumption == IsFiniteSet(Threads) /\ Nobody \notin Threads
ASSUME BoundAssumption == MaxCalls \in Nat /\ MayThrow \subseteq {"copy", "move"}

WriteOps == {"push", "pop"}
ReadOps == {"look"}               \* top, empty, size, and copying a stack
PairOps == {"swap", "equal"}

Values == Threads \X (1..MaxCalls)

VARIABLES
    m_stack,    \* per stack, its elements, the top last
    writer,     \* per stack, who holds its mutex exclusively
    readers,    \* per stack, who shares it
    pc,         \* per thread: "idle", "lock", "pair", "write", "read", "half"
    op,         \* per thread, the operation under way or last done
    args,       \* per thread, the one or two stacks it is about, none before a call
    saw,        \* per thread, what it has read so far, or std::swap's temporary
    calls,      \* per thread, the calls made
    made,       \* the calls made by all threads together
    popped,     \* history: the elements popped, from whichever stack
    lost        \* history: how many pops have thrown after removing their element

call == <<op, args, calls, made>>
history == <<popped, lost>>
vars == <<m_stack, writer, readers, pc, call, saw, history>>

Init ==
    /\ m_stack = [s \in Stacks |-> <<>>]
    /\ writer = [s \in Stacks |-> Nobody]
    /\ readers = [s \in Stacks |-> {}]
    /\ pc = [t \in Threads |-> "idle"]
    /\ op = [t \in Threads |-> "look"]
    /\ args = [t \in Threads |-> <<>>]
    /\ saw = [t \in Threads |-> <<>>]
    /\ calls = [t \in Threads |-> 0] /\ made = 0
    /\ popped = <<>> /\ lost = 0

-----------------------------------------------------------------------------
(* Locking *)

Begin(t, o, stacks) ==
    /\ pc[t] = "idle"
    /\ made < MaxCalls
    /\ op' = [op EXCEPT ![t] = o]
    /\ args' = [args EXCEPT ![t] = stacks]
    /\ calls' = [calls EXCEPT ![t] = @ + 1] /\ made' = made + 1
    /\ pc' = [pc EXCEPT ![t] = "lock"]
    /\ UNCHANGED <<m_stack, writer, readers, saw, history>>

\* A pair of two different stacks: locking one mutex twice is undefined.
Call(t) ==
    \/ \E o \in WriteOps \cup ReadOps, s \in Stacks : Begin(t, o, <<s>>)
    \/ \E o \in PairOps, s \in Stacks : \E u \in Stacks \ {s} : Begin(t, o, <<s, u>>)

FreeOfWriters(s) == writer[s] = Nobody
FreeForReader(s) == writer[s] = Nobody
FreeForWriter(s) == writer[s] = Nobody /\ readers[s] = {}

\* std::unique_lock
LockExclusive(t) ==
    /\ pc[t] = "lock" /\ op[t] \in WriteOps
    /\ FreeForWriter(args[t][1])
    /\ writer' = [writer EXCEPT ![args[t][1]] = t]
    /\ pc' = [pc EXCEPT ![t] = "write"]
    /\ UNCHANGED <<m_stack, readers, call, saw, history>>

\* std::shared_lock, and the beginning of what it protects
LockShared(t) ==
    /\ pc[t] = "lock" /\ op[t] \in ReadOps
    /\ FreeForReader(args[t][1])
    /\ readers' = [readers EXCEPT ![args[t][1]] = @ \cup {t}]
    /\ saw' = [saw EXCEPT ![t] = m_stack[args[t][1]]]
    /\ pc' = [pc EXCEPT ![t] = "read"]
    /\ UNCHANGED <<m_stack, writer, call, history>>

\* std::scoped_lock of two: lock either of them first...
LockFirst(t) ==
    /\ pc[t] = "lock" /\ op[t] \in PairOps
    /\ \E s \in {args[t][1], args[t][2]} :
          /\ FreeForWriter(s)
          /\ writer' = [writer EXCEPT ![s] = t]
    /\ pc' = [pc EXCEPT ![t] = "pair"]
    /\ UNCHANGED <<m_stack, readers, call, saw, history>>

SecondHeld(t) == CHOOSE s \in {args[t][1], args[t][2]} : writer[s] = t
Second(t) == CHOOSE s \in {args[t][1], args[t][2]} : writer[s] # t

\* ...then try_lock the other...
TryLockSecond(t) ==
    /\ pc[t] = "pair"
    /\ FreeForWriter(Second(t))
    /\ writer' = [writer EXCEPT ![Second(t)] = t]
    /\ saw' = [saw EXCEPT ![t] = m_stack[args[t][1]]]
    /\ pc' = [pc EXCEPT ![t] = IF op[t] = "swap" THEN "write" ELSE "read"]
    /\ UNCHANGED <<m_stack, readers, call, history>>

\* What a back-off lets go of.
KeptBy(t) == writer
ReleasedBy(t) == [s \in Stacks |-> IF writer[s] = t THEN Nobody ELSE writer[s]]

\* ...and when that fails release the first and start again.
BackOff(t) ==
    /\ pc[t] = "pair"
    /\ ~FreeForWriter(Second(t))
    /\ writer' = ReleasedBy(t)
    /\ pc' = [pc EXCEPT ![t] = "lock"]
    /\ UNCHANGED <<m_stack, readers, call, saw, history>>

\* The locks' destructors.  What the thread has read is dropped with its frame.
Return(t) ==
    /\ writer' = [s \in Stacks |-> IF writer[s] = t THEN Nobody ELSE writer[s]]
    /\ readers' = [s \in Stacks |-> readers[s] \ {t}]
    /\ saw' = [saw EXCEPT ![t] = <<>>]
    /\ pc' = [pc EXCEPT ![t] = "idle"]
    /\ UNCHANGED call

-----------------------------------------------------------------------------
(* What the operations do under their locks *)

\* Every push has an element of its own.
Item(t) == <<t, calls[t]>>

Push(t) ==
    /\ pc[t] = "write" /\ op[t] = "push"
    /\ m_stack' = [m_stack EXCEPT ![args[t][1]] = Append(@, Item(t))]
    /\ Return(t)
    /\ UNCHANGED history

\* m_stack.top() and m_stack.pop()
Bottom(s) == s[1]
Top(s) == s[Len(s)]
Shorter(s) == SubSeq(s, 1, Len(s) - 1)

Pop(t) ==
    /\ pc[t] = "write" /\ op[t] = "pop"
    /\ LET s == m_stack[args[t][1]]
       IN  IF s = <<>>
           THEN UNCHANGED <<m_stack, history>>      \* return std::nullopt
           ELSE /\ popped' = Append(popped, Top(s))
                /\ m_stack' = [m_stack EXCEPT ![args[t][1]] = Shorter(s)]
                /\ UNCHANGED lost
    /\ Return(t)

\* Pushing the element, or element = m_stack.top(), throws: the lock is released and
\* nothing has changed (an assignment that throws leaves its source as it was).
Throws(t) ==
    /\ "copy" \in MayThrow
    /\ pc[t] = "write" /\ op[t] \in WriteOps
    /\ op[t] = "pop" => m_stack[args[t][1]] # <<>>
    /\ Return(t)
    /\ UNCHANGED <<m_stack, history>>

\* return element moves it into the optional<T> after m_stack.pop().  When that throws
\* nobody gets the element.
PopLoses(t) ==
    /\ "move" \in MayThrow
    /\ pc[t] = "write" /\ op[t] = "pop"
    /\ LET s == m_stack[args[t][1]]
       IN  s # <<>> /\ m_stack' = [m_stack EXCEPT ![args[t][1]] = Shorter(s)]
    /\ lost' = lost + 1
    /\ Return(t)
    /\ UNCHANGED popped

\* std::swap(m_stack, other.m_stack): with one of the stacks in a temporary...
SwapHalf(t) ==
    /\ pc[t] = "write" /\ op[t] = "swap"
    /\ m_stack' = [m_stack EXCEPT ![args[t][1]] = m_stack[args[t][2]]]
    /\ pc' = [pc EXCEPT ![t] = "half"]
    /\ UNCHANGED <<writer, readers, call, saw, history>>

\* ...and then into place.
SwapRest(t) ==
    /\ pc[t] = "half"
    /\ m_stack' = [m_stack EXCEPT ![args[t][2]] = saw[t]]
    /\ Return(t)
    /\ UNCHANGED history

\* The end of top, empty, size, a copy, or a comparison
Look(t) ==
    /\ pc[t] = "read"
    /\ Return(t)
    /\ UNCHANGED <<m_stack, history>>

Finished ==
    /\ made = MaxCalls /\ \A t \in Threads : pc[t] = "idle"
    /\ UNCHANGED vars

Acquire(t) == LockExclusive(t) \/ LockShared(t) \/ LockFirst(t)
Work(t) ==
    \/ BackOff(t)
    \/ Push(t) \/ Pop(t) \/ Throws(t) \/ PopLoses(t)
    \/ SwapHalf(t) \/ SwapRest(t) \/ Look(t)

Next ==
    \/ \E t \in Threads : Call(t) \/ Acquire(t) \/ TryLockSecond(t) \/ Work(t)
    \/ Finished

Spec == Init /\ [][Next]_vars

(***************************************************************************)
(* A thread inside a call keeps running, and of the threads that wait for  *)
(* free mutexes one goes on.  std::lock does not exclude that two swaps    *)
(* take one mutex each and back off in step for ever; it relies on the     *)
(* scheduler to break the step, which is the strong fairness: a thread     *)
(* that finds its second mutex free again and again gets it once.          *)
(***************************************************************************)
FairSpec ==
    /\ Spec
    /\ \A t \in Threads : WF_vars(Work(t)) /\ SF_vars(TryLockSecond(t))
    /\ WF_vars(\E t \in Threads : Acquire(t))

-----------------------------------------------------------------------------
(* Properties *)

\* What top, a copy or a comparison has begun to read stays as it is until the call
\* has ended: no writer, and no half of a swap, gets between.
StableRead ==
    \A t \in Threads :
        pc[t] = "read" \/ (pc[t] = "write" /\ op[t] = "swap")
            => saw[t] = m_stack[args[t][1]]

\* A thread that waits for a mutex holds none: what keeps swap(a, b) and swap(b, a)
\* from waiting on each other.
NoHoldAndWait ==
    \A t \in Threads, s \in Stacks :
        pc[t] \in {"idle", "lock"} => writer[s] # t /\ t \notin readers[s]

\* The thread, if any, that is between the halves of a swap with rhs s.
HalfSwapped(s) == {t \in Threads : pc[t] = "half" /\ args[t][2] = s}

\* A swap takes effect with its first half: the second stack is in the temporary.
Logical ==
    [s \in Stacks |-> IF HalfSwapped(s) = {} THEN m_stack[s]
                      ELSE saw[CHOOSE t \in HalfSwapped(s) : TRUE]]

Abstract == INSTANCE AtomicStacks WITH stacks <- Logical, removed <- popped

\* Push, pop and swap are atomic: no element is doubled or moved to the wrong stack,
\* however the calls interleave.  Only a pop that throws on return costs an element, the
\* top of its stack (lost counts these); any other call that throws changes nothing.
RefinesAtomicStacks == Abstract!Spec

\* Every call returns: no deadlock between swaps, comparisons, readers and writers.
CallsReturn == \A t \in Threads : (pc[t] # "idle") ~> (pc[t] = "idle")
=============================================================================
