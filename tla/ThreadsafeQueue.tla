-------------------------- MODULE ThreadsafeQueue --------------------------
(***************************************************************************)
(* dev::threadsafe_queue (src/core/concurrency/threadsafe_queue.h): an     *)
(* unbounded queue behind one mutex and one condition variable.            *)
(*                                                                         *)
(* The threads make a bounded number of calls.  The body of a critical     *)
(* section is one step: no other thread reads m_queue meanwhile, and a     *)
(* thread that tries the lock sees it taken before and after.  What lies   *)
(* outside the lock is a step of its own: asking for the mutex, the gap    *)
(* between unlock and notify_one, sleeping, waking, asking again.          *)
(***************************************************************************)
EXTENDS Naturals, Sequences, FiniteSets

CONSTANTS Producers,    \* threads that push
          Consumers,    \* threads that pop and look
          Nobody,       \* the mutex is free
          MayThrow,     \* what may throw: "copy" (or an allocation), "move"
          MaxCalls,     \* bound on the calls of all threads together
          MaxSpurious   \* bound on the spurious wakeups of a behaviour

Threads == Producers \cup Consumers

ASSUME ThreadsAssumption == IsFiniteSet(Threads) /\ Nobody \notin Threads
ASSUME BoundsAssumption == MaxCalls \in Nat /\ MaxSpurious \in Nat
ASSUME ThrowAssumption == MayThrow \subseteq {"copy", "move"}

TryOps == {"try_push", "try_pop"}
PushOps == {"push", "try_push"}            \* emplace differs from push in nothing
PopOps == {"pop", "try_pop"}               \* but where the element is built
LookOps == {"empty", "front", "look"}      \* look: back, size, being copied

VARIABLES
    m_queue,    \* the elements, oldest first
    m_mutex,    \* its holder, or Nobody
    not_empty,  \* the threads asleep on not_empty_
    pc,         \* per thread: "idle", "lock", "locked", "notify", "asleep", "awake"
    op,         \* per thread, the operation under way or last done
    calls,      \* per thread, the calls made
    made,       \* the calls made by all threads together
    told,       \* per consumer, whether its last empty() said that there are elements and
                \* no element has left since: "no", "yes", "stale"
    spurious,   \* spurious wakeups so far
    popped,     \* history: elements returned by the pops, in order of removal
    lost,       \* history: how many pops have thrown after removing their element
    abandoned   \* history: how many pops have thrown and left their element behind

thread == <<op, calls, made>>
history == <<popped, lost, abandoned>>
vars == <<m_queue, m_mutex, not_empty, pc, thread, told, spurious, history>>

Init ==
    /\ m_queue = <<>>
    /\ m_mutex = Nobody
    /\ not_empty = {}
    /\ pc = [t \in Threads |-> "idle"]
    /\ op = [t \in Threads |-> "look"]
    /\ calls = [t \in Threads |-> 0] /\ made = 0
    /\ told = [t \in Consumers |-> "no"]
    /\ spurious = 0
    /\ popped = <<>> /\ lost = 0 /\ abandoned = 0

-----------------------------------------------------------------------------
Allowed(t) ==
    (IF t \in Producers THEN PushOps ELSE {}) \cup
    (IF t \in Consumers THEN PopOps \cup LookOps ELSE {})

\* A client begins one of the operations it uses.  It calls front() only after an
\* empty() that returned false.
Call(t, o) ==
    /\ pc[t] = "idle"
    /\ made < MaxCalls
    /\ o \in Allowed(t)
    /\ o = "front" => told[t] # "no"
    /\ op' = [op EXCEPT ![t] = o]
    /\ pc' = [pc EXCEPT ![t] = "lock"]
    /\ calls' = [calls EXCEPT ![t] = @ + 1] /\ made' = made + 1
    /\ UNCHANGED <<m_queue, m_mutex, not_empty, told, spurious, history>>

\* Whether the mutex can be taken.
LockIgnored(holder) == TRUE
Free(holder) == holder = Nobody

\* std::unique_lock, or the relocking at the end of a wait.
Lock(t) ==
    /\ pc[t] \in {"lock", "awake"}
    /\ Free(m_mutex)
    /\ m_mutex' = t
    /\ pc' = [pc EXCEPT ![t] = "locked"]
    /\ UNCHANGED <<m_queue, not_empty, thread, told, spurious, history>>

\* std::try_to_lock fails when the mutex is held, and is allowed to fail anyhow.
TryLockFails(t) ==
    /\ pc[t] = "lock"
    /\ op[t] \in TryOps
    /\ pc' = [pc EXCEPT ![t] = "idle"]
    /\ UNCHANGED <<m_queue, m_mutex, not_empty, thread, told, spurious, history>>

\* Leave the critical section and go on at the given place.
UnlockForgotten(t, where) ==
    /\ pc[t] = "locked"
    /\ pc' = [pc EXCEPT ![t] = where]
    /\ UNCHANGED m_mutex
Unlock(t, where) ==
    /\ pc[t] = "locked"
    /\ m_mutex' = Nobody
    /\ pc' = [pc EXCEPT ![t] = where]

\* The argument of the push under way: every push has an element of its own.
Item(t) == <<t, calls[t]>>
Values == Producers \X (1..MaxCalls)

\* m_queue.push(item); unique_lck.unlock()
PushItem(t) ==
    /\ op[t] \in PushOps
    /\ Unlock(t, "notify")
    /\ m_queue' = Append(m_queue, Item(t))
    /\ UNCHANGED <<not_empty, thread, told, spurious, history>>

\* Copying the element or growing the deque throws: the queue is as it was.
PushThrows(t) ==
    /\ "copy" \in MayThrow
    /\ op[t] \in PushOps
    /\ Unlock(t, "idle")
    /\ UNCHANGED <<m_queue, not_empty, thread, told, spurious, history>>

\* Whom notify_one wakes: one sleeper if there is any.
WakesNobody(sleepers) == {{}}
WakesOne(sleepers) == IF sleepers = {} THEN {{}} ELSE {{t} : t \in sleepers}

\* not_empty_.notify_one(), after the unlock
Notify(t) ==
    /\ pc[t] = "notify"
    /\ \E woken \in WakesOne(not_empty) :
          /\ not_empty' = not_empty \ woken
          /\ pc' = [u \in Threads |-> IF u = t THEN "idle"
                                      ELSE IF u \in woken THEN "awake" ELSE pc[u]]
    /\ UNCHANGED <<m_queue, m_mutex, thread, told, spurious, history>>

\* The predicate of the wait: may the popper go on?
HasElement(t) == m_queue # <<>>

\* The predicate is false: unlock and fall asleep in one step.
PopWaits(t) ==
    /\ op[t] = "pop"
    /\ ~HasElement(t)
    /\ Unlock(t, "asleep")
    /\ not_empty' = not_empty \cup {t}
    /\ UNCHANGED <<m_queue, thread, told, spurious, history>>

SpuriousWakeup(t) ==
    /\ pc[t] = "asleep"
    /\ spurious < MaxSpurious
    /\ spurious' = spurious + 1
    /\ not_empty' = not_empty \ {t}
    /\ pc' = [pc EXCEPT ![t] = "awake"]
    /\ UNCHANGED <<m_queue, m_mutex, thread, told, history>>

\* if (!unique_lck || m_queue.empty()) return std::nullopt
TryPopEmpty(t) ==
    /\ op[t] = "try_pop"
    /\ m_queue = <<>>
    /\ Unlock(t, "idle")
    /\ UNCHANGED <<m_queue, not_empty, thread, told, spurious, history>>

Back(q) == q[Len(q)]
Front(q) == Head(q)

\* item = m_queue.front(); m_queue.pop(); return item.  What the others were told is
\* stale now, and t has to ask again.
PopItem(t) ==
    /\ op[t] \in PopOps
    /\ HasElement(t)
    /\ Unlock(t, "idle")
    /\ popped' = Append(popped, Front(m_queue))
    /\ m_queue' = Tail(m_queue)
    /\ told' = [u \in Consumers |-> IF u = t \/ told[u] = "no" THEN "no" ELSE "stale"]
    /\ UNCHANGED <<not_empty, thread, spurious, lost, abandoned>>

\* item = m_queue.front() throws: the front stays (an assignment that throws leaves its
\* source as it was), and whoever was notified of it is gone.
PoppedBeforehand(q) == Tail(q)
AfterThrow(q) == q
PopThrows(t) ==
    /\ "copy" \in MayThrow
    /\ op[t] \in PopOps
    /\ HasElement(t)
    /\ Unlock(t, "idle")
    /\ abandoned' = IF op[t] = "pop" THEN abandoned + 1 ELSE abandoned
    /\ m_queue' = AfterThrow(m_queue)
    /\ UNCHANGED <<not_empty, thread, told, spurious, popped, lost>>

\* return item moves it into the result, an optional<T> in try_pop, after m_queue.pop().
\* When that move throws nobody gets the element, and what any consumer was told,
\* t included, is stale.
PopLoses(t) ==
    /\ "move" \in MayThrow
    /\ op[t] \in PopOps
    /\ HasElement(t)
    /\ Unlock(t, "idle")
    /\ m_queue' = Tail(m_queue)
    /\ lost' = lost + 1
    /\ told' = [u \in Consumers |-> IF told[u] = "no" THEN "no" ELSE "stale"]
    /\ UNCHANGED <<not_empty, thread, spurious, popped, abandoned>>

\* front, back, empty, size, and the copy constructor on the other queue's side.  A
\* front() that meets an empty queue reads an element that is no longer there.
Look(t) ==
    /\ op[t] \in LookOps
    /\ Unlock(t, "idle")
    /\ told' = IF op[t] # "empty" THEN told
               ELSE [told EXCEPT ![t] = IF m_queue = <<>> THEN "no" ELSE "yes"]
    /\ UNCHANGED <<m_queue, not_empty, thread, spurious, history>>

\* No call is left to make: a pop may sleep on an empty queue for ever, and beside
\* elements only if some pop has left its element behind.
Quiescent ==
    /\ made = MaxCalls
    /\ \A t \in Threads : \/ pc[t] = "idle"
                          \/ pc[t] = "asleep" /\ (m_queue = <<>> \/ abandoned > 0)
    /\ UNCHANGED vars

Work(t) ==
    \/ PushItem(t) \/ PushThrows(t) \/ Notify(t)
    \/ PopWaits(t) \/ TryPopEmpty(t) \/ PopItem(t)
    \/ PopThrows(t) \/ PopLoses(t) \/ Look(t)

Next ==
    \/ \E t \in Threads :
          \/ \E o \in Allowed(t) : Call(t, o)
          \/ Lock(t) \/ TryLockFails(t) \/ SpuriousWakeup(t) \/ Work(t)
    \/ Quiescent

Spec == Init /\ [][Next]_vars

(***************************************************************************)
(* A thread inside a call keeps running, and a free mutex is granted to    *)
(* one of the threads that ask for it, not to a particular one.  Nothing   *)
(* makes a client call, or a sleeper wake by itself.                       *)
(***************************************************************************)
FairSpec ==
    /\ Spec
    /\ \A t \in Threads : WF_vars(Work(t))
    /\ WF_vars(\E t \in Threads : Lock(t))

-----------------------------------------------------------------------------
(* Properties *)

At(where) == {t \in Threads : pc[t] \in where}

\* One thread at a time is between lock and unlock, and the mutex says which; a
\* thread is asleep exactly while the condition variable has it, so that no wakeup
\* goes to a thread that is not there.
MutualExclusion ==
    /\ \A t \in Threads : pc[t] = "locked" <=> m_mutex = t
    /\ not_empty = At({"asleep"})
    /\ \A t \in Threads : pc[t] \in {"asleep", "awake"} => op[t] = "pop"

\* The poppers that will look at the queue before they sleep.
Alert == {t \in Threads : op[t] = "pop" /\ pc[t] \in {"lock", "locked", "awake"}}

\* No wakeup is lost: while a pop sleeps, each element of the queue has a notify_one
\* still to come or a popper on its way to the lock.  The only wakeups wasted are those
\* of pops that threw and left their element: one element each may be unannounced.
NoLostWakeup ==
    not_empty # {} =>
        Len(m_queue) <= Cardinality(At({"notify"})) + Cardinality(Alert) + abandoned

\* What the queue promises to all its clients together; it has no capacity, so the
\* bound is the number of calls there can be.
Abstract == INSTANCE BoundedFifo
                WITH Bound <- MaxCalls, queue <- m_queue, delivered <- popped

\* Elements come out in the order of the pushes' critical sections, none twice, whoever
\* pops, sleeps, steals or fails meanwhile, and each comes out: only a pop that throws on
\* return costs an element, the front one (lost counts these), other exceptions none.
RefinesFifo == Abstract!Spec

\* A consumer that was told that the queue is not empty finds an element at its front(),
\* unless a pop has removed one since, by returning it or by throwing on return: pushes
\* and pops that failed before that have taken nothing.
FrontDefined ==
    \A t \in Consumers :
        (pc[t] = "locked" /\ op[t] = "front" /\ m_queue = <<>>) => told[t] = "stale"

\* A pop that sleeps while there are elements is woken, or others take them all, unless
\* a pop has thrown, left its element and taken the wakeup with it.
NoElementStranded ==
    \A t \in Threads : (pc[t] = "asleep" /\ m_queue # <<>>)
                          ~> (pc[t] # "asleep" \/ m_queue = <<>> \/ abandoned > 0)

\* Every call that may not block returns.
CallsReturn ==
    \A t \in Threads : (pc[t] # "idle" /\ op[t] # "pop") ~> pc[t] = "idle"
=============================================================================
