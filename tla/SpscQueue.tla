----------------------------- MODULE SpscQueue -----------------------------
(***************************************************************************)
(* dev::spsc_queue (src/core/lock_free/spsc_queue.h): a ring buffer shared *)
(* by one producer thread and one consumer thread, without a lock.         *)
(*                                                                         *)
(* The memory model is C++'s.  Each atomic index is its modification       *)
(* order, a sequence of stores; the thread that owns the index reads the   *)
(* last one, the other thread any one not older than the one it read       *)
(* before.  A store carries the clock of its thread: how many of that      *)
(* thread's slot accesses are visible to whoever reads it with acquire.    *)
(* The slots themselves are plain objects: two accesses that no            *)
(* release/acquire pair orders are a data race.                            *)
(***************************************************************************)
EXTENDS Integers, Sequences

CONSTANTS Capacity,   \* m_capacity, 1 << N
          Values,     \* the elements
          Vacant,     \* a default-constructed, moved-from or half-written slot
          MayThrow,   \* whether an assignment of T may throw
          MaxPush     \* bound on the accepted pushes of a behaviour

ASSUME CapacityAssumption == Capacity \in Nat \ {0}
ASSUME PowerOfTwo == \E n \in 0..Capacity : Capacity = 2 ^ n
ASSUME ValuesAssumption == Vacant \notin Values /\ MayThrow \in BOOLEAN
ASSUME BoundAssumption == MaxPush \in Nat

Slots == 0..(Capacity - 1)

VARIABLES
    m_buffer,       \* the slots
    m_write_index,  \* modification order of the atomic: records [value, clock]
    m_read_index,   \* the same for the consumer's index
    p_pc,           \* producer: "idle", "write" (admitted), "publish" (slot written)
    element,        \* the argument of the try_push under way
    write_index,    \* its local of the same name
    p_seen,         \* position in m_read_index of the producer's last load
    p_known,        \* consumer accesses that happen before the producer's next step
    c_pc,           \* consumer: "idle", "take", "publish"
    read_index,     \* local of try_pop
    result,         \* local of try_pop
    c_seen,         \* position in m_write_index of the consumer's last load
    c_known,        \* producer accesses that happen before the consumer's next step
    last_write,     \* per slot, the number of the producer's last access to it
    last_take,      \* per slot, the number of the consumer's last access to it
    pushed,         \* history: elements whose try_push has published
    popped          \* history: elements that try_pop has returned

producer == <<p_pc, element, write_index, p_seen, p_known>>
consumer == <<c_pc, read_index, result, c_seen, c_known>>
memory   == <<m_buffer, last_write, last_take>>
indices  == <<m_write_index, m_read_index>>
history  == <<pushed, popped>>
vars == <<producer, consumer, memory, indices, history>>

-----------------------------------------------------------------------------
(* Helpers, each preceded by the mutated forms the project checks it against. *)

NextIndexNoMask(i) == i + 1
NextIndex(i) == (i + 1) % Capacity        \* & (m_capacity - 1), a power of two

\* The clock a store of one's n-th access carries; a relaxed store carries none.
RelaxedStore(n) == 0
Released(n) == n

\* What a thread knows after a load that read a store of the given clock.
Acquired(known, clock) == IF clock > known THEN clock ELSE known

StoreOf(value, n) == [value |-> value, clock |-> Released(n)]
Last(mo) == mo[Len(mo)]

\* How many slots i has to advance to reach j round the ring.
Dist(i, j) == IF i <= j THEN j - i ELSE Capacity - i + j

Init ==
    /\ m_buffer = [s \in Slots |-> Vacant]
    /\ m_write_index = <<StoreOf(0, 0)>>
    /\ m_read_index = <<StoreOf(0, 0)>>
    /\ p_pc = "idle" /\ element = Vacant /\ write_index = 0
    /\ p_seen = 1 /\ p_known = 0
    /\ c_pc = "idle" /\ read_index = 0 /\ result = Vacant
    /\ c_seen = 1 /\ c_known = 0
    /\ last_write = [s \in Slots |-> 0]
    /\ last_take = [s \in Slots |-> 0]
    /\ pushed = <<>> /\ popped = <<>>

-----------------------------------------------------------------------------
(* try_push *)

\* The full test: one slot stays empty.
FullOffByOne(w, r) == w = r
FullNever(w, r) == FALSE
Full(w, r) == NextIndex(w) = r

\* The acquire load of m_read_index reads its k-th store.
LoadReadIndex(k) ==
    /\ p_pc = "idle"
    /\ k \in p_seen..Len(m_read_index)
    /\ p_seen' = k
    /\ p_known' = Acquired(p_known, m_read_index[k].clock)

TryPushRefused(k) ==
    /\ LoadReadIndex(k)
    /\ Full(Last(m_write_index).value, m_read_index[k].value)
    /\ UNCHANGED <<p_pc, element, write_index, consumer, memory, indices, history>>

TryPushAdmitted(v, k) ==
    /\ Len(pushed) < MaxPush
    /\ LoadReadIndex(k)
    /\ ~Full(Last(m_write_index).value, m_read_index[k].value)
    /\ p_pc' = "write"
    /\ element' = v
    /\ write_index' = Last(m_write_index).value
    /\ UNCHANGED <<consumer, memory, indices, history>>

\* m_buffer[write_index] = std::forward<U>(element)
PushWrite ==
    /\ p_pc = "write"
    /\ p_pc' = "publish"
    /\ m_buffer' = [m_buffer EXCEPT ![write_index] = element]
    /\ last_write' = [last_write EXCEPT ![write_index] = Len(m_write_index)]
    /\ UNCHANGED <<element, write_index, p_seen, p_known, consumer, last_take,
                   indices, history>>

\* The assignment throws: the exception leaves try_push before the store.
PushThrows ==
    /\ MayThrow
    /\ p_pc = "write"
    /\ p_pc' = "idle"
    /\ m_buffer' = [m_buffer EXCEPT ![write_index] = Vacant]
    /\ last_write' = [last_write EXCEPT ![write_index] = Len(m_write_index)]
    /\ UNCHANGED <<element, write_index, p_seen, p_known, consumer, last_take,
                   indices, history>>

\* m_write_index.store(next_write_index, release); return true
PushPublish ==
    /\ p_pc = "publish"
    /\ p_pc' = "idle"
    /\ m_write_index' =
         Append(m_write_index, StoreOf(NextIndex(write_index), Len(m_write_index)))
    /\ pushed' = Append(pushed, element)
    /\ UNCHANGED <<element, write_index, p_seen, p_known, consumer, memory,
                   m_read_index, popped>>

-----------------------------------------------------------------------------
(* try_pop *)

EmptyNever(r, w) == FALSE
EmptyOffByOne(r, w) == NextIndex(r) = w \/ r = w
Empty(r, w) == r = w

LoadWriteIndex(k) ==
    /\ c_pc = "idle"
    /\ k \in c_seen..Len(m_write_index)
    /\ c_seen' = k
    /\ c_known' = Acquired(c_known, m_write_index[k].clock)

TryPopEmpty(k) ==
    /\ LoadWriteIndex(k)
    /\ Empty(Last(m_read_index).value, m_write_index[k].value)
    /\ UNCHANGED <<c_pc, read_index, result, producer, memory, indices, history>>

TryPopAdmitted(k) ==
    /\ LoadWriteIndex(k)
    /\ ~Empty(Last(m_read_index).value, m_write_index[k].value)
    /\ c_pc' = "take"
    /\ read_index' = Last(m_read_index).value
    /\ UNCHANGED <<result, producer, memory, indices, history>>

\* result = std::move(m_buffer[read_index])
PopTake ==
    /\ c_pc = "take"
    /\ c_pc' = "publish"
    /\ result' = m_buffer[read_index]
    /\ m_buffer' = [m_buffer EXCEPT ![read_index] = Vacant]
    /\ last_take' = [last_take EXCEPT ![read_index] = Len(m_read_index)]
    /\ UNCHANGED <<read_index, c_seen, c_known, producer, last_write, indices, history>>

\* The move throws and leaves its source as it was: the index is not advanced.
PopThrows ==
    /\ MayThrow
    /\ c_pc = "take"
    /\ c_pc' = "idle"
    /\ last_take' = [last_take EXCEPT ![read_index] = Len(m_read_index)]
    /\ UNCHANGED <<read_index, result, c_seen, c_known, producer, m_buffer,
                   last_write, indices, history>>

\* m_read_index.store(next, release); return result
PopPublish ==
    /\ c_pc = "publish"
    /\ c_pc' = "idle"
    /\ m_read_index' =
         Append(m_read_index, StoreOf(NextIndex(read_index), Len(m_read_index)))
    /\ popped' = Append(popped, result)
    /\ UNCHANGED <<read_index, result, c_seen, c_known, producer, memory,
                   m_write_index, pushed>>

-----------------------------------------------------------------------------
TryPush ==
    \/ \E k \in 1..Len(m_read_index) :
          TryPushRefused(k) \/ \E v \in Values : TryPushAdmitted(v, k)
    \/ PushWrite \/ PushThrows \/ PushPublish

TryPop ==
    \/ \E k \in 1..Len(m_write_index) : TryPopEmpty(k) \/ TryPopAdmitted(k)
    \/ PopTake \/ PopThrows \/ PopPublish

Next == TryPush \/ TryPop

Spec == Init /\ [][Next]_vars

(***************************************************************************)
(* The clients keep calling, each call runs to its end, and a store        *)
(* becomes visible to the other thread in finite time                      *)
(* (the C++ standard, [intro.progress]): a load that could read the latest *)
(* store forever does read it.  An assignment that throws and is tried     *)
(* again and again does not throw for ever: the strong fairness.           *)
(***************************************************************************)
ConsumerFairness ==
    /\ WF_vars(TryPopAdmitted(Len(m_write_index)))
    /\ SF_vars(PopTake)
    /\ WF_vars(PopPublish)

ProducerFairness ==
    /\ WF_vars(\E v \in Values : TryPushAdmitted(v, Len(m_read_index)))
    /\ SF_vars(PushWrite)
    /\ WF_vars(PushPublish)

FairSpec == Spec /\ ConsumerFairness /\ ProducerFairness

-----------------------------------------------------------------------------
(* Properties *)

\* Every variable has its type; the indices stay inside the buffer.
TypeOK ==
    /\ m_buffer \in [Slots -> Values \cup {Vacant}]
    /\ m_write_index \in Seq([value : Slots, clock : Nat]) /\ m_write_index # <<>>
    /\ m_read_index \in Seq([value : Slots, clock : Nat]) /\ m_read_index # <<>>
    /\ p_pc \in {"idle", "write", "publish"}
    /\ c_pc \in {"idle", "take", "publish"}
    /\ element \in Values \cup {Vacant}
    /\ p_pc # "idle" => element \in Values
    /\ result \in Values \cup {Vacant}
    /\ write_index \in Slots /\ read_index \in Slots
    /\ p_seen \in 1..Len(m_read_index)
    /\ c_seen \in 1..Len(m_write_index)
    /\ p_known \in Nat /\ c_known \in Nat
    /\ last_write \in [Slots -> Nat] /\ last_take \in [Slots -> Nat]
    /\ pushed \in Seq(Values) /\ popped \in Seq(Values \cup {Vacant})

\* Whenever a thread is about to touch a slot, the other thread's last access to
\* that slot happens before: the relaxed/acquire/release orders of the four index
\* accesses are enough, and the two threads never race on a slot.
NoDataRace ==
    /\ p_pc = "write" => last_take[write_index] <= p_known
    /\ c_pc = "take" => last_write[read_index] <= c_known

\* What the consumer has received is a prefix of what the producer has pushed:
\* nothing is lost, repeated, reordered, or read from a slot not yet written.
Fifo ==
    /\ Len(popped) <= Len(pushed)
    /\ \A i \in 1..Len(popped) : popped[i] = pushed[i]

\* A push is refused exactly when the ring is full by the pops the producer has seen,
\* and a pop comes back empty exactly when the consumer has seen no push beyond its
\* pops, whichever of the readable stores the load returns: one slot kept empty tells
\* the two apart, also for stale views.
RefusalJustified ==
    /\ \A k \in p_seen..Len(m_read_index) :
          Full(Last(m_write_index).value, m_read_index[k].value)
             <=> Len(pushed) - (k - 1) = Capacity - 1
    /\ \A k \in c_seen..Len(m_write_index) :
          Empty(Last(m_read_index).value, m_write_index[k].value)
             <=> k - 1 = Len(popped)

\* The ring read as a queue: the slots from the read index up to the write index;
\* between the move out of a slot and the store of the index, the oldest element
\* is in try_pop's local.
Contents ==
    LET r == Last(m_read_index).value
        n == Dist(r, Last(m_write_index).value)
    IN  [i \in 1..n |-> IF i = 1 /\ c_pc = "publish" THEN result
                        ELSE m_buffer[(r + i - 1) % Capacity]]

Abstract == INSTANCE BoundedFifo
                WITH Bound <- Capacity - 1, queue <- Contents, delivered <- popped, lost <- 0

\* The ring is a FIFO queue of capacity 2^N - 1: a push takes effect at the release
\* store of m_write_index, a pop at the release store of m_read_index; none is lost.
RefinesBoundedFifo == Abstract!Spec

\* With both clients calling on, every push is accepted in the end and its element
\* popped: the slots come back to the producer, and no index is overlooked for ever.
EveryPushDelivered == \A n \in 1..MaxPush : <>(Len(popped) >= n)
=============================================================================
