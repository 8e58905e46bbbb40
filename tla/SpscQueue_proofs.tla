-------------------------- MODULE SpscQueue_proofs --------------------------
(* Theorems about SpscQueue, for every capacity, element set and bound. *)
EXTENDS SpscQueue, SequenceTheorems, TLAPS

-----------------------------------------------------------------------------
(* The inductive invariant *)

W == Last(m_write_index).value
R == Last(m_read_index).value

\* The n-th store of an index publishes its thread's first n - 1 accesses, and
\* what a thread knows is exactly what its last load read.
Clocks ==
    /\ Len(m_write_index) = Len(pushed) + 1
    /\ Len(m_read_index) = Len(popped) + 1
    /\ \A k \in 1..Len(m_write_index) : m_write_index[k].clock = k - 1
    /\ \A k \in 1..Len(m_read_index) : m_read_index[k].clock = k - 1
    /\ p_known = p_seen - 1
    /\ c_known = c_seen - 1

\* Any store a thread may still read lies on the ring where the count of elements
\* says; the stale views err on the safe side.
Positions ==
    /\ Len(popped) <= c_seen - 1
    /\ Len(pushed) - (p_seen - 1) <= Capacity - 1
    /\ \A k \in p_seen..Len(m_read_index) :
          Dist(m_read_index[k].value, W) = Len(pushed) - (k - 1)
    /\ \A k \in c_seen..Len(m_write_index) :
          Dist(R, m_write_index[k].value) = (k - 1) - Len(popped)

\* What a call under way has established.
Admitted ==
    /\ p_pc # "idle" => /\ write_index = W
                        /\ Len(pushed) - (p_seen - 1) < Capacity - 1
    /\ p_pc = "publish" => /\ m_buffer[W] = element
                           /\ last_write[W] = Len(pushed) + 1
    /\ c_pc # "idle" => /\ read_index = R
                        /\ Len(popped) < c_seen - 1
    /\ c_pc = "publish" => result = pushed[Len(popped) + 1]

\* The slots between the two indices hold the elements not yet popped.
Filled ==
    \A s \in Slots :
        /\ Dist(R, s) < Len(pushed) - Len(popped)
        /\ c_pc = "publish" => s # R
        => /\ m_buffer[s] = pushed[Len(popped) + 1 + Dist(R, s)]
           /\ last_write[s] <= Len(popped) + 1 + Dist(R, s)

\* The slots the producer reaches soonest were taken longest ago.
Freed ==
    \A s \in Slots :
        \/ last_take[s] = 0
        \/ last_take[s] <= Len(pushed) + 1 - Capacity + Dist(W, s)

IInv == TypeOK /\ Clocks /\ Positions /\ Admitted /\ Filled /\ Freed /\ Fifo

-----------------------------------------------------------------------------
(* Arithmetic of the ring *)

\* The mask with m_capacity - 1 only ever undoes a step past the last slot.
LEMMA NextIndexWraps ==
    ASSUME NEW i \in Slots
    PROVE  /\ NextIndex(i) = IF i + 1 = Capacity THEN 0 ELSE i + 1
           /\ NextIndex(i) \in Slots
<1>1. CASE i + 1 = Capacity
    <2>1. Capacity % Capacity = 0
        BY CapacityAssumption
    <2> QED BY <1>1, <2>1, CapacityAssumption DEF NextIndex, Slots
<1>2. CASE i + 1 # Capacity
    <2>1. i + 1 \in 0..(Capacity - 1)
        BY <1>2, CapacityAssumption DEF Slots
    <2>2. (i + 1) % Capacity = i + 1
        BY <2>1, CapacityAssumption
    <2> QED BY <1>2, <2>1, <2>2 DEF NextIndex, Slots
<1> QED BY <1>1, <1>2

\* Distances are below the capacity, zero only from a slot to itself, and
\* determine the slot they lead to.
LEMMA DistBasics ==
    ASSUME NEW i \in Slots, NEW j \in Slots, NEW k \in Slots
    PROVE  /\ Dist(i, j) \in 0..(Capacity - 1)
           /\ Dist(i, j) = 0 <=> i = j
           /\ Dist(i, j) = Dist(i, k) => j = k
           /\ i # j => Dist(i, j) + Dist(j, i) = Capacity
BY CapacityAssumption DEF Dist, Slots

\* Advancing the far end adds one, except where the ring closes: there the queue
\* is full.
LEMMA DistToNext ==
    ASSUME NEW i \in Slots, NEW j \in Slots
    PROVE  /\ NextIndex(j) = i <=> Dist(i, j) = Capacity - 1
           /\ Dist(i, j) # Capacity - 1 => Dist(i, NextIndex(j)) = Dist(i, j) + 1
BY NextIndexWraps, CapacityAssumption DEF Dist, Slots

\* Advancing the near end takes one off, and goes once round from the slot itself.
LEMMA DistFromNext ==
    ASSUME NEW i \in Slots, NEW j \in Slots
    PROVE  Dist(NextIndex(i), j) = IF i = j THEN Capacity - 1 ELSE Dist(i, j) - 1
BY NextIndexWraps, CapacityAssumption DEF Dist, Slots

-----------------------------------------------------------------------------
(* Type correctness *)

\* Appending a store to a modification order keeps it one.
LEMMA AppendStore ==
    ASSUME NEW mo \in Seq([value : Slots, clock : Nat]), mo # <<>>,
           NEW i \in Slots
    PROVE  /\ Append(mo, StoreOf(NextIndex(i), Len(mo)))
                 \in Seq([value : Slots, clock : Nat])
           /\ Append(mo, StoreOf(NextIndex(i), Len(mo))) # <<>>
           /\ Len(Append(mo, StoreOf(NextIndex(i), Len(mo)))) = Len(mo) + 1
<1>1. Len(mo) \in Nat
    BY LenProperties
<1>2. StoreOf(NextIndex(i), Len(mo)) \in [value : Slots, clock : Nat]
    BY <1>1, NextIndexWraps DEF StoreOf, Released
<1> QED BY <1>2, AppendProperties

\* The last store of an index is in the order and names a slot.
LEMMA LastStore ==
    ASSUME NEW mo \in Seq([value : Slots, clock : Nat]), mo # <<>>
    PROVE  /\ Len(mo) \in 1..Len(mo)
           /\ Last(mo) \in [value : Slots, clock : Nat]
           /\ Last(mo).value \in Slots
<1>1. Len(mo) \in Nat /\ Len(mo) # 0
    BY LenProperties, EmptySeq
<1>2. Len(mo) \in 1..Len(mo)
    BY <1>1
<1>3. Last(mo) \in [value : Slots, clock : Nat]
    BY <1>2, ElementOfSeq DEF Last
<1> QED BY <1>2, <1>3

\* Both indices start at slot 0.
LEMMA InitTypeOK == Init => TypeOK
<1> SUFFICES ASSUME Init PROVE TypeOK
    OBVIOUS
<1>1. 0 \in Slots
    BY CapacityAssumption DEF Slots
<1>2. StoreOf(0, 0) \in [value : Slots, clock : Nat]
    BY <1>1 DEF StoreOf, Released
<1> QED BY <1>1, <1>2 DEF Init, TypeOK

\* Every step of the two threads keeps the types.
LEMMA StepTypeOK == TypeOK /\ [Next]_vars => TypeOK'
<1> SUFFICES ASSUME TypeOK, [Next]_vars PROVE TypeOK'
    OBVIOUS
<1> DEFINE Stores == [value : Slots, clock : Nat]
<1>mw. /\ m_write_index \in Seq(Stores) /\ m_write_index # <<>>
       /\ Len(m_write_index) \in Nat
       /\ Last(m_write_index).value \in Slots
    BY LastStore, LenProperties DEF TypeOK
<1>mr. /\ m_read_index \in Seq(Stores) /\ m_read_index # <<>>
       /\ Len(m_read_index) \in Nat
       /\ Last(m_read_index).value \in Slots
    BY LastStore, LenProperties DEF TypeOK
<1>1. ASSUME NEW k \in 1..Len(m_read_index), LoadReadIndex(k)
      PROVE  p_seen' \in 1..Len(m_read_index) /\ p_known' \in Nat
    <2>1. m_read_index[k] \in Stores
        BY <1>mr, ElementOfSeq
    <2> QED BY <1>1, <2>1 DEF LoadReadIndex, Acquired, TypeOK
<1>2. ASSUME NEW k \in 1..Len(m_write_index), LoadWriteIndex(k)
      PROVE  c_seen' \in 1..Len(m_write_index) /\ c_known' \in Nat
    <2>1. m_write_index[k] \in Stores
        BY <1>mw, ElementOfSeq
    <2> QED BY <1>2, <2>1 DEF LoadWriteIndex, Acquired, TypeOK
<1>3. ASSUME NEW k \in 1..Len(m_read_index), TryPushRefused(k)
      PROVE  TypeOK'
    <2>1. p_seen' \in 1..Len(m_read_index) /\ p_known' \in Nat
        BY <1>1, <1>3 DEF TryPushRefused
    <2> QED BY <1>3, <2>1 DEF TryPushRefused, TypeOK, consumer, memory, indices, history
<1>4. ASSUME NEW k \in 1..Len(m_read_index), NEW v \in Values, TryPushAdmitted(v, k)
      PROVE  TypeOK'
    <2>1. p_seen' \in 1..Len(m_read_index) /\ p_known' \in Nat
        BY <1>1, <1>4 DEF TryPushAdmitted
    <2> QED BY <1>4, <1>mw, <2>1
            DEF TryPushAdmitted, TypeOK, consumer, memory, indices, history
<1>5. CASE PushWrite
    BY <1>5, <1>mw DEF PushWrite, TypeOK, consumer, indices, history
<1>6. CASE PushThrows
    BY <1>6, <1>mw DEF PushThrows, TypeOK, consumer, indices, history
<1>7. CASE PushPublish
    <2>1. /\ m_write_index' \in Seq(Stores) /\ m_write_index' # <<>>
          /\ Len(m_write_index') = Len(m_write_index) + 1
        BY <1>7, <1>mw, AppendStore DEF PushPublish, TypeOK
    <2>2. pushed' \in Seq(Values)
        BY <1>7, AppendProperties DEF PushPublish, TypeOK
    <2>3. c_seen \in 1..Len(m_write_index')
        BY <1>mw, <2>1 DEF TypeOK
    <2> QED BY <1>7, <2>1, <2>2, <2>3 DEF PushPublish, TypeOK, consumer, memory
<1>8. ASSUME NEW k \in 1..Len(m_write_index), TryPopEmpty(k)
      PROVE  TypeOK'
    <2>1. c_seen' \in 1..Len(m_write_index) /\ c_known' \in Nat
        BY <1>2, <1>8 DEF TryPopEmpty
    <2> QED BY <1>8, <2>1 DEF TryPopEmpty, TypeOK, producer, memory, indices, history
<1>9. ASSUME NEW k \in 1..Len(m_write_index), TryPopAdmitted(k)
      PROVE  TypeOK'
    <2>1. c_seen' \in 1..Len(m_write_index) /\ c_known' \in Nat
        BY <1>2, <1>9 DEF TryPopAdmitted
    <2> QED BY <1>9, <1>mr, <2>1
            DEF TryPopAdmitted, TypeOK, producer, memory, indices, history
<1>10. CASE PopTake
    BY <1>10, <1>mr DEF PopTake, TypeOK, producer, indices, history
<1>11. CASE PopThrows
    BY <1>11, <1>mr DEF PopThrows, TypeOK, producer, indices, history
<1>12. CASE PopPublish
    <2>1. /\ m_read_index' \in Seq(Stores) /\ m_read_index' # <<>>
          /\ Len(m_read_index') = Len(m_read_index) + 1
        BY <1>12, <1>mr, AppendStore DEF PopPublish, TypeOK
    <2>2. popped' \in Seq(Values \cup {Vacant})
        BY <1>12, AppendProperties DEF PopPublish, TypeOK
    <2>3. p_seen \in 1..Len(m_read_index')
        BY <1>mr, <2>1 DEF TypeOK
    <2> QED BY <1>12, <2>1, <2>2, <2>3 DEF PopPublish, TypeOK, producer, memory
<1>13. CASE UNCHANGED vars
    BY <1>13 DEF vars, producer, consumer, memory, indices, history, TypeOK
<1> QED BY <1>3, <1>4, <1>5, <1>6, <1>7, <1>8, <1>9, <1>10, <1>11, <1>12, <1>13
        DEF Next, TryPush, TryPop

\* The two indices never leave the buffer, whatever the interleaving.
THEOREM TypeCorrect == Spec => []TypeOK
BY InitTypeOK, StepTypeOK, PTL DEF Spec

-----------------------------------------------------------------------------
(* The inductive invariant is established and preserved *)

\* The empty ring satisfies every part of the invariant.
LEMMA InitIInv == Init => IInv
<1> SUFFICES ASSUME Init PROVE IInv
    OBVIOUS
<1>1. TypeOK
    BY InitTypeOK
<1>2. 0 \in Slots /\ Dist(0, 0) = 0
    BY CapacityAssumption DEF Slots, Dist
<1>3. /\ Len(m_write_index) = 1 /\ Len(m_read_index) = 1
      /\ m_write_index[1].clock = 0 /\ m_read_index[1].clock = 0
      /\ m_write_index[1].value = 0 /\ m_read_index[1].value = 0
    BY DEF Init, StoreOf, Released
<1>4. W = 0 /\ R = 0
    BY <1>3 DEF W, R, Last
<1>5. Clocks
    BY <1>3 DEF Init, Clocks
<1>6. Positions
    BY <1>2, <1>3, <1>4, CapacityAssumption DEF Init, Positions
<1>7. Admitted /\ Fifo /\ Freed
    BY DEF Init, Admitted, Fifo, Freed
<1>8. Filled
    <2>1. \A s \in Slots : Dist(R, s) \in 0..(Capacity - 1)
        BY <1>2, <1>4, DistBasics
    <2>2. Len(pushed) - Len(popped) = 0
        BY DEF Init
    <2> QED BY <2>1, <2>2, CapacityAssumption DEF Filled
<1> QED BY <1>1, <1>5, <1>6, <1>7, <1>8 DEF IInv

\* The values and counts the invariant speaks of are numbers and slots.
LEMMA Shapes ==
    ASSUME TypeOK, Clocks
    PROVE  /\ W \in Slots /\ R \in Slots
           /\ Len(pushed) \in Nat /\ Len(popped) \in Nat
           /\ \A k \in 1..Len(m_write_index) : m_write_index[k].value \in Slots
           /\ \A k \in 1..Len(m_read_index) : m_read_index[k].value \in Slots
           /\ m_write_index[Len(pushed) + 1].value = W
           /\ m_read_index[Len(popped) + 1].value = R
<1>1. W \in Slots /\ R \in Slots
    BY LastStore DEF W, R, TypeOK
<1>2. Len(pushed) \in Nat /\ Len(popped) \in Nat
    BY LenProperties DEF TypeOK
<1>3. ASSUME NEW mo \in Seq([value : Slots, clock : Nat]), NEW k \in 1..Len(mo)
      PROVE  mo[k].value \in Slots
    <2>1. mo[k] \in [value : Slots, clock : Nat]
        BY <1>3, ElementOfSeq
    <2> QED BY <2>1
<1>4. /\ m_write_index[Len(pushed) + 1].value = W
      /\ m_read_index[Len(popped) + 1].value = R
    BY DEF W, R, Last, Clocks
<1> QED BY <1>1, <1>2, <1>3, <1>4 DEF TypeOK

\* The ring holds as many elements as the histories say, and never fills up.
LEMMA Occupancy ==
    ASSUME TypeOK, Clocks, Positions
    PROVE  /\ Dist(R, W) = Len(pushed) - Len(popped)
           /\ Len(popped) <= Len(pushed)
           /\ Len(pushed) - Len(popped) <= Capacity - 1
<1>1. Len(m_write_index) \in c_seen..Len(m_write_index)
    BY LastStore DEF TypeOK
<1>2. Dist(R, W) = (Len(m_write_index) - 1) - Len(popped)
    BY <1>1 DEF Positions, W, Last
<1>3. Dist(R, W) = Len(pushed) - Len(popped)
    BY <1>2, Shapes DEF Clocks
<1> QED BY <1>3, Shapes, DistBasics, CapacityAssumption

\* A load of m_read_index brings the producer's knowledge up to the store it read.
LEMMA LoadRead ==
    ASSUME IInv, NEW k \in 1..Len(m_read_index), LoadReadIndex(k)
    PROVE  /\ p_seen' = k /\ p_known' = k - 1
           /\ k \in p_seen..Len(m_read_index)
           /\ Dist(m_read_index[k].value, W) = Len(pushed) - (k - 1)
           /\ Len(pushed) - (k - 1) <= Capacity - 1
           /\ ~Full(W, m_read_index[k].value)
                 => Len(pushed) - (k - 1) < Capacity - 1
<1>1. /\ p_seen' = k /\ k \in p_seen..Len(m_read_index)
      /\ p_known' = Acquired(p_known, m_read_index[k].clock)
    BY DEF LoadReadIndex
<1>2. p_known' = k - 1
    <2>1. /\ k \in Nat /\ p_seen \in Nat /\ p_seen <= k
          /\ p_known = p_seen - 1 /\ m_read_index[k].clock = k - 1
        BY <1>1 DEF IInv, Clocks, TypeOK
    <2> QED BY <1>1, <2>1 DEF Acquired
<1>3. Dist(m_read_index[k].value, W) = Len(pushed) - (k - 1)
    BY <1>1 DEF IInv, Positions
<1>4. W \in Slots /\ m_read_index[k].value \in Slots
    BY Shapes DEF IInv
<1>5. Len(pushed) - (k - 1) <= Capacity - 1
    BY <1>3, <1>4, DistBasics, CapacityAssumption
<1>6. ASSUME ~Full(W, m_read_index[k].value)
      PROVE  Len(pushed) - (k - 1) < Capacity - 1
    <2>1. Dist(m_read_index[k].value, W) # Capacity - 1
        BY <1>4, <1>6, DistToNext DEF Full
    <2> QED BY <1>3, <1>4, <2>1, DistBasics, CapacityAssumption
<1> QED BY <1>1, <1>2, <1>3, <1>5, <1>6

\* A load of m_write_index brings the consumer's knowledge up to the store it read.
LEMMA LoadWrite ==
    ASSUME IInv, NEW k \in 1..Len(m_write_index), LoadWriteIndex(k)
    PROVE  /\ c_seen' = k /\ c_known' = k - 1
           /\ k \in c_seen..Len(m_write_index)
           /\ Len(popped) <= k - 1
           /\ ~Empty(R, m_write_index[k].value) => Len(popped) < k - 1
<1>1. /\ c_seen' = k /\ k \in c_seen..Len(m_write_index)
      /\ c_known' = Acquired(c_known, m_write_index[k].clock)
    BY DEF LoadWriteIndex
<1>2. c_known' = k - 1
    <2>1. /\ k \in Nat /\ c_seen \in Nat /\ c_seen <= k
          /\ c_known = c_seen - 1 /\ m_write_index[k].clock = k - 1
        BY <1>1 DEF IInv, Clocks, TypeOK
    <2> QED BY <1>1, <2>1 DEF Acquired
<1>3. Dist(R, m_write_index[k].value) = (k - 1) - Len(popped)
    BY <1>1 DEF IInv, Positions
<1>4. R \in Slots /\ m_write_index[k].value \in Slots /\ Len(popped) \in Nat
    BY Shapes DEF IInv
<1>5. Dist(R, m_write_index[k].value) >= 0
    BY <1>4, DistBasics, CapacityAssumption
<1>6. Dist(R, m_write_index[k].value) = 0 <=> R = m_write_index[k].value
    BY <1>4, DistBasics
<1> QED BY <1>1, <1>2, <1>3, <1>4, <1>5, <1>6 DEF Empty

(* One lemma per handler: what it disturbs is shown again, the rest is kept. *)

\* A push that only loads, refused or admitted, learns of more free slots at most.
LEMMA PushLoadKeeps ==
    ASSUME IInv, TypeOK',
           NEW k \in 1..Len(m_read_index), LoadReadIndex(k),
           \/ UNCHANGED <<p_pc, write_index, element>>
           \/ /\ p_pc' = "write"
              /\ write_index' = W
              /\ ~Full(W, m_read_index[k].value),
           UNCHANGED <<consumer, memory, indices, history>>
    PROVE  IInv'
<1> USE DEF consumer, memory, indices, history
<1>1. /\ p_seen' = k /\ p_known' = k - 1
      /\ k \in p_seen..Len(m_read_index)
      /\ Len(pushed) - (k - 1) <= Capacity - 1
      /\ ~Full(W, m_read_index[k].value)
            => Len(pushed) - (k - 1) < Capacity - 1
    BY LoadRead
<1>2. W' = W /\ R' = R /\ p_pc = "idle"
    BY DEF W, R, Last, LoadReadIndex
<1>3. Clocks'
    BY <1>1 DEF IInv, Clocks
<1>4. Positions'
    <2>1. \A n \in k..Len(m_read_index) : n \in p_seen..Len(m_read_index)
        BY <1>1 DEF IInv, TypeOK
    <2> QED BY <1>1, <1>2, <2>1 DEF IInv, Positions
<1>5. Admitted'
    BY <1>1, <1>2 DEF IInv, Admitted
<1>6. Filled' /\ Freed' /\ Fifo'
    BY <1>2 DEF IInv, Filled, Freed, Fifo
<1> QED BY <1>3, <1>4, <1>5, <1>6 DEF IInv

\* A pop that only loads, empty-handed or admitted, learns of more elements at most.
LEMMA PopLoadKeeps ==
    ASSUME IInv, TypeOK',
           NEW k \in 1..Len(m_write_index), LoadWriteIndex(k),
           \/ UNCHANGED <<c_pc, read_index>>
           \/ /\ c_pc' = "take"
              /\ read_index' = R
              /\ ~Empty(R, m_write_index[k].value),
           UNCHANGED <<result, producer, memory, indices, history>>
    PROVE  IInv'
<1> USE DEF producer, memory, indices, history
<1>1. /\ c_seen' = k /\ c_known' = k - 1
      /\ k \in c_seen..Len(m_write_index)
      /\ Len(popped) <= k - 1
      /\ ~Empty(R, m_write_index[k].value) => Len(popped) < k - 1
    BY LoadWrite
<1>2. W' = W /\ R' = R /\ c_pc = "idle"
    BY DEF W, R, Last, LoadWriteIndex
<1>3. Clocks'
    BY <1>1 DEF IInv, Clocks
<1>4. Positions'
    <2>1. \A n \in k..Len(m_write_index) : n \in c_seen..Len(m_write_index)
        BY <1>1 DEF IInv, TypeOK
    <2> QED BY <1>1, <1>2, <2>1 DEF IInv, Positions
<1>5. Admitted'
    BY <1>1, <1>2 DEF IInv, Admitted
<1>6. Filled' /\ Freed' /\ Fifo'
    BY <1>2 DEF IInv, Filled, Freed, Fifo
<1> QED BY <1>3, <1>4, <1>5, <1>6 DEF IInv

\* The producer writes the slot just past the elements; the consumer is not there.
LEMMA WriteKeeps ==
    ASSUME IInv, TypeOK', PushWrite \/ PushThrows
    PROVE  IInv'
<1> USE DEF consumer, indices, history
<1>0. /\ p_pc = "write"
      /\ last_write' = [last_write EXCEPT ![W] = Len(pushed) + 1]
      /\ \A s \in Slots : s # W => m_buffer'[s] = m_buffer[s]
      /\ p_pc' = "publish" => m_buffer'[W] = element
      /\ p_pc' \in {"idle", "publish"}
      /\ UNCHANGED <<element, write_index, p_seen, p_known, consumer,
                     last_take, indices, history>>
    BY DEF PushWrite, PushThrows, IInv, Admitted, Clocks, TypeOK
<1>1. W' = W /\ R' = R /\ W \in Slots /\ R \in Slots
    BY <1>0, Shapes DEF W, R, Last, IInv
<1>2. Dist(R, W) = Len(pushed) - Len(popped)
    BY Occupancy DEF IInv
<1>3. Clocks' /\ Positions' /\ Freed' /\ Fifo'
    BY <1>0, <1>1 DEF IInv, Clocks, Positions, Freed, Fifo
<1>4. Admitted'
    <2>1. last_write'[W] = Len(pushed) + 1
        BY <1>0, <1>1 DEF IInv, TypeOK
    <2> QED BY <1>0, <1>1, <2>1 DEF IInv, Admitted
<1>5. Filled'
    <2> SUFFICES ASSUME NEW s \in Slots,
                        Dist(R, s) < Len(pushed) - Len(popped),
                        c_pc = "publish" => s # R
                 PROVE  /\ m_buffer'[s] = pushed[Len(popped) + 1 + Dist(R, s)]
                        /\ last_write'[s] <= Len(popped) + 1 + Dist(R, s)
        BY <1>0, <1>1 DEF Filled
    <2>1. s # W
        BY <1>1, <1>2, DistBasics, CapacityAssumption
    <2>2. m_buffer'[s] = m_buffer[s] /\ last_write'[s] = last_write[s]
        BY <1>0, <2>1 DEF IInv, TypeOK
    <2> QED BY <2>2 DEF IInv, Filled
<1> QED BY <1>3, <1>4, <1>5 DEF IInv

\* The release store of m_write_index puts the slot among the filled ones.
LEMMA PushPublishKeeps ==
    ASSUME IInv, TypeOK', PushPublish
    PROVE  IInv'
<1> USE DEF consumer, memory
<1>0. /\ p_pc = "publish" /\ p_pc' = "idle" /\ write_index = W
      /\ m_buffer[W] = element /\ last_write[W] = Len(pushed) + 1
      /\ Len(pushed) - (p_seen - 1) < Capacity - 1
      /\ m_write_index' = Append(m_write_index, StoreOf(NextIndex(W), Len(m_write_index)))
      /\ pushed' = Append(pushed, element)
      /\ UNCHANGED <<p_seen, p_known, consumer, memory, m_read_index, popped>>
    BY DEF PushPublish, IInv, Admitted
<1>1. /\ W \in Slots /\ R \in Slots /\ NextIndex(W) \in Slots
      /\ Len(pushed) \in Nat /\ Len(popped) \in Nat
      /\ Dist(R, W) = Len(pushed) - Len(popped)
      /\ Len(popped) <= Len(pushed)
      /\ Len(m_write_index) = Len(pushed) + 1
      /\ Len(m_read_index) = Len(popped) + 1
      /\ p_seen \in 1..(Len(popped) + 1)
    BY Shapes, Occupancy, NextIndexWraps DEF IInv, Clocks, TypeOK
<1>2. /\ Len(pushed') = Len(pushed) + 1
      /\ \A i \in 1..Len(pushed) : pushed'[i] = pushed[i]
      /\ pushed'[Len(pushed) + 1] = element
    BY <1>0, AppendProperties DEF IInv, TypeOK
<1>3. /\ Len(m_write_index') = Len(pushed) + 2
      /\ \A n \in 1..(Len(pushed) + 1) : m_write_index'[n] = m_write_index[n]
      /\ m_write_index'[Len(pushed) + 2] = StoreOf(NextIndex(W), Len(pushed) + 1)
    <2>1. StoreOf(NextIndex(W), Len(m_write_index)) \in [value : Slots, clock : Nat]
        BY <1>1 DEF StoreOf, Released
    <2>2. m_write_index \in Seq([value : Slots, clock : Nat])
        BY DEF IInv, TypeOK
    <2>3. /\ Len(m_write_index') = Len(m_write_index) + 1
          /\ \A n \in 1..Len(m_write_index) : m_write_index'[n] = m_write_index[n]
          /\ m_write_index'[Len(m_write_index) + 1]
                = StoreOf(NextIndex(W), Len(m_write_index))
        BY <1>0, <2>1, <2>2, AppendProperties
    <2> QED BY <1>1, <2>3
<1>4. W' = NextIndex(W) /\ R' = R
    BY <1>0, <1>1, <1>3 DEF W, R, Last, StoreOf
<1>5. \A i \in Slots : Dist(i, W) < Capacity - 1 => Dist(i, W') = Dist(i, W) + 1
    BY <1>1, <1>4, DistToNext, DistBasics, CapacityAssumption
<1>6. Dist(R', W') = Len(pushed) + 1 - Len(popped)
    BY <1>0, <1>1, <1>4, <1>5, CapacityAssumption
<1>7. Clocks'
    <2>1. m_write_index'[Len(pushed) + 2].clock = Len(pushed) + 1
        BY <1>3 DEF StoreOf, Released
    <2>2. \A n \in 1..Len(m_write_index') : m_write_index'[n].clock = n - 1
        <3> SUFFICES ASSUME NEW n \in 1..(Len(pushed) + 2)
                     PROVE  m_write_index'[n].clock = n - 1
            BY <1>1, <1>3
        <3>1. CASE n = Len(pushed) + 2
            BY <1>1, <2>1, <3>1
        <3>2. CASE n # Len(pushed) + 2
            <4>1. n \in 1..(Len(pushed) + 1)
                BY <1>1, <3>2
            <4> QED BY <1>1, <1>3, <4>1 DEF IInv, Clocks
        <3> QED BY <3>1, <3>2
    <2> QED BY <1>0, <1>1, <1>2, <1>3, <2>2 DEF IInv, Clocks
<1>8. Positions'
    <2>1. ASSUME NEW n \in p_seen..Len(m_read_index)
          PROVE  Dist(m_read_index[n].value, W') = Len(pushed) + 1 - (n - 1)
        <3>1. Dist(m_read_index[n].value, W) = Len(pushed) - (n - 1)
            BY DEF IInv, Positions
        <3>2. n \in 1..Len(m_read_index) /\ n >= p_seen
            BY <1>1
        <3>3. m_read_index[n].value \in Slots
            BY <3>2, Shapes DEF IInv
        <3>4. Dist(m_read_index[n].value, W) < Capacity - 1
            BY <1>0, <1>1, <3>1, <3>2, CapacityAssumption
        <3>5. Dist(m_read_index[n].value, W') = Dist(m_read_index[n].value, W) + 1
            BY <1>5, <3>3, <3>4
        <3> QED BY <1>1, <3>1, <3>2, <3>5
    <2>2. ASSUME NEW n \in c_seen..Len(m_write_index')
          PROVE  Dist(R, m_write_index'[n].value) = (n - 1) - Len(popped)
        <3>1. CASE n = Len(pushed) + 2
            BY <1>1, <1>3, <1>4, <1>6, <3>1 DEF StoreOf
        <3>2. CASE n # Len(pushed) + 2
            <4>1. c_seen \in 1..(Len(pushed) + 1)
                BY <1>1 DEF IInv, TypeOK
            <4>2. n \in c_seen..Len(m_write_index) /\ n \in 1..(Len(pushed) + 1)
                BY <1>1, <1>3, <3>2, <4>1
            <4> QED BY <1>3, <4>2 DEF IInv, Positions
        <3> QED BY <3>1, <3>2
    <2>3. Len(pushed') - (p_seen - 1) <= Capacity - 1
        BY <1>0, <1>1, <1>2, CapacityAssumption
    <2>4. Len(popped) <= c_seen - 1
        BY DEF IInv, Positions
    <2>5. /\ p_seen' = p_seen /\ c_seen' = c_seen /\ popped' = popped
          /\ m_read_index' = m_read_index
          /\ Len(pushed') = Len(pushed) + 1 /\ R' = R
        BY <1>0, <1>2, <1>4
    <2> QED BY <2>1, <2>2, <2>3, <2>4, <2>5 DEF Positions
<1>9. Admitted'
    <2>1. ASSUME c_pc = "publish"
          PROVE  pushed'[Len(popped) + 1] = pushed[Len(popped) + 1]
        <3>1. Len(popped) < c_seen - 1 /\ c_seen \in 1..(Len(pushed) + 1)
            BY <1>1, <2>1 DEF IInv, Admitted, TypeOK
        <3>2. Len(popped) + 1 \in 1..Len(pushed)
            BY <1>1, <3>1
        <3> QED BY <1>2, <3>2
    <2> QED BY <1>0, <1>4, <2>1 DEF IInv, Admitted
<1>10. Filled'
    <2> SUFFICES ASSUME NEW s \in Slots,
                        Dist(R, s) < Len(pushed) + 1 - Len(popped),
                        c_pc = "publish" => s # R
                 PROVE  /\ m_buffer[s] = pushed'[Len(popped) + 1 + Dist(R, s)]
                        /\ last_write[s] <= Len(popped) + 1 + Dist(R, s)
        <3>1. /\ m_buffer' = m_buffer /\ last_write' = last_write
              /\ c_pc' = c_pc /\ popped' = popped /\ R' = R
              /\ Len(pushed') = Len(pushed) + 1
            BY <1>0, <1>2, <1>4
        <3> QED BY <3>1 DEF Filled
    <2>0. Dist(R, s) \in Nat
        BY <1>1, DistBasics, CapacityAssumption
    <2>1. CASE s = W
        BY <1>0, <1>1, <1>2, <2>1
    <2>2. CASE s # W
        <3>1. Dist(R, s) < Len(pushed) - Len(popped)
            <4>1. Dist(R, s) # Dist(R, W)
                BY <1>1, <2>2, DistBasics
            <4> QED BY <1>1, <2>0, <4>1
        <3>2. /\ m_buffer[s] = pushed[Len(popped) + 1 + Dist(R, s)]
              /\ last_write[s] <= Len(popped) + 1 + Dist(R, s)
            BY <3>1 DEF IInv, Filled
        <3>3. Len(popped) + 1 + Dist(R, s) \in 1..Len(pushed)
            BY <1>1, <2>0, <3>1
        <3> QED BY <1>2, <3>2, <3>3
    <2> QED BY <2>1, <2>2
<1>11. Freed'
    <2> SUFFICES ASSUME NEW s \in Slots, last_take[s] # 0
                 PROVE  last_take[s] <= Len(pushed) + 2 - Capacity + Dist(W', s)
        <3>1. last_take' = last_take /\ Len(pushed') + 1 = Len(pushed) + 2
            BY <1>0, <1>1, <1>2
        <3> QED BY <3>1, <1>1, CapacityAssumption DEF Freed
    <2>1. last_take[s] <= Len(pushed) + 1 - Capacity + Dist(W, s)
        BY DEF IInv, Freed
    <2>2. Dist(W', s) = IF W = s THEN Capacity - 1 ELSE Dist(W, s) - 1
        BY <1>1, <1>4, DistFromNext
    <2>3. Dist(W, s) \in 0..(Capacity - 1) /\ last_take[s] \in Nat
        BY <1>1, DistBasics DEF IInv, TypeOK
    <2>4. Dist(W, W) = 0
        BY <1>1, DistBasics
    <2> QED BY <1>1, <2>1, <2>2, <2>3, <2>4, CapacityAssumption
<1>12. Fifo'
    BY <1>0, <1>1, <1>2 DEF IInv, Fifo
<1> QED BY <1>7, <1>8, <1>9, <1>10, <1>11, <1>12 DEF IInv

\* The consumer empties the oldest filled slot, or leaves it as it was.
LEMMA TakeKeeps ==
    ASSUME IInv, TypeOK', PopTake \/ PopThrows
    PROVE  IInv'
<1> USE DEF producer, indices, history
<1>0. /\ c_pc = "take" /\ c_pc' \in {"publish", "idle"}
      /\ last_take' = [last_take EXCEPT ![R] = Len(popped) + 1]
      /\ \A s \in Slots : s # R => m_buffer'[s] = m_buffer[s]
      /\ c_pc' = "publish" => result' = m_buffer[R]
      /\ c_pc' = "idle" => m_buffer' = m_buffer
      /\ UNCHANGED <<read_index, c_seen, c_known, producer, last_write, indices, history>>
    BY DEF PopTake, PopThrows, IInv, Admitted, Clocks, TypeOK
<1>1. /\ W' = W /\ R' = R /\ W \in Slots /\ R \in Slots
      /\ Len(pushed) \in Nat /\ Len(popped) \in Nat
    BY <1>0, Shapes DEF W, R, Last, IInv
<1>2. /\ Dist(R, W) = Len(pushed) - Len(popped)
      /\ Len(popped) < Len(pushed)
    <2>1. Len(popped) < c_seen - 1 /\ c_seen \in 1..(Len(pushed) + 1)
        BY <1>0 DEF IInv, Admitted, TypeOK, Clocks
    <2> QED BY <1>1, <2>1, Occupancy DEF IInv
<1>3. R # W /\ Dist(R, R) = 0
    BY <1>1, <1>2, DistBasics
<1>4. Clocks' /\ Positions' /\ Fifo'
    BY <1>0, <1>1 DEF IInv, Clocks, Positions, Fifo
<1>5. m_buffer[R] = pushed[Len(popped) + 1]
    BY <1>0, <1>1, <1>2, <1>3 DEF IInv, Filled
<1>6. Admitted'
    BY <1>0, <1>1, <1>3, <1>5 DEF IInv, Admitted
<1>7. Filled'
    BY <1>0, <1>1 DEF IInv, Filled
<1>8. Freed'
    <2> SUFFICES ASSUME NEW s \in Slots, last_take'[s] # 0
                 PROVE  last_take'[s] <= Len(pushed) + 1 - Capacity + Dist(W, s)
        BY <1>0, <1>1 DEF Freed
    <2>1. CASE s = R
        <3>1. last_take'[s] = Len(popped) + 1
            BY <1>0, <2>1 DEF IInv, TypeOK
        <3>2. Dist(R, W) + Dist(W, R) = Capacity
            BY <1>1, <1>3, DistBasics
        <3>3. Dist(W, R) \in 0..(Capacity - 1)
            BY <1>1, DistBasics
        <3> QED BY <1>1, <1>2, <2>1, <3>1, <3>2, <3>3, CapacityAssumption
    <2>2. CASE s # R
        BY <1>0, <2>2 DEF IInv, TypeOK, Freed
    <2> QED BY <2>1, <2>2
<1> QED BY <1>4, <1>6, <1>7, <1>8 DEF IInv

\* The release store of m_read_index hands the slot back.
LEMMA PopPublishKeeps ==
    ASSUME IInv, TypeOK', PopPublish
    PROVE  IInv'
<1> USE DEF producer, memory
<1>0. /\ c_pc = "publish" /\ c_pc' = "idle" /\ read_index = R
      /\ Len(popped) < c_seen - 1
      /\ result = pushed[Len(popped) + 1]
      /\ m_read_index' = Append(m_read_index, StoreOf(NextIndex(R), Len(m_read_index)))
      /\ popped' = Append(popped, result)
      /\ UNCHANGED <<c_seen, c_known, producer, memory, m_write_index, pushed>>
    BY DEF PopPublish, IInv, Admitted
<1>1. /\ W \in Slots /\ R \in Slots /\ NextIndex(R) \in Slots
      /\ Len(pushed) \in Nat /\ Len(popped) \in Nat
      /\ Dist(R, W) = Len(pushed) - Len(popped)
      /\ Len(pushed) - Len(popped) <= Capacity - 1
      /\ Len(m_write_index) = Len(pushed) + 1
      /\ Len(m_read_index) = Len(popped) + 1
      /\ p_seen \in 1..(Len(popped) + 1)
      /\ c_seen \in 1..(Len(pushed) + 1)
    BY Shapes, Occupancy, NextIndexWraps DEF IInv, Clocks, TypeOK
<1>2. /\ Len(popped') = Len(popped) + 1
      /\ \A i \in 1..Len(popped) : popped'[i] = popped[i]
      /\ popped'[Len(popped) + 1] = result
    BY <1>0, AppendProperties DEF IInv, TypeOK
<1>3. /\ Len(m_read_index') = Len(popped) + 2
      /\ \A n \in 1..(Len(popped) + 1) : m_read_index'[n] = m_read_index[n]
      /\ m_read_index'[Len(popped) + 2] = StoreOf(NextIndex(R), Len(popped) + 1)
    <2>1. StoreOf(NextIndex(R), Len(m_read_index)) \in [value : Slots, clock : Nat]
        BY <1>1 DEF StoreOf, Released
    <2>2. m_read_index \in Seq([value : Slots, clock : Nat])
        BY DEF IInv, TypeOK
    <2>3. /\ Len(m_read_index') = Len(m_read_index) + 1
          /\ \A n \in 1..Len(m_read_index) : m_read_index'[n] = m_read_index[n]
          /\ m_read_index'[Len(m_read_index) + 1]
                = StoreOf(NextIndex(R), Len(m_read_index))
        BY <1>0, <2>1, <2>2, AppendProperties
    <2> QED BY <1>1, <2>3
<1>4. W' = W /\ R' = NextIndex(R)
    BY <1>0, <1>1, <1>3 DEF W, R, Last, StoreOf
<1>5. \A j \in Slots :
         Dist(R', j) = IF j = R THEN Capacity - 1 ELSE Dist(R, j) - 1
    BY <1>1, <1>4, DistFromNext
<1>6. Dist(R', W) = Len(pushed) - (Len(popped) + 1)
    <2>1. W # R
        BY <1>0, <1>1, DistBasics
    <2> QED BY <1>1, <1>5, <2>1
<1>7. Clocks'
    <2>1. m_read_index'[Len(popped) + 2].clock = Len(popped) + 1
        BY <1>3 DEF StoreOf, Released
    <2>2. \A n \in 1..Len(m_read_index') : m_read_index'[n].clock = n - 1
        <3> SUFFICES ASSUME NEW n \in 1..(Len(popped) + 2)
                     PROVE  m_read_index'[n].clock = n - 1
            BY <1>1, <1>3
        <3>1. CASE n = Len(popped) + 2
            BY <1>1, <2>1, <3>1
        <3>2. CASE n # Len(popped) + 2
            <4>1. n \in 1..(Len(popped) + 1)
                BY <1>1, <3>2
            <4> QED BY <1>1, <1>3, <4>1 DEF IInv, Clocks
        <3> QED BY <3>1, <3>2
    <2>3. Len(m_read_index') = Len(popped') + 1
        BY <1>1, <1>2, <1>3
    <2>4. /\ m_write_index' = m_write_index /\ pushed' = pushed
          /\ c_known' = c_known /\ c_seen' = c_seen
          /\ p_known' = p_known /\ p_seen' = p_seen
        BY <1>0
    <2> QED BY <2>2, <2>3, <2>4 DEF IInv, Clocks
<1>8. Positions'
    <2>1. ASSUME NEW n \in p_seen..Len(m_read_index')
          PROVE  Dist(m_read_index'[n].value, W) = Len(pushed) - (n - 1)
        <3>1. CASE n = Len(popped) + 2
            BY <1>1, <1>3, <1>4, <1>6, <3>1 DEF StoreOf
        <3>2. CASE n # Len(popped) + 2
            <4>1. n \in p_seen..Len(m_read_index) /\ n \in 1..(Len(popped) + 1)
                BY <1>1, <1>3, <3>2
            <4> QED BY <1>3, <4>1 DEF IInv, Positions
        <3> QED BY <3>1, <3>2
    <2>2. ASSUME NEW n \in c_seen..Len(m_write_index)
          PROVE  Dist(R', m_write_index[n].value) = (n - 1) - (Len(popped) + 1)
        <3>1. Dist(R, m_write_index[n].value) = (n - 1) - Len(popped)
            BY DEF IInv, Positions
        <3>2. n \in 1..Len(m_write_index) /\ n >= c_seen
            BY <1>1
        <3>3. m_write_index[n].value \in Slots
            BY <3>2, Shapes DEF IInv
        <3>4. Dist(R, m_write_index[n].value) # 0
            BY <1>0, <1>1, <3>1, <3>2
        <3>5. m_write_index[n].value # R
            BY <1>1, <3>3, <3>4, DistBasics
        <3> QED BY <1>1, <1>5, <3>1, <3>2, <3>3, <3>5
    <2>3. Len(popped) + 1 <= c_seen - 1
        BY <1>0, <1>1
    <2>4. Len(pushed) - (p_seen - 1) <= Capacity - 1
        BY DEF IInv, Positions
    <2>5. /\ p_seen' = p_seen /\ c_seen' = c_seen /\ pushed' = pushed
          /\ m_write_index' = m_write_index
          /\ Len(popped') = Len(popped) + 1 /\ W' = W
        BY <1>0, <1>2, <1>4
    <2> QED BY <2>1, <2>2, <2>3, <2>4, <2>5 DEF Positions
<1>9. Admitted'
    BY <1>0, <1>4 DEF IInv, Admitted
<1>10. Filled'
    <2> SUFFICES ASSUME NEW s \in Slots,
                        Dist(R', s) < Len(pushed) - (Len(popped) + 1)
                 PROVE  /\ m_buffer[s] = pushed[Len(popped) + 2 + Dist(R', s)]
                        /\ last_write[s] <= Len(popped) + 2 + Dist(R', s)
        <3>1. /\ m_buffer' = m_buffer /\ last_write' = last_write /\ pushed' = pushed
              /\ Len(popped') = Len(popped) + 1
              /\ Len(popped') + 1 = Len(popped) + 2
            BY <1>0, <1>1, <1>2
        <3> QED BY <1>1, <3>1 DEF Filled
    <2>1. s # R
        BY <1>1, <1>5, CapacityAssumption
    <2>2. Dist(R', s) = Dist(R, s) - 1 /\ Dist(R, s) \in 0..(Capacity - 1)
        BY <1>1, <1>5, <2>1, DistBasics
    <2>3. Dist(R, s) < Len(pushed) - Len(popped)
        BY <1>1, <2>2, CapacityAssumption
    <2>4. /\ m_buffer[s] = pushed[Len(popped) + 1 + Dist(R, s)]
          /\ last_write[s] <= Len(popped) + 1 + Dist(R, s)
        BY <2>1, <2>3 DEF IInv, Filled
    <2>5. Len(popped) + 1 + Dist(R, s) = Len(popped) + 2 + Dist(R', s)
        BY <1>1, <2>2, CapacityAssumption
    <2> QED BY <2>4, <2>5
<1>11. Freed'
    BY <1>0, <1>4 DEF IInv, Freed
<1>12. Fifo'
    <2>1. Len(popped) + 1 <= Len(pushed)
        BY <1>0, <1>1
    <2> QED BY <1>0, <1>1, <1>2, <2>1 DEF IInv, Fifo
<1> QED BY <1>7, <1>8, <1>9, <1>10, <1>11, <1>12 DEF IInv

\* No step of either thread, completed or unwound by an exception, breaks a part.
LEMMA StepIInv == IInv /\ [Next]_vars => IInv'
<1> SUFFICES ASSUME IInv, [Next]_vars PROVE IInv'
    OBVIOUS
<1>0. TypeOK'
    BY StepTypeOK DEF IInv
<1>1. ASSUME NEW k \in 1..Len(m_read_index), TryPushRefused(k)
      PROVE  IInv'
    BY <1>0, <1>1, PushLoadKeeps DEF TryPushRefused
<1>2. ASSUME NEW k \in 1..Len(m_read_index), NEW v \in Values, TryPushAdmitted(v, k)
      PROVE  IInv'
    BY <1>0, <1>2, PushLoadKeeps DEF TryPushAdmitted, W
<1>3. CASE PushWrite \/ PushThrows
    BY <1>0, <1>3, WriteKeeps
<1>4. CASE PushPublish
    BY <1>0, <1>4, PushPublishKeeps
<1>5. ASSUME NEW k \in 1..Len(m_write_index), TryPopEmpty(k)
      PROVE  IInv'
    BY <1>0, <1>5, PopLoadKeeps DEF TryPopEmpty
<1>6. ASSUME NEW k \in 1..Len(m_write_index), TryPopAdmitted(k)
      PROVE  IInv'
    BY <1>0, <1>6, PopLoadKeeps DEF TryPopAdmitted, R
<1>7. CASE PopTake \/ PopThrows
    BY <1>0, <1>7, TakeKeeps
<1>8. CASE PopPublish
    BY <1>0, <1>8, PopPublishKeeps
<1>9. CASE UNCHANGED vars
    BY <1>9 DEF vars, producer, consumer, memory, indices, history, IInv, TypeOK,
                Clocks, Positions, Admitted, Filled, Freed, Fifo, W, R, Last
<1> QED BY <1>1, <1>2, <1>3, <1>4, <1>5, <1>6, <1>7, <1>8, <1>9
        DEF Next, TryPush, TryPop

\* The ring, the histories and the stale views of the two threads always agree: what
\* the other theorems about try_push and try_pop are read off from.
THEOREM InductiveInvariant == Spec => []IInv
BY InitIInv, StepIInv, PTL DEF Spec

\* A thread about to touch a slot knows of the other one's last access to it.
LEMMA IInvNoDataRace == IInv => NoDataRace
<1> SUFFICES ASSUME IInv PROVE NoDataRace
    OBVIOUS
<1>1. /\ W \in Slots /\ R \in Slots /\ Len(pushed) \in Nat /\ Len(popped) \in Nat
      /\ Dist(R, W) = Len(pushed) - Len(popped)
      /\ Dist(R, R) = 0 /\ Dist(W, W) = 0
      /\ p_seen \in 1..Len(m_read_index) /\ c_seen \in 1..Len(m_write_index)
      /\ Len(m_write_index) = Len(pushed) + 1
      /\ Len(m_read_index) = Len(popped) + 1
      /\ p_known = p_seen - 1 /\ c_known = c_seen - 1
    BY Shapes, Occupancy, DistBasics DEF IInv, TypeOK, Clocks
<1>2. ASSUME p_pc = "write" PROVE last_take[write_index] <= p_known
    <2>1. write_index = W /\ Len(pushed) - (p_seen - 1) < Capacity - 1
        BY <1>2 DEF IInv, Admitted
    <2>2. last_take[W] \in Nat
        BY <1>1 DEF IInv, TypeOK
    <2>3. \/ last_take[W] = 0
          \/ last_take[W] <= Len(pushed) + 1 - Capacity + Dist(W, W)
        BY <1>1 DEF IInv, Freed
    <2> QED BY <1>1, <2>1, <2>2, <2>3, CapacityAssumption
<1>3. ASSUME c_pc = "take" PROVE last_write[read_index] <= c_known
    <2>1. read_index = R /\ Len(popped) < c_seen - 1
        BY <1>3 DEF IInv, Admitted
    <2>2. last_write[R] \in Nat
        BY <1>1 DEF IInv, TypeOK
    <2>3. Len(popped) < Len(pushed)
        BY <1>1, <2>1
    <2>4. last_write[R] <= Len(popped) + 1 + Dist(R, R)
        BY <1>1, <1>3, <2>3 DEF IInv, Filled
    <2> QED BY <1>1, <2>1, <2>2, <2>4
<1> QED BY <1>2, <1>3 DEF NoDataRace

\* The acquire loads and release stores of try_push and try_pop are enough: producer
\* and consumer never race on a slot, in a queue of any capacity.
THEOREM DataRaceFree == Spec => []NoDataRace
BY InductiveInvariant, IInvNoDataRace, PTL

\* The elements leave the ring in the order in which they entered it, each once.
THEOREM FirstInFirstOut == Spec => []Fifo
<1>1. IInv => Fifo
    BY DEF IInv
<1> QED BY <1>1, InductiveInvariant, PTL

\* Positions gives the distance between any readable store and the owner's index, and
\* the tests for full and empty are tests of that distance.
LEMMA IInvRefusals == IInv => RefusalJustified
<1> SUFFICES ASSUME IInv PROVE RefusalJustified
    OBVIOUS
<1>1. /\ W \in Slots /\ R \in Slots /\ Len(pushed) \in Nat /\ Len(popped) \in Nat
      /\ \A k \in 1..Len(m_write_index) : m_write_index[k].value \in Slots
      /\ \A k \in 1..Len(m_read_index) : m_read_index[k].value \in Slots
      /\ p_seen \in 1..Len(m_read_index) /\ c_seen \in 1..Len(m_write_index)
      /\ Len(m_write_index) \in Nat /\ Len(m_read_index) \in Nat
    BY Shapes, LenProperties DEF IInv, TypeOK
<1>2. ASSUME NEW k \in p_seen..Len(m_read_index)
      PROVE  Full(W, m_read_index[k].value) <=> Len(pushed) - (k - 1) = Capacity - 1
    <2>1. k \in 1..Len(m_read_index) /\ m_read_index[k].value \in Slots
        BY <1>1, <1>2
    <2>2. Dist(m_read_index[k].value, W) = Len(pushed) - (k - 1)
        BY <1>2 DEF IInv, Positions
    <2>3. NextIndex(W) = m_read_index[k].value
             <=> Dist(m_read_index[k].value, W) = Capacity - 1
        BY <1>1, <2>1, DistToNext
    <2> QED BY <2>2, <2>3 DEF Full
<1>3. ASSUME NEW k \in c_seen..Len(m_write_index)
      PROVE  Empty(R, m_write_index[k].value) <=> k - 1 = Len(popped)
    <2>1. k \in 1..Len(m_write_index) /\ m_write_index[k].value \in Slots
        BY <1>1, <1>3
    <2>2. Dist(R, m_write_index[k].value) = (k - 1) - Len(popped)
        BY <1>3 DEF IInv, Positions
    <2>3. Dist(R, m_write_index[k].value) = 0 <=> R = m_write_index[k].value
        BY <1>1, <2>1, DistBasics
    <2> QED BY <1>1, <2>1, <2>2, <2>3 DEF Empty
<1> QED BY <1>2, <1>3 DEF RefusalJustified, W, R

\* try_push and try_pop turn a caller away exactly when the ring is full, or empty, as
\* far as the loaded index can tell.
THEOREM RefusalsExact == Spec => []RefusalJustified
BY InductiveInvariant, IInvRefusals, PTL

-----------------------------------------------------------------------------
(* The ring implements the bounded queue *)

\* What a sequence has behind its first n elements.
After(s, n) == [i \in 1..(Len(s) - n) |-> s[n + i]]

\* The elements published and not yet popped, oldest first.
Unpopped == After(pushed, Len(popped))

LEMMA AfterIsSeq ==
    ASSUME NEW S, NEW s \in Seq(S), NEW n \in 0..Len(s)
    PROVE  /\ After(s, n) \in Seq(S)
           /\ Len(After(s, n)) = Len(s) - n
           /\ \A i \in 1..(Len(s) - n) : After(s, n)[i] = s[n + i]
<1>1. Len(s) \in Nat /\ Len(s) - n \in Nat
    BY LenProperties
<1>2. \A i \in 1..(Len(s) - n) : s[n + i] \in S
    BY <1>1, ElementOfSeq
<1>3. After(s, n) \in [1..(Len(s) - n) -> S]
    BY <1>2 DEF After
<1> QED BY <1>1, <1>3 DEF After

LEMMA AfterAppend ==
    ASSUME NEW S, NEW s \in Seq(S), NEW n \in 0..Len(s), NEW e \in S
    PROVE  After(Append(s, e), n) = Append(After(s, n), e)
<1> DEFINE t == Append(s, e)
<1>1. /\ t \in Seq(S) /\ Len(s) \in Nat /\ Len(t) = Len(s) + 1
      /\ \A i \in 1..Len(s) : t[i] = s[i]
      /\ t[Len(s) + 1] = e
    BY AppendProperties, LenProperties
<1> HIDE DEF t
<1>2. /\ After(s, n) \in Seq(S) /\ Len(After(s, n)) = Len(s) - n
      /\ \A i \in 1..(Len(s) - n) : After(s, n)[i] = s[n + i]
    BY AfterIsSeq
<1>3. /\ After(t, n) \in Seq(S)
      /\ Len(After(t, n)) = Len(s) + 1 - n
      /\ \A i \in 1..(Len(s) + 1 - n) : After(t, n)[i] = t[n + i]
    <2>1. n \in 0..Len(t)
        BY <1>1
    <2>2. /\ After(t, n) \in Seq(S) /\ Len(After(t, n)) = Len(t) - n
          /\ \A i \in 1..(Len(t) - n) : After(t, n)[i] = t[n + i]
        BY <1>1, <2>1, AfterIsSeq
    <2> QED BY <1>1, <2>2
<1>4. /\ Append(After(s, n), e) \in Seq(S)
      /\ Len(Append(After(s, n), e)) = Len(s) - n + 1
      /\ \A i \in 1..(Len(s) - n) : Append(After(s, n), e)[i] = After(s, n)[i]
      /\ Append(After(s, n), e)[Len(s) - n + 1] = e
    BY <1>2, AppendProperties
<1>5. ASSUME NEW i \in 1..(Len(s) + 1 - n)
      PROVE  After(t, n)[i] = Append(After(s, n), e)[i]
    <2>1. CASE i \in 1..(Len(s) - n)
        <3>1. n + i \in 1..Len(s)
            BY <1>1, <2>1
        <3> QED BY <1>1, <1>2, <1>3, <1>4, <2>1, <3>1
    <2>2. CASE i = Len(s) - n + 1
        <3>1. n + i = Len(s) + 1
            BY <1>1, <2>2
        <3> QED BY <1>1, <1>3, <1>4, <2>2, <3>1
    <2>3. i \in 1..(Len(s) - n) \/ i = Len(s) - n + 1
        BY <1>1, <1>5
    <2> QED BY <2>1, <2>2, <2>3
<1>6. After(t, n) = Append(After(s, n), e)
    <2>1. Len(s) - n + 1 = Len(s) + 1 - n
        BY <1>1
    <2> QED BY <1>3, <1>4, <1>5, <2>1, SeqEqual
<1> QED BY <1>6 DEF t

LEMMA AfterTail ==
    ASSUME NEW S, NEW s \in Seq(S), NEW n \in 0..Len(s), n < Len(s)
    PROVE  /\ After(s, n) # <<>>
           /\ Head(After(s, n)) = s[n + 1]
           /\ After(s, n + 1) = Tail(After(s, n))
<1>1. /\ Len(s) \in Nat /\ n + 1 \in 0..Len(s)
      /\ After(s, n) \in Seq(S) /\ Len(After(s, n)) = Len(s) - n
      /\ \A i \in 1..(Len(s) - n) : After(s, n)[i] = s[n + i]
    <2>1. Len(s) \in Nat /\ n + 1 \in 0..Len(s)
        BY LenProperties
    <2>2. /\ After(s, n) \in Seq(S) /\ Len(After(s, n)) = Len(s) - n
          /\ \A i \in 1..(Len(s) - n) : After(s, n)[i] = s[n + i]
        BY AfterIsSeq
    <2> QED BY <2>1, <2>2
<1>2. After(s, n) # <<>>
    BY <1>1, EmptySeq
<1>3. Head(After(s, n)) = s[n + 1]
    BY <1>1, <1>2
<1>4. /\ Tail(After(s, n)) \in Seq(S) /\ Len(Tail(After(s, n))) = Len(s) - n - 1
      /\ \A i \in 1..(Len(s) - n - 1) : Tail(After(s, n))[i] = After(s, n)[i + 1]
    BY <1>1, <1>2, HeadTailProperties
<1>5. /\ After(s, n + 1) \in Seq(S) /\ Len(After(s, n + 1)) = Len(s) - (n + 1)
      /\ \A i \in 1..(Len(s) - (n + 1)) : After(s, n + 1)[i] = s[n + 1 + i]
    BY <1>1, AfterIsSeq
<1>6. ASSUME NEW i \in 1..(Len(s) - (n + 1))
      PROVE  After(s, n + 1)[i] = Tail(After(s, n))[i]
    <2>1. i \in 1..(Len(s) - n - 1) /\ i + 1 \in 1..(Len(s) - n) /\ n + (i + 1) = n + 1 + i
        BY <1>1, <1>6
    <2> QED BY <1>1, <1>4, <1>5, <2>1
<1>7. After(s, n + 1) = Tail(After(s, n))
    <2>1. Len(s) - (n + 1) = Len(s) - n - 1
        BY <1>1
    <2> QED BY <1>4, <1>5, <1>6, <2>1, SeqEqual
<1> QED BY <1>2, <1>3, <1>7

\* Going i slots on from a slot, at most once round, ends at distance i.
LEMMA SlotAtDistance ==
    ASSUME NEW r \in Slots, NEW d \in 0..(Capacity - 1)
    PROVE  (r + d) % Capacity \in Slots /\ Dist(r, (r + d) % Capacity) = d
<1>1. CASE r + d < Capacity
    <2>1. r + d \in 0..(Capacity - 1)
        BY <1>1, CapacityAssumption DEF Slots
    <2>2. (r + d) % Capacity = r + d
        BY <2>1, CapacityAssumption
    <2> QED BY <2>1, <2>2 DEF Dist, Slots
<1>2. CASE r + d >= Capacity
    <2>1. r + d - Capacity \in 0..(Capacity - 1)
        BY <1>2, CapacityAssumption DEF Slots
    <2>2. (r + d) % Capacity = r + d - Capacity
        BY <2>1, CapacityAssumption DEF Slots
    <2> QED BY <2>1, <2>2, CapacityAssumption DEF Dist, Slots
<1> QED BY <1>1, <1>2, CapacityAssumption DEF Slots

LEMMA ContentsUnpopped == IInv => Contents = Unpopped
<1> SUFFICES ASSUME IInv PROVE Contents = Unpopped
    OBVIOUS
<1>1. /\ R \in Slots /\ Dist(R, W) = Len(pushed) - Len(popped)
      /\ Len(pushed) \in Nat /\ Len(popped) \in Nat
      /\ Len(pushed) - Len(popped) <= Capacity - 1
    BY Shapes, Occupancy DEF IInv
<1>2. ASSUME NEW i \in 1..(Len(pushed) - Len(popped))
      PROVE  (IF i = 1 /\ c_pc = "publish" THEN result ELSE m_buffer[(R + i - 1) % Capacity])
                = pushed[Len(popped) + i]
    <2>1. CASE i = 1 /\ c_pc = "publish"
        BY <2>1 DEF IInv, Admitted
    <2>2. CASE ~(i = 1 /\ c_pc = "publish")
        <3> DEFINE s == (R + (i - 1)) % Capacity
        <3>1. i - 1 \in 0..(Capacity - 1)
            BY <1>1, CapacityAssumption
        <3>2. s \in Slots /\ Dist(R, s) = i - 1
            BY <1>1, <3>1, SlotAtDistance
        <3>3. c_pc = "publish" => s # R
            BY <1>1, <2>2, <3>2, DistBasics
        <3>4. m_buffer[s] = pushed[Len(popped) + 1 + Dist(R, s)]
            BY <1>1, <3>2, <3>3 DEF IInv, Filled
        <3>5. Len(popped) + 1 + Dist(R, s) = Len(popped) + i /\ R + i - 1 = R + (i - 1)
            BY <1>1, <3>2 DEF Slots
        <3> QED BY <2>2, <3>4, <3>5
    <2> QED BY <2>1, <2>2
<1> QED BY <1>1, <1>2 DEF Contents, Unpopped, After, R, W

\* The store of m_write_index appends an element, that of m_read_index takes the oldest,
\* and no other step changes what is inside or what has come out.
LEMMA StepOfUnpopped ==
    ASSUME IInv, [Next]_vars
    PROVE  \/ UNCHANGED <<Unpopped, popped>>
           \/ /\ Unpopped # <<>>
              /\ popped' = Append(popped, Head(Unpopped))
              /\ Unpopped' = Tail(Unpopped)
           \/ \E v \in Values : /\ Len(Unpopped) < Capacity - 1
                                /\ Unpopped' = Append(Unpopped, v)
                                /\ UNCHANGED popped
<1>1. /\ Len(pushed) \in Nat /\ Len(popped) \in 0..Len(pushed)
      /\ pushed \in Seq(Values) /\ popped \in Seq(Values \cup {Vacant})
    <2>1. Len(pushed) \in Nat /\ Len(popped) \in Nat /\ Len(popped) <= Len(pushed)
        BY Shapes, Occupancy DEF IInv
    <2> QED BY <2>1 DEF IInv, TypeOK
<1>2. CASE UNCHANGED <<pushed, popped>>
    BY <1>2 DEF Unpopped, After
<1>3. CASE PushPublish
    <2>1. element \in Values /\ pushed' = Append(pushed, element) /\ popped' = popped
        BY <1>3 DEF PushPublish, IInv, TypeOK
    <2>2. Len(pushed) - (p_seen - 1) < Capacity - 1 /\ p_seen - 1 <= Len(popped)
        BY <1>1, <1>3 DEF PushPublish, IInv, TypeOK, Clocks, Admitted
    <2>3. Len(Unpopped) < Capacity - 1
        BY <1>1, <2>2, AfterIsSeq, CapacityAssumption DEF Unpopped, IInv, TypeOK
    <2>4. Unpopped' = Append(Unpopped, element)
        BY <1>1, <2>1, AfterAppend DEF Unpopped
    <2> QED BY <2>1, <2>3, <2>4
<1>4. CASE PopPublish
    <2>1. popped' = Append(popped, result) /\ pushed' = pushed
        BY <1>4 DEF PopPublish
    <2>2. result = pushed[Len(popped) + 1] /\ Len(popped) < Len(pushed)
        BY <1>1, <1>4 DEF PopPublish, IInv, TypeOK, Clocks, Admitted
    <2>3. Len(popped') = Len(popped) + 1
        BY <1>1, <2>1, AppendProperties DEF IInv, TypeOK
    <2> QED BY <1>1, <2>1, <2>2, <2>3, AfterTail DEF Unpopped
<1> QED BY <1>2, <1>3, <1>4
        DEF Next, TryPush, TryPop, vars, history, TryPushRefused, TryPushAdmitted, PushWrite,
            PushThrows, TryPopEmpty, TryPopAdmitted, PopTake, PopThrows

LEMMA InitImplements == Init => Abstract!Init
<1> SUFFICES ASSUME Init PROVE Abstract!Init
    OBVIOUS
<1>1. Contents = Unpopped
    BY InitIInv, ContentsUnpopped
<1>2. popped = <<>> /\ pushed = <<>>
    BY DEF Init
<1>3. Unpopped = <<>>
    BY <1>2 DEF Unpopped, After
<1> QED BY <1>1, <1>2, <1>3 DEF Abstract!Init

LEMMA StepImplements ==
    IInv /\ IInv' /\ [Next]_vars => [Abstract!Next]_(Abstract!vars)
<1>1. IInv' => (Contents = Unpopped)'
    BY ContentsUnpopped, PTL
<1> QED BY <1>1, ContentsUnpopped, StepOfUnpopped
        DEF Abstract!Next, Abstract!Pop, Abstract!Push, Abstract!vars

\* For every capacity the ring of slots and stale indices is the queue that BoundedFifo
\* describes: every call takes effect at one store, or not at all.
THEOREM ImplementsBoundedFifo == Spec => RefinesBoundedFifo
BY InductiveInvariant, InitImplements, StepImplements, PTL
   DEF Spec, RefinesBoundedFifo, Abstract!Spec
=============================================================================
