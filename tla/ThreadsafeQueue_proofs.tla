----------------------- MODULE ThreadsafeQueue_proofs -----------------------
(* Theorems about ThreadsafeQueue, for any number of producers, consumers, calls, *)
(* exceptions and spurious wakeups.                                               *)
EXTENDS ThreadsafeQueue, FiniteSetTheorems, SequenceTheorems, TLAPS

-----------------------------------------------------------------------------
(* The inductive invariant *)

\* The queue holds what threads have pushed; every call is one of those there are.
TypeOK ==
    /\ m_queue \in Seq(Values) /\ popped \in Seq(Values)
    /\ m_mutex \in Threads \cup {Nobody}
    /\ not_empty \subseteq Threads
    /\ pc \in [Threads -> {"idle", "lock", "locked", "notify", "asleep", "awake"}]
    /\ op \in [Threads -> PushOps \cup PopOps \cup LookOps]
    /\ calls \in [Threads -> Nat] /\ made \in 0..MaxCalls
    /\ told \in [Consumers -> {"no", "yes", "stale"}]
    /\ lost \in Nat /\ abandoned \in Nat

\* What a consumer was told and nobody has overtaken is still true, and a front() under
\* way was preceded by an empty() that returned false.
ToldRight ==
    /\ \A t \in Consumers : told[t] = "yes" => m_queue # <<>>
    /\ \A t \in Consumers : pc[t] \in {"lock", "locked"} /\ op[t] = "front" => told[t] # "no"

\* The threads that may still add an element.
Pushing == {t \in Threads : op[t] \in PushOps /\ pc[t] \in {"lock", "locked"}}

\* Pushes come from producers, and there are no more of them, done and under way, than
\* calls have been made.
Budget ==
    /\ \A t \in Threads : calls[t] <= made
    /\ \A t \in Pushing : t \in Producers /\ calls[t] > 0
    /\ Len(m_queue) + Cardinality(Pushing) <= made

IInv == TypeOK /\ Budget /\ MutualExclusion /\ ToldRight /\ NoLostWakeup

-----------------------------------------------------------------------------
(* Counting threads *)

Notifiers == At({"notify"})

LEMMA ThreadsCounted ==
    /\ IsFiniteSet(Notifiers) /\ Cardinality(Notifiers) \in Nat
    /\ IsFiniteSet(Alert) /\ Cardinality(Alert) \in Nat
    /\ IsFiniteSet(Pushing) /\ Cardinality(Pushing) \in Nat
<1>1. /\ Notifiers \in SUBSET Threads /\ Alert \in SUBSET Threads
      /\ Pushing \in SUBSET Threads
    BY DEF Notifiers, At, Alert, Pushing
<1> QED BY <1>1, ThreadsAssumption, FS_Subset, FS_CardinalityType

LEMMA OneMore ==
    ASSUME NEW S, IsFiniteSet(S), NEW x, x \notin S
    PROVE  Cardinality(S \cup {x}) = Cardinality(S) + 1
BY FS_AddElement

LEMMA OneLess ==
    ASSUME NEW S, IsFiniteSet(S), NEW x, x \in S
    PROVE  Cardinality(S \ {x}) = Cardinality(S) - 1
BY FS_RemoveElement

\* Nothing that leaves fewer threads about to push, and no more elements, exceeds the
\* budget.
LEMMA FewerPushing ==
    ASSUME Pushing' \subseteq Pushing
    PROVE  Cardinality(Pushing') \in Nat /\ Cardinality(Pushing') <= Cardinality(Pushing)
BY ThreadsCounted, FS_Subset, FS_CardinalityType

LEMMA BudgetStays ==
    ASSUME IInv, Pushing' \subseteq Pushing, UNCHANGED <<calls, made>>,
           Len(m_queue') \in Nat, Len(m_queue') <= Len(m_queue)
    PROVE  Budget'
BY FewerPushing, ThreadsCounted, LenProperties DEF IInv, TypeOK, Budget

LEMMA PushersItem == ASSUME IInv, NEW t \in Pushing PROVE Item(t) \in Values
<1>1. t \in Threads /\ t \in Producers /\ calls[t] > 0 /\ calls[t] <= made
    BY DEF IInv, Budget, Pushing
<1>2. calls[t] \in 1..MaxCalls
    BY <1>1, BoundsAssumption DEF IInv, TypeOK
<1> QED BY <1>1, <1>2 DEF Item, Values

-----------------------------------------------------------------------------
LEMMA InitEstablishes == Init => IInv
<1> SUFFICES ASSUME Init PROVE IInv
    OBVIOUS
<1>1. TypeOK
    BY BoundsAssumption DEF Init, TypeOK, LookOps
<1>2. MutualExclusion
    BY ThreadsAssumption DEF Init, MutualExclusion, At
<1>3. ToldRight /\ NoLostWakeup
    BY DEF Init, Threads, ToldRight, NoLostWakeup
<1>4. Budget
    <2>1. Pushing = {} /\ Len(m_queue) = 0
        BY DEF Init, Pushing
    <2> QED BY <2>1, FS_EmptySet DEF Init, Budget
<1> QED BY <1>1, <1>2, <1>3, <1>4 DEF IInv

LEMMA CallKeeps ==
    ASSUME IInv, NEW t \in Threads, NEW o \in Allowed(t), Call(t, o) PROVE IInv'
<1>1. TypeOK'
    BY BoundsAssumption DEF Call, Allowed, IInv, TypeOK, thread, history
<1>2. MutualExclusion'
    BY DEF Call, IInv, TypeOK, MutualExclusion, At
<1>3. ToldRight'
    BY DEF Call, IInv, TypeOK, ToldRight
<1>4. NoLostWakeup'
    <2>1. Notifiers' = Notifiers
        BY DEF Call, IInv, TypeOK, Notifiers, At
    <2>2. t \notin Alert /\ Alert' \in {Alert, Alert \cup {t}}
        BY DEF Call, IInv, TypeOK, Alert
    <2>3. Cardinality(Alert') \in Nat /\ Cardinality(Alert') >= Cardinality(Alert)
        BY <2>2, ThreadsCounted, OneMore
    <2> QED BY <2>1, <2>3, ThreadsCounted, LenProperties
            DEF Call, history, IInv, TypeOK, NoLostWakeup, Notifiers
<1>b. Budget'
    <2>1. t \notin Pushing
        BY DEF Call, Pushing
    <2>2. Pushing' \subseteq Pushing \/ Pushing' = Pushing \cup {t}
        BY DEF Call, IInv, TypeOK, Pushing
    <2>3. t \in Pushing' => t \in Producers
        BY DEF Call, Allowed, PopOps, LookOps, PushOps, IInv, TypeOK, Pushing
    <2>4. Cardinality(Pushing') \in Nat /\ Cardinality(Pushing') <= Cardinality(Pushing) + 1
        BY <2>1, <2>2, ThreadsCounted, FewerPushing, OneMore
    <2> QED BY <2>1, <2>2, <2>3, <2>4, ThreadsCounted, LenProperties, BoundsAssumption
            DEF Call, IInv, TypeOK, Budget
<1> QED BY <1>1, <1>2, <1>3, <1>4, <1>b DEF IInv

LEMMA LockKeeps == ASSUME IInv, NEW t \in Threads, Lock(t) PROVE IInv'
<1>1. TypeOK'
    BY DEF Lock, IInv, TypeOK, thread, history
<1>2. MutualExclusion'
    BY ThreadsAssumption DEF Lock, Free, thread, IInv, TypeOK, MutualExclusion, At
<1>3. ToldRight'
    BY DEF Lock, thread, IInv, TypeOK, MutualExclusion, ToldRight
<1>4. NoLostWakeup'
    <2>1. Notifiers' = Notifiers /\ Alert' = Alert
        BY DEF Lock, thread, IInv, TypeOK, Notifiers, At, Alert
    <2> QED BY <2>1 DEF Lock, history, IInv, NoLostWakeup, Notifiers
<1>b. Budget'
    <2>1. Pushing' \subseteq Pushing
        BY DEF Lock, PushOps, thread, IInv, TypeOK, MutualExclusion, Pushing
    <2> QED BY <2>1, BudgetStays, LenProperties DEF Lock, thread, IInv, TypeOK
<1> QED BY <1>1, <1>2, <1>3, <1>4, <1>b DEF IInv

LEMMA TryLockFailsKeeps == ASSUME IInv, NEW t \in Threads, TryLockFails(t) PROVE IInv'
<1>1. TypeOK'
    BY DEF TryLockFails, IInv, TypeOK, thread, history
<1>2. MutualExclusion'
    BY DEF TryLockFails, thread, IInv, TypeOK, MutualExclusion, At
<1>3. ToldRight'
    BY DEF TryLockFails, thread, IInv, TypeOK, ToldRight
<1>4. NoLostWakeup'
    <2>1. Notifiers' = Notifiers /\ Alert' = Alert
        BY DEF TryLockFails, TryOps, thread, IInv, TypeOK, Notifiers, At, Alert
    <2> QED BY <2>1 DEF TryLockFails, history, IInv, NoLostWakeup, Notifiers
<1>b. Budget'
    <2>1. Pushing' \subseteq Pushing
        BY DEF TryLockFails, thread, IInv, TypeOK, Pushing
    <2> QED BY <2>1, BudgetStays, LenProperties DEF TryLockFails, thread, IInv, TypeOK
<1> QED BY <1>1, <1>2, <1>3, <1>4, <1>b DEF IInv

LEMMA SpuriousWakeupKeeps == ASSUME IInv, NEW t \in Threads, SpuriousWakeup(t) PROVE IInv'
<1>1. TypeOK'
    BY DEF SpuriousWakeup, IInv, TypeOK, thread, history
<1>2. MutualExclusion'
    BY DEF SpuriousWakeup, thread, IInv, TypeOK, MutualExclusion, At
<1>3. ToldRight'
    BY DEF SpuriousWakeup, thread, IInv, TypeOK, ToldRight
<1>4. NoLostWakeup'
    <2>1. Notifiers' = Notifiers
        BY DEF SpuriousWakeup, IInv, TypeOK, Notifiers, At
    <2>2. t \notin Alert /\ Alert' = Alert \cup {t}
        BY DEF SpuriousWakeup, thread, IInv, TypeOK, MutualExclusion, Alert
    <2>3. Cardinality(Alert') = Cardinality(Alert) + 1
        BY <2>2, ThreadsCounted, OneMore
    <2> QED BY <2>1, <2>3, ThreadsCounted, LenProperties
            DEF SpuriousWakeup, history, IInv, TypeOK, NoLostWakeup, Notifiers
<1>b. Budget'
    <2>1. Pushing' \subseteq Pushing
        BY DEF SpuriousWakeup, thread, IInv, TypeOK, Pushing
    <2> QED BY <2>1, BudgetStays, LenProperties DEF SpuriousWakeup, thread, IInv, TypeOK
<1> QED BY <1>1, <1>2, <1>3, <1>4, <1>b DEF IInv

-----------------------------------------------------------------------------
(* The bodies of the critical sections, and the notification *)

\* Leaving the critical section for a place outside keeps the mutex exact, whatever else
\* the step does to the queue.
LEMMA UnlockKeepsMutualExclusion ==
    ASSUME IInv, NEW t \in Threads, NEW where \in {"idle", "notify"}, Unlock(t, where),
           UNCHANGED <<not_empty, op>>
    PROVE  MutualExclusion'
BY ThreadsAssumption DEF Unlock, IInv, TypeOK, MutualExclusion, At

\* Leaving it for good changes who notifies not at all, and who is alert if it was a pop.
LEMMA UnlockCounts ==
    ASSUME IInv, NEW t \in Threads, Unlock(t, "idle"), UNCHANGED op
    PROVE  /\ Notifiers' = Notifiers
           /\ op[t] # "pop" => Alert' = Alert
           /\ op[t] = "pop" => Cardinality(Alert') = Cardinality(Alert) - 1
<1>1. Notifiers' = Notifiers
    BY DEF Unlock, IInv, TypeOK, Notifiers, At
<1>2. op[t] # "pop" => Alert' = Alert
    BY DEF Unlock, IInv, TypeOK, Alert
<1>3. op[t] = "pop" => t \in Alert /\ Alert' = Alert \ {t}
    BY DEF Unlock, IInv, TypeOK, Alert
<1>4. op[t] = "pop" => Cardinality(Alert') = Cardinality(Alert) - 1
    BY <1>3, ThreadsCounted, OneLess
<1> QED BY <1>1, <1>2, <1>4

LEMMA PushItemKeeps == ASSUME IInv, NEW t \in Threads, PushItem(t) PROVE IInv'
<1>1. t \in Pushing /\ Item(t) \in Values
    BY PushersItem DEF PushItem, Unlock, Pushing
<1>2. TypeOK'
    BY <1>1, AppendProperties DEF PushItem, Unlock, IInv, TypeOK, thread, history
<1>3. MutualExclusion'
    BY UnlockKeepsMutualExclusion DEF PushItem, thread
<1>4. ToldRight'
    <2>1. m_queue' # <<>>
        BY <1>1, AppendProperties DEF PushItem, IInv, TypeOK
    <2> QED BY <2>1 DEF PushItem, Unlock, thread, IInv, TypeOK, ToldRight
<1>5. NoLostWakeup'
    <2>1. t \notin Notifiers /\ Notifiers' = Notifiers \cup {t}
        BY DEF PushItem, Unlock, IInv, TypeOK, Notifiers, At
    <2>2. Alert' = Alert
        BY DEF PushItem, PushOps, Unlock, thread, IInv, TypeOK, Alert
    <2>3. Cardinality(Notifiers') = Cardinality(Notifiers) + 1
        BY <2>1, ThreadsCounted, OneMore
    <2>4. Len(m_queue') = Len(m_queue) + 1
        BY <1>1, AppendProperties DEF PushItem, IInv, TypeOK
    <2> QED BY <2>2, <2>3, <2>4, ThreadsCounted, LenProperties
            DEF PushItem, history, IInv, TypeOK, NoLostWakeup, Notifiers
<1>b. Budget'
    <2>1. Pushing' = Pushing \ {t}
        BY DEF PushItem, Unlock, thread, IInv, TypeOK, Pushing
    <2>2. Cardinality(Pushing') = Cardinality(Pushing) - 1
        BY <1>1, <2>1, ThreadsCounted, OneLess
    <2>3. Len(m_queue') = Len(m_queue) + 1
        BY <1>1, AppendProperties DEF PushItem, IInv, TypeOK
    <2> QED BY <2>1, <2>2, <2>3, ThreadsCounted, LenProperties
            DEF PushItem, thread, IInv, TypeOK, Budget
<1> QED BY <1>2, <1>3, <1>4, <1>5, <1>b DEF IInv

LEMMA PushThrowsKeeps == ASSUME IInv, NEW t \in Threads, PushThrows(t) PROVE IInv'
<1>1. TypeOK'
    BY DEF PushThrows, Unlock, IInv, TypeOK, thread, history
<1>2. MutualExclusion'
    BY UnlockKeepsMutualExclusion DEF PushThrows, thread
<1>3. ToldRight'
    BY DEF PushThrows, Unlock, thread, IInv, TypeOK, ToldRight
<1>4. NoLostWakeup'
    BY UnlockCounts DEF PushThrows, PushOps, thread, history, IInv, NoLostWakeup, Notifiers
<1>b. Budget'
    <2>1. Pushing' \subseteq Pushing
        BY DEF PushThrows, Unlock, thread, IInv, TypeOK, Pushing
    <2> QED BY <2>1, BudgetStays, LenProperties DEF PushThrows, Unlock, thread, IInv, TypeOK
<1> QED BY <1>1, <1>2, <1>3, <1>4, <1>b DEF IInv

LEMMA NotifyKeeps == ASSUME IInv, NEW t \in Threads, Notify(t) PROVE IInv'
<1>1. PICK woken \in WakesOne(not_empty) :
          /\ not_empty' = not_empty \ woken
          /\ pc' = [u \in Threads |-> IF u = t THEN "idle"
                                      ELSE IF u \in woken THEN "awake" ELSE pc[u]]
    BY DEF Notify
<1>2. pc[t] = "notify" /\ UNCHANGED <<m_queue, m_mutex, op, calls, made, told, popped, lost, abandoned>>
    BY DEF Notify, thread, history
<1>3. woken \subseteq not_empty /\ (not_empty # {} => \E u \in not_empty : woken = {u})
    BY DEF WakesOne
<1>4. TypeOK'
    BY <1>1, <1>2 DEF IInv, TypeOK
<1>5. MutualExclusion'
    <2>1. /\ t \notin woken
          /\ \A u \in woken : u \in Threads /\ pc[u] = "asleep" /\ op[u] = "pop"
        BY <1>2, <1>3 DEF IInv, TypeOK, MutualExclusion, At
    <2>2. \A u \in Threads : pc'[u] = "locked" <=> m_mutex' = u
        BY <2>1, <1>1, <1>2 DEF IInv, TypeOK, MutualExclusion
    <2>3. not_empty' = At({"asleep"})'
        BY <2>1, <1>1, <1>2 DEF IInv, TypeOK, MutualExclusion, At
    <2>4. \A u \in Threads : pc'[u] \in {"asleep", "awake"} => op'[u] = "pop"
        BY <2>1, <1>1, <1>2 DEF IInv, TypeOK, MutualExclusion
    <2> QED BY <2>2, <2>3, <2>4 DEF MutualExclusion
<1>6. ToldRight'
    <2>1. \A u \in Threads : pc'[u] \in {"lock", "locked"} => pc[u] = pc'[u]
        BY <1>1 DEF IInv, TypeOK
    <2> QED BY <2>1, <1>2 DEF Threads, IInv, ToldRight
<1>7. NoLostWakeup'
    <2>1. CASE not_empty = {}
        BY <2>1, <1>1 DEF NoLostWakeup
    <2>2. CASE not_empty # {}
        <3>1. PICK u \in not_empty : woken = {u}
            BY <2>2, <1>3
        <3>2. t \in Notifiers /\ Notifiers' = Notifiers \ {t}
            BY <1>1, <1>2, <1>3 DEF IInv, TypeOK, MutualExclusion, Notifiers, At
        <3>3. u \notin Alert /\ Alert' = Alert \cup {u}
            BY <1>1, <1>2, <3>1 DEF IInv, TypeOK, MutualExclusion, Alert, At
        <3>4. /\ Cardinality(Notifiers') = Cardinality(Notifiers) - 1
              /\ Cardinality(Alert') = Cardinality(Alert) + 1
            BY <3>2, <3>3, ThreadsCounted, OneMore, OneLess
        <3> QED BY <2>2, <3>4, <1>2, ThreadsCounted, LenProperties
                DEF IInv, TypeOK, NoLostWakeup, Notifiers
    <2> QED BY <2>1, <2>2
<1>b. Budget'
    <2>1. Pushing' \subseteq Pushing
        BY <1>1, <1>2 DEF IInv, TypeOK, Pushing
    <2> QED BY <2>1, <1>2, BudgetStays, LenProperties DEF IInv, TypeOK
<1> QED BY <1>4, <1>5, <1>6, <1>7, <1>b DEF IInv

LEMMA PopWaitsKeeps == ASSUME IInv, NEW t \in Threads, PopWaits(t) PROVE IInv'
<1>1. TypeOK'
    BY DEF PopWaits, Unlock, IInv, TypeOK, thread, history
<1>2. MutualExclusion'
    BY ThreadsAssumption DEF PopWaits, Unlock, thread, IInv, TypeOK, MutualExclusion, At
<1>3. ToldRight'
    BY DEF PopWaits, Unlock, thread, IInv, TypeOK, ToldRight
<1>4. Len(m_queue') = 0
    BY DEF PopWaits, HasElement
<1>5. /\ Cardinality(Notifiers') \in Nat /\ Cardinality(Alert') \in Nat
    <2>1. Notifiers' \in SUBSET Threads /\ Alert' \in SUBSET Threads
        BY DEF Notifiers, At, Alert
    <2> QED BY <2>1, ThreadsAssumption, FS_Subset, FS_CardinalityType
<1>6. NoLostWakeup'
    BY <1>1, <1>4, <1>5 DEF TypeOK, NoLostWakeup, Notifiers
<1>b. Budget'
    <2>1. Pushing' \subseteq Pushing
        BY DEF PopWaits, Unlock, thread, IInv, TypeOK, Pushing
    <2> QED BY <2>1, BudgetStays, LenProperties DEF PopWaits, Unlock, thread, IInv, TypeOK
<1> QED BY <1>1, <1>2, <1>3, <1>6, <1>b DEF IInv

LEMMA TryPopEmptyKeeps == ASSUME IInv, NEW t \in Threads, TryPopEmpty(t) PROVE IInv'
<1>1. TypeOK'
    BY DEF TryPopEmpty, Unlock, IInv, TypeOK, thread, history
<1>2. MutualExclusion'
    BY UnlockKeepsMutualExclusion DEF TryPopEmpty, thread
<1>3. ToldRight'
    BY DEF TryPopEmpty, Unlock, thread, IInv, TypeOK, ToldRight
<1>4. NoLostWakeup'
    BY UnlockCounts DEF TryPopEmpty, thread, history, IInv, NoLostWakeup, Notifiers
<1>b. Budget'
    <2>1. Pushing' \subseteq Pushing
        BY DEF TryPopEmpty, Unlock, thread, IInv, TypeOK, Pushing
    <2> QED BY <2>1, BudgetStays, LenProperties DEF TryPopEmpty, Unlock, thread, IInv, TypeOK
<1> QED BY <1>1, <1>2, <1>3, <1>4, <1>b DEF IInv

LEMMA PopItemKeeps == ASSUME IInv, NEW t \in Threads, PopItem(t) PROVE IInv'
<1>1. m_queue # <<>> /\ m_queue \in Seq(Values)
    BY DEF PopItem, HasElement, IInv, TypeOK
<1>2. Tail(m_queue) \in Seq(Values) /\ Len(Tail(m_queue)) = Len(m_queue) - 1
    BY <1>1, HeadTailProperties
<1>h. Head(m_queue) \in Values /\ Append(popped, Head(m_queue)) \in Seq(Values)
    BY <1>1, HeadTailProperties, AppendProperties DEF IInv, TypeOK
<1>3. TypeOK'
    BY <1>2, <1>h DEF PopItem, Front, Unlock, IInv, TypeOK, thread
<1>4. MutualExclusion'
    BY UnlockKeepsMutualExclusion DEF PopItem, thread
<1>5. ToldRight'
    BY DEF PopItem, Unlock, PopOps, thread, IInv, TypeOK, ToldRight
<1>6. NoLostWakeup'
    BY <1>1, <1>2, UnlockCounts, ThreadsCounted, LenProperties
       DEF PopItem, PopOps, thread, IInv, TypeOK, NoLostWakeup, Notifiers
<1>b. Budget'
    <2>1. Pushing' \subseteq Pushing
        BY DEF PopItem, Unlock, thread, IInv, TypeOK, Pushing
    <2> QED BY <2>1, <1>1, <1>2, BudgetStays, LenProperties DEF PopItem, thread
<1> QED BY <1>3, <1>4, <1>5, <1>6, <1>b DEF IInv

LEMMA PopThrowsKeeps == ASSUME IInv, NEW t \in Threads, PopThrows(t) PROVE IInv'
<1>1. TypeOK'
    BY DEF PopThrows, AfterThrow, Unlock, IInv, TypeOK, thread
<1>2. MutualExclusion'
    BY UnlockKeepsMutualExclusion DEF PopThrows, thread
<1>3. ToldRight'
    BY DEF PopThrows, AfterThrow, Unlock, thread, IInv, TypeOK, ToldRight
<1>4. NoLostWakeup'
    <2>1. /\ UNCHANGED <<m_queue, not_empty, op>> /\ abandoned \in Nat
          /\ abandoned' = IF op[t] = "pop" THEN abandoned + 1 ELSE abandoned
        BY DEF PopThrows, AfterThrow, thread, IInv, TypeOK
    <2>2. Unlock(t, "idle")
        BY DEF PopThrows
    <2> QED BY <2>1, <2>2, UnlockCounts, ThreadsCounted, LenProperties
            DEF IInv, TypeOK, NoLostWakeup, Notifiers
<1>b. Budget'
    <2>1. Pushing' \subseteq Pushing
        BY DEF PopThrows, AfterThrow, Unlock, thread, IInv, TypeOK, Pushing
    <2> QED BY <2>1, BudgetStays, LenProperties DEF PopThrows, AfterThrow, Unlock, thread, IInv, TypeOK
<1> QED BY <1>1, <1>2, <1>3, <1>4, <1>b DEF IInv

LEMMA PopLosesKeeps == ASSUME IInv, NEW t \in Threads, PopLoses(t) PROVE IInv'
<1>1. m_queue # <<>> /\ m_queue \in Seq(Values)
    BY DEF PopLoses, HasElement, IInv, TypeOK
<1>2. Tail(m_queue) \in Seq(Values) /\ Len(Tail(m_queue)) = Len(m_queue) - 1
    BY <1>1, HeadTailProperties
<1>3. TypeOK'
    BY <1>2 DEF PopLoses, Unlock, IInv, TypeOK, thread, history
<1>4. MutualExclusion'
    BY UnlockKeepsMutualExclusion DEF PopLoses, thread
<1>5. ToldRight'
    BY DEF PopLoses, Unlock, thread, IInv, TypeOK, ToldRight
<1>6. NoLostWakeup'
    BY <1>1, <1>2, UnlockCounts, ThreadsCounted, LenProperties
       DEF PopLoses, PopOps, thread, history, IInv, TypeOK, NoLostWakeup, Notifiers
<1>b. Budget'
    <2>1. Pushing' \subseteq Pushing
        BY DEF PopLoses, Unlock, thread, IInv, TypeOK, Pushing
    <2> QED BY <2>1, <1>1, <1>2, BudgetStays, LenProperties DEF PopLoses, thread
<1> QED BY <1>3, <1>4, <1>5, <1>6, <1>b DEF IInv

LEMMA LookKeeps == ASSUME IInv, NEW t \in Threads, Look(t) PROVE IInv'
<1>1. TypeOK'
    BY DEF Look, Unlock, IInv, TypeOK, thread, history
<1>2. MutualExclusion'
    BY UnlockKeepsMutualExclusion DEF Look, thread
<1>3. ToldRight'
    BY DEF Look, Unlock, thread, IInv, TypeOK, ToldRight
<1>4. NoLostWakeup'
    BY UnlockCounts DEF Look, LookOps, thread, history, IInv, NoLostWakeup, Notifiers
<1>b. Budget'
    <2>1. Pushing' \subseteq Pushing
        BY DEF Look, Unlock, thread, IInv, TypeOK, Pushing
    <2> QED BY <2>1, BudgetStays, LenProperties DEF Look, Unlock, thread, IInv, TypeOK
<1> QED BY <1>1, <1>2, <1>3, <1>4, <1>b DEF IInv

-----------------------------------------------------------------------------
LEMMA NextKeeps == IInv /\ [Next]_vars => IInv'
<1> SUFFICES ASSUME IInv, [Next]_vars PROVE IInv'
    OBVIOUS
<1>1. CASE UNCHANGED vars
    BY <1>1 DEF vars, thread, history, IInv, TypeOK, MutualExclusion, At, ToldRight,
               NoLostWakeup, Alert, Budget, Pushing
<1>2. CASE Quiescent
    BY <1>1, <1>2 DEF Quiescent
<1>3. ASSUME NEW t \in Threads, Work(t) PROVE IInv'
    BY <1>3, PushItemKeeps, PushThrowsKeeps, NotifyKeeps, PopWaitsKeeps, TryPopEmptyKeeps,
       PopItemKeeps, PopThrowsKeeps, PopLosesKeeps, LookKeeps DEF Work
<1> QED BY <1>1, <1>2, <1>3, CallKeeps, LockKeeps, TryLockFailsKeeps, SpuriousWakeupKeeps
        DEF Next

\* The strengthening: the counts of NoLostWakeup go with an exact mutex, and what
\* consumers were told with the queue.
THEOREM InductiveInvariant == Spec => []IInv
BY InitEstablishes, NextKeeps, PTL DEF Spec

\* One thread at a time in the critical section, and the condition variable knows
\* exactly those who sleep on it, for any number of threads and calls.
THEOREM MutexExact == Spec => []MutualExclusion
<1>1. IInv => MutualExclusion
    BY DEF IInv
<1> QED BY <1>1, InductiveInvariant, PTL

\* However many producers and consumers come between an unlock and its notify_one: while
\* a pop sleeps, each element has a notification to come or a pop on its way, but for one
\* per pop that has thrown and left its element.
THEOREM WakeupsNotLost == Spec => []NoLostWakeup
<1>1. IInv => NoLostWakeup
    BY DEF IInv
<1> QED BY <1>1, InductiveInvariant, PTL

\* A consumer that asked empty() finds an element at front() unless one has been removed
\* since, by a pop that returned it or by one that threw while returning it.
THEOREM FrontFindsElement == Spec => []FrontDefined
<1>1. IInv => FrontDefined
    BY DEF IInv, TypeOK, ToldRight, FrontDefined
<1> QED BY <1>1, InductiveInvariant, PTL

-----------------------------------------------------------------------------
(* The queue of every client is the abstract one *)

LEMMA InitImplements == Init => Abstract!Init
BY DEF Init, Abstract!Init

LEMMA StepImplements == IInv /\ [Next]_vars => [Abstract!Next]_(Abstract!vars)
<1> SUFFICES ASSUME IInv, [Next]_vars PROVE [Abstract!Next]_(Abstract!vars)
    OBVIOUS
<1>1. CASE UNCHANGED <<m_queue, popped, lost>>
    BY <1>1 DEF Abstract!vars
<1>2. ASSUME NEW t \in Threads, PushItem(t) PROVE Abstract!Next
    <2>1. t \in Pushing /\ Item(t) \in Values
        BY <1>2, PushersItem DEF PushItem, Unlock, Pushing
    <2>2. Cardinality(Pushing) >= 1
        <3>1. Cardinality(Pushing \ {t}) = Cardinality(Pushing) - 1
            BY <2>1, ThreadsCounted, OneLess
        <3>2. Cardinality(Pushing \ {t}) \in Nat
            BY ThreadsCounted, FS_Subset, FS_CardinalityType
        <3> QED BY <3>1, <3>2, ThreadsCounted
    <2>3. Len(m_queue) < MaxCalls
        BY <2>2, ThreadsCounted, LenProperties, BoundsAssumption DEF IInv, TypeOK, Budget
    <2>4. Abstract!Push(Item(t))
        BY <1>2, <2>3 DEF PushItem, history, Abstract!Push
    <2> QED BY <2>1, <2>4 DEF Abstract!Next
<1>3. ASSUME NEW t \in Threads, PopItem(t) PROVE Abstract!Next
    BY <1>3 DEF PopItem, HasElement, Front, Abstract!Pop, Abstract!Next
<1>l. ASSUME NEW t \in Threads, PopLoses(t) PROVE Abstract!Next
    BY <1>l DEF PopLoses, HasElement, history, Abstract!Lose, Abstract!Next
<1>4. ASSUME NEW t \in Threads, Work(t), ~PushItem(t), ~PopItem(t), ~PopLoses(t)
      PROVE  UNCHANGED <<m_queue, popped, lost>>
    BY <1>4 DEF Work, PushThrows, Notify, PopWaits, TryPopEmpty, PopThrows, AfterThrow, Look,
               history
<1>5. ASSUME NEW t \in Threads,
             Lock(t) \/ TryLockFails(t) \/ SpuriousWakeup(t) \/ \E o \in Allowed(t) : Call(t, o)
      PROVE  UNCHANGED <<m_queue, popped, lost>>
    BY <1>5 DEF Lock, TryLockFails, SpuriousWakeup, Call, history
<1>6. UNCHANGED vars \/ Quiescent => UNCHANGED <<m_queue, popped, lost>>
    BY DEF vars, history, Quiescent
<1> QED BY <1>1, <1>2, <1>3, <1>l, <1>4, <1>5, <1>6 DEF Next

\* For any number of threads, calls, exceptions and wakeups: what the clients see is one
\* FIFO, every push and every pop taking effect inside its critical section; it loses its
\* front to a pop that throws on return, and no element otherwise.
THEOREM ImplementsBoundedFifo == Spec => RefinesFifo
BY InductiveInvariant, InitImplements, StepImplements, PTL DEF Spec, RefinesFifo, Abstract!Spec
=============================================================================
