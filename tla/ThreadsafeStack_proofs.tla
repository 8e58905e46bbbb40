----------------------- MODULE ThreadsafeStack_proofs -----------------------
(* Theorems about ThreadsafeStack, for any number of stacks, threads and calls. *)
EXTENDS ThreadsafeStack, SequenceTheorems, TLAPS

-----------------------------------------------------------------------------
(* The inductive invariant *)

TypeOK ==
    /\ m_stack \in [Stacks -> Seq(Values)]
    /\ writer \in [Stacks -> Threads \cup {Nobody}]
    /\ readers \in [Stacks -> SUBSET Threads]
    /\ pc \in [Threads -> {"idle", "lock", "pair", "write", "read", "half"}]
    /\ op \in [Threads -> WriteOps \cup ReadOps \cup PairOps]
    /\ args \in [Threads -> Seq(Stacks)]
    /\ saw \in [Threads -> Seq(Values)]
    /\ calls \in [Threads -> 0..MaxCalls] /\ made \in 0..MaxCalls

\* A call under way has its stacks, two different ones if it needs two, has been counted,
\* and is at a place of its operation.
CallsFit ==
    \A t \in Threads :
        /\ calls[t] <= made
        /\ pc[t] # "idle" => /\ calls[t] > 0
                             /\ args[t][1] \in Stacks
                             /\ op[t] \in PairOps => args[t][2] \in Stacks \ {args[t][1]}
        /\ pc[t] = "pair" => op[t] \in PairOps
        /\ pc[t] = "write" => op[t] \in WriteOps \cup {"swap"}
        /\ pc[t] = "half" => op[t] = "swap"
        /\ pc[t] = "read" => op[t] \in ReadOps \cup {"equal"}

About(t) == IF op[t] \in PairOps THEN {args[t][1], args[t][2]} ELSE {args[t][1]}

Exclusive(t) == pc[t] \in {"write", "half"} \/ (pc[t] = "read" /\ op[t] = "equal")
Sharing(t) == pc[t] = "read" /\ op[t] \in ReadOps

\* Who holds what: a thread holds the mutexes of the stacks its call is about while it
\* works on them, one of the two while it tries for the other, and none elsewhere.
LocksExact ==
    /\ \A t \in Threads, s \in Stacks :
          /\ Exclusive(t) => (writer[s] = t <=> s \in About(t))
          /\ pc[t] = "pair" => (writer[s] = t => s \in About(t))
          /\ pc[t] \in {"idle", "lock"} \/ Sharing(t) => writer[s] # t
          /\ t \in readers[s] <=> Sharing(t) /\ s = args[t][1]
    /\ \A t \in Threads :
          pc[t] = "pair" => \/ writer[args[t][1]] = t /\ writer[args[t][2]] # t
                            \/ writer[args[t][1]] # t /\ writer[args[t][2]] = t
    /\ \A s \in Stacks : readers[s] # {} => writer[s] = Nobody

IInv == TypeOK /\ CallsFit /\ LocksExact /\ StableRead

-----------------------------------------------------------------------------
(* What holding a mutex means *)

\* The mutex a pair still lacks is the other one.
LEMMA SecondIsOther ==
    ASSUME IInv, NEW t \in Threads, pc[t] = "pair"
    PROVE  /\ Second(t) \in About(t) /\ About(t) \subseteq Stacks /\ writer[Second(t)] # t
           /\ \A s \in About(t) : s # Second(t) => writer[s] = t
<1>1. \E s \in {args[t][1], args[t][2]} : writer[s] # t
    BY DEF IInv, LocksExact
<1>2. Second(t) \in {args[t][1], args[t][2]} /\ writer[Second(t)] # t
    BY <1>1 DEF Second
<1> QED BY <1>2 DEF IInv, CallsFit, LocksExact, About

\* What a thread has begun to read is not under the mutex of another.
LEMMA ReadersAreApart ==
    ASSUME IInv, NEW t \in Threads, NEW u \in Threads \ {t}, NEW s \in Stacks, writer[s] = t,
           pc[u] = "read" \/ (pc[u] = "write" /\ op[u] = "swap")
    PROVE  args[u][1] # s
<1>1. CASE Sharing(u)
    BY <1>1, ThreadsAssumption DEF IInv, LocksExact
<1>2. CASE Exclusive(u)
    <2>1. args[u][1] \in About(u)
        BY DEF About
    <2> QED BY <1>2, <2>1 DEF IInv, CallsFit, LocksExact
<1> QED BY <1>1, <1>2 DEF IInv, CallsFit, Sharing, Exclusive

-----------------------------------------------------------------------------
LEMMA InitEstablishes == Init => IInv
BY ThreadsAssumption, BoundAssumption
   DEF Init, IInv, TypeOK, CallsFit, LocksExact, StableRead, Exclusive, Sharing, ReadOps

LEMMA BeginKeeps ==
    ASSUME IInv, NEW t \in Threads, NEW o \in WriteOps \cup ReadOps \cup PairOps,
           NEW stacks \in Seq(Stacks), stacks[1] \in Stacks,
           o \in PairOps => stacks[2] \in Stacks \ {stacks[1]},
           Begin(t, o, stacks)
    PROVE  IInv'
<1>1. TypeOK'
    <2>1. calls[t] + 1 \in 0..MaxCalls /\ made + 1 \in 0..MaxCalls
        BY BoundAssumption DEF Begin, IInv, TypeOK, CallsFit
    <2> QED BY <2>1 DEF Begin, IInv, TypeOK
<1>2. CallsFit'
    BY BoundAssumption DEF Begin, IInv, TypeOK, CallsFit
<1>3. LocksExact'
    BY DEF Begin, IInv, TypeOK, LocksExact, About, Exclusive, Sharing
<1>4. StableRead'
    BY DEF Begin, IInv, TypeOK, StableRead
<1> QED BY <1>1, <1>2, <1>3, <1>4 DEF IInv

LEMMA CallKeeps == ASSUME IInv, NEW t \in Threads, Call(t) PROVE IInv'
<1>1. ASSUME NEW o \in WriteOps \cup ReadOps, NEW s \in Stacks, Begin(t, o, <<s>>) PROVE IInv'
    <2>1. o \notin PairOps
        BY DEF WriteOps, ReadOps, PairOps
    <2>2. <<s>> \in Seq(Stacks) /\ <<s>>[1] = s
        OBVIOUS
    <2> QED BY <1>1, <2>1, <2>2, BeginKeeps
<1>2. ASSUME NEW o \in PairOps, NEW s \in Stacks, NEW u \in Stacks \ {s}, Begin(t, o, <<s, u>>)
      PROVE  IInv'
    <2>1. <<s, u>> \in Seq(Stacks) /\ <<s, u>>[1] = s /\ <<s, u>>[2] = u
        OBVIOUS
    <2> QED BY <1>2, <2>1, BeginKeeps
<1> QED BY <1>1, <1>2 DEF Call

LEMMA LockExclusiveKeeps == ASSUME IInv, NEW t \in Threads, LockExclusive(t) PROVE IInv'
<1>1. op[t] \notin PairOps /\ op[t] \notin ReadOps /\ args[t][1] \in Stacks
    BY DEF LockExclusive, WriteOps, PairOps, ReadOps, IInv, CallsFit
<1>2. TypeOK'
    BY <1>1 DEF LockExclusive, call, IInv, TypeOK
<1>3. CallsFit'
    BY DEF LockExclusive, call, IInv, TypeOK, CallsFit
<1>4. LocksExact'
    BY <1>1, ThreadsAssumption DEF LockExclusive, FreeForWriter, call, IInv, TypeOK, LocksExact,
       About, Exclusive, Sharing
<1>5. StableRead'
    BY <1>1 DEF LockExclusive, WriteOps, call, IInv, TypeOK, StableRead
<1> QED BY <1>2, <1>3, <1>4, <1>5 DEF IInv

LEMMA LockSharedKeeps == ASSUME IInv, NEW t \in Threads, LockShared(t) PROVE IInv'
<1>1. op[t] # "equal" /\ op[t] # "swap" /\ args[t][1] \in Stacks
    BY DEF LockShared, ReadOps, IInv, CallsFit
<1>2. TypeOK'
    BY <1>1 DEF LockShared, call, IInv, TypeOK
<1>3. CallsFit'
    BY DEF LockShared, call, IInv, TypeOK, CallsFit
<1>4. LocksExact'
    BY <1>1, ThreadsAssumption DEF LockShared, FreeForReader, call, IInv, TypeOK, LocksExact,
       About, Exclusive, Sharing
<1>5. StableRead'
    BY <1>1 DEF LockShared, call, IInv, TypeOK, StableRead
<1> QED BY <1>2, <1>3, <1>4, <1>5 DEF IInv

LEMMA LockFirstKeeps == ASSUME IInv, NEW t \in Threads, LockFirst(t) PROVE IInv'
<1>1. PICK s \in {args[t][1], args[t][2]} :
          FreeForWriter(s) /\ writer' = [writer EXCEPT ![s] = t]
    BY DEF LockFirst
<1>2. s \in Stacks /\ s \in About(t) /\ op[t] \in PairOps
    BY DEF LockFirst, About, IInv, CallsFit
<1>3. TypeOK'
    BY <1>1, <1>2 DEF LockFirst, call, IInv, TypeOK
<1>4. CallsFit'
    BY DEF LockFirst, call, IInv, TypeOK, CallsFit
<1>5. LocksExact'
    <2>1. \A u \in Threads, q \in Stacks : writer[q] = u => writer'[q] = u
        BY <1>1, <1>2, ThreadsAssumption DEF FreeForWriter, IInv, TypeOK
    <2>2. \A u \in Threads \ {t}, q \in Stacks : writer'[q] = u => writer[q] = u
        BY <1>1, <1>2, ThreadsAssumption DEF FreeForWriter, IInv, TypeOK
    <2>3. \A q \in Stacks : writer'[q] = t <=> q = s
        BY <1>1, <1>2 DEF LockFirst, IInv, TypeOK, LocksExact
    <2>4. \A q \in Stacks : readers'[q] # {} => writer'[q] = Nobody
        BY <1>1, <1>2 DEF LockFirst, FreeForWriter, IInv, TypeOK, LocksExact
    <2>5. /\ pc' = [pc EXCEPT ![t] = "pair"] /\ pc[t] = "lock"
          /\ UNCHANGED <<readers, op, args>>
        BY DEF LockFirst, call
    <2>6. \A u \in Threads : About(u)' = About(u)
        BY <2>5 DEF About
    <2>7. \A u \in Threads \ {t} : /\ pc'[u] = pc[u]
                                  /\ Exclusive(u)' = Exclusive(u) /\ Sharing(u)' = Sharing(u)
        BY <2>5 DEF IInv, TypeOK, Exclusive, Sharing
    <2>8. pc'[t] = "pair" /\ ~Exclusive(t)' /\ ~Sharing(t)' /\ ~Sharing(t)
        BY <2>5 DEF IInv, TypeOK, Exclusive, Sharing
    <2>9. args[t][1] \in Stacks /\ args[t][2] \in Stacks \ {args[t][1]}
        BY <1>2, <2>5 DEF IInv, CallsFit
    <2>10. \A q \in Stacks :
              /\ Exclusive(t)' => (writer'[q] = t <=> q \in About(t)')
              /\ pc'[t] = "pair" => (writer'[q] = t => q \in About(t)')
              /\ pc'[t] \in {"idle", "lock"} \/ Sharing(t)' => writer'[q] # t
              /\ t \in readers'[q] <=> Sharing(t)' /\ q = args'[t][1]
        BY <1>2, <2>3, <2>5, <2>6, <2>8 DEF IInv, LocksExact
    <2>11. \A u \in Threads \ {t}, q \in Stacks :
              /\ Exclusive(u)' => (writer'[q] = u <=> q \in About(u)')
              /\ pc'[u] = "pair" => (writer'[q] = u => q \in About(u)')
              /\ pc'[u] \in {"idle", "lock"} \/ Sharing(u)' => writer'[q] # u
              /\ u \in readers'[q] <=> Sharing(u)' /\ q = args'[u][1]
        BY <2>1, <2>2, <2>5, <2>6, <2>7 DEF IInv, LocksExact
    <2>12. \A u \in Threads :
              pc'[u] = "pair" => \/ writer'[args'[u][1]] = u /\ writer'[args'[u][2]] # u
                                 \/ writer'[args'[u][1]] # u /\ writer'[args'[u][2]] = u
        <3>1. \A u \in Threads \ {t} : pc[u] = "pair" => args[u][1] \in Stacks /\ args[u][2] \in Stacks
            BY DEF IInv, CallsFit
        <3> QED BY <3>1, <1>1, <2>1, <2>2, <2>3, <2>5, <2>7, <2>9 DEF IInv, LocksExact
    <2> QED BY <2>4, <2>10, <2>11, <2>12 DEF LocksExact
<1>6. StableRead'
    BY DEF LockFirst, call, IInv, TypeOK, StableRead
<1> QED BY <1>3, <1>4, <1>5, <1>6 DEF IInv

LEMMA TryLockSecondKeeps == ASSUME IInv, NEW t \in Threads, TryLockSecond(t) PROVE IInv'
<1> DEFINE s == Second(t)
<1>1. /\ pc[t] = "pair" /\ op[t] \in PairOps
      /\ args[t][1] \in Stacks /\ args[t][2] \in Stacks \ {args[t][1]}
    BY DEF TryLockSecond, IInv, CallsFit
<1>2. /\ s \in About(t) /\ s \in Stacks /\ writer[s] = Nobody /\ readers[s] = {}
      /\ \A q \in About(t) : q # s => writer[q] = t
    BY <1>1, SecondIsOther DEF TryLockSecond, FreeForWriter
<1>3. writer' = [writer EXCEPT ![s] = t]
    BY DEF TryLockSecond
<1> HIDE DEF s
<1>4. /\ pc' = [pc EXCEPT ![t] = IF op[t] = "swap" THEN "write" ELSE "read"]
      /\ saw' = [saw EXCEPT ![t] = m_stack[args[t][1]]]
      /\ UNCHANGED <<m_stack, readers, op, args, calls, made, history>>
    BY DEF TryLockSecond, call
<1>5. TypeOK'
    BY <1>1, <1>2, <1>3, <1>4 DEF IInv, TypeOK
<1>6. CallsFit'
    BY <1>1, <1>4 DEF IInv, TypeOK, CallsFit, PairOps
<1>7. LocksExact'
    <2>1. \A u \in Threads : About(u)' = About(u)
        BY <1>4 DEF About
    <2>2. \A u \in Threads \ {t} : /\ pc'[u] = pc[u]
                                  /\ Exclusive(u)' = Exclusive(u) /\ Sharing(u)' = Sharing(u)
        BY <1>4 DEF IInv, TypeOK, Exclusive, Sharing
    <2>3. pc'[t] \in {"write", "read"} /\ Exclusive(t)' /\ ~Sharing(t)' /\ ~Sharing(t)
        BY <1>1, <1>4 DEF IInv, TypeOK, Exclusive, Sharing, PairOps, ReadOps
    <2>4. \A u \in Threads \ {t}, q \in Stacks : writer'[q] = u <=> writer[q] = u
        BY <1>2, <1>3, ThreadsAssumption DEF IInv, TypeOK
    <2>5. \A q \in Stacks : writer'[q] = t <=> q \in About(t)
        BY <1>1, <1>2, <1>3 DEF IInv, TypeOK, LocksExact
    <2>6. \A q \in Stacks :
              /\ Exclusive(t)' => (writer'[q] = t <=> q \in About(t)')
              /\ pc'[t] = "pair" => (writer'[q] = t => q \in About(t)')
              /\ pc'[t] \in {"idle", "lock"} \/ Sharing(t)' => writer'[q] # t
              /\ t \in readers'[q] <=> Sharing(t)' /\ q = args'[t][1]
        BY <1>4, <2>1, <2>3, <2>5 DEF IInv, LocksExact
    <2>7. \A u \in Threads \ {t}, q \in Stacks :
              /\ Exclusive(u)' => (writer'[q] = u <=> q \in About(u)')
              /\ pc'[u] = "pair" => (writer'[q] = u => q \in About(u)')
              /\ pc'[u] \in {"idle", "lock"} \/ Sharing(u)' => writer'[q] # u
              /\ u \in readers'[q] <=> Sharing(u)' /\ q = args'[u][1]
        BY <1>4, <2>1, <2>2, <2>4 DEF IInv, LocksExact
    <2>8. \A u \in Threads :
              pc'[u] = "pair" => \/ writer'[args'[u][1]] = u /\ writer'[args'[u][2]] # u
                                 \/ writer'[args'[u][1]] # u /\ writer'[args'[u][2]] = u
        BY <1>4, <2>2, <2>3, <2>4 DEF IInv, CallsFit, LocksExact
    <2>9. \A q \in Stacks : readers'[q] # {} => writer'[q] = Nobody
        BY <1>2, <1>3, <1>4 DEF IInv, TypeOK, LocksExact
    <2> QED BY <2>6, <2>7, <2>8, <2>9 DEF LocksExact
<1>8. StableRead'
    BY <1>1, <1>4 DEF IInv, TypeOK, StableRead
<1> QED BY <1>5, <1>6, <1>7, <1>8 DEF IInv

\* Letting go of everything, in a back-off or at the end of a call.
LEMMA ReleaseKeepsLocks ==
    ASSUME IInv, NEW t \in Threads, NEW where \in {"idle", "lock"},
           writer' = ReleasedBy(t),
           \/ readers' = [s \in Stacks |-> readers[s] \ {t}]
           \/ UNCHANGED readers /\ ~Sharing(t),
           pc' = [pc EXCEPT ![t] = where], UNCHANGED <<op, args>>
    PROVE  LocksExact'
<1>1. \A u \in Threads : About(u)' = About(u)
    BY DEF About
<1>2. \A u \in Threads \ {t} : /\ pc'[u] = pc[u]
                              /\ Exclusive(u)' = Exclusive(u) /\ Sharing(u)' = Sharing(u)
    BY DEF IInv, TypeOK, Exclusive, Sharing
<1>3. pc'[t] = where /\ ~Exclusive(t)' /\ ~Sharing(t)'
    BY DEF IInv, TypeOK, Exclusive, Sharing
<1>4. \A q \in Stacks : writer'[q] = IF writer[q] = t THEN Nobody ELSE writer[q]
    BY DEF ReleasedBy
<1>5. \A q \in Stacks : /\ writer'[q] # t
                        /\ \A u \in Threads \ {t} : writer'[q] = u <=> writer[q] = u
                        /\ writer[q] = Nobody => writer'[q] = Nobody
    BY <1>4, ThreadsAssumption
<1>6. \A q \in Stacks : /\ t \notin readers'[q]
                        /\ \A u \in Threads \ {t} : u \in readers'[q] <=> u \in readers[q]
                        /\ readers'[q] # {} => readers[q] # {}
    BY DEF IInv, TypeOK, LocksExact
<1>7. \A q \in Stacks :
          /\ Exclusive(t)' => (writer'[q] = t <=> q \in About(t)')
          /\ pc'[t] = "pair" => (writer'[q] = t => q \in About(t)')
          /\ pc'[t] \in {"idle", "lock"} \/ Sharing(t)' => writer'[q] # t
          /\ t \in readers'[q] <=> Sharing(t)' /\ q = args'[t][1]
    BY <1>3, <1>5, <1>6
<1>8. \A u \in Threads \ {t}, q \in Stacks :
          /\ Exclusive(u)' => (writer'[q] = u <=> q \in About(u)')
          /\ pc'[u] = "pair" => (writer'[q] = u => q \in About(u)')
          /\ pc'[u] \in {"idle", "lock"} \/ Sharing(u)' => writer'[q] # u
          /\ u \in readers'[q] <=> Sharing(u)' /\ q = args'[u][1]
    BY <1>1, <1>2, <1>5, <1>6 DEF IInv, LocksExact
<1>9. \A u \in Threads :
          pc'[u] = "pair" => \/ writer'[args'[u][1]] = u /\ writer'[args'[u][2]] # u
                             \/ writer'[args'[u][1]] # u /\ writer'[args'[u][2]] = u
    <2>1. ASSUME NEW u \in Threads, pc'[u] = "pair"
          PROVE  \/ writer'[args'[u][1]] = u /\ writer'[args'[u][2]] # u
                 \/ writer'[args'[u][1]] # u /\ writer'[args'[u][2]] = u
        <3>1. u # t /\ pc[u] = "pair" /\ args'[u] = args[u]
            BY <1>2, <1>3, <2>1
        <3>2. args[u][1] \in Stacks /\ args[u][2] \in Stacks
            BY <3>1 DEF IInv, CallsFit
        <3> QED BY <1>5, <3>1, <3>2 DEF IInv, LocksExact
    <2> QED BY <2>1
<1>10. \A q \in Stacks : readers'[q] # {} => writer'[q] = Nobody
    BY <1>5, <1>6 DEF IInv, LocksExact
<1> QED BY <1>7, <1>8, <1>9, <1>10 DEF LocksExact

LEMMA BackOffKeeps == ASSUME IInv, NEW t \in Threads, BackOff(t) PROVE IInv'
<1>1. /\ pc[t] = "pair" /\ writer' = ReleasedBy(t) /\ pc' = [pc EXCEPT ![t] = "lock"]
      /\ UNCHANGED <<m_stack, readers, op, args, calls, made, saw, history>>
    BY DEF BackOff, call
<1>2. TypeOK'
    BY <1>1 DEF ReleasedBy, IInv, TypeOK
<1>3. CallsFit'
    BY <1>1 DEF IInv, TypeOK, CallsFit
<1>4. LocksExact'
    BY <1>1, ReleaseKeepsLocks DEF Sharing
<1>5. StableRead'
    BY <1>1 DEF IInv, TypeOK, StableRead
<1> QED BY <1>2, <1>3, <1>4, <1>5 DEF IInv

-----------------------------------------------------------------------------
(* The operations under their locks *)

\* A call that ends, having changed no stack but those it holds.
LEMMA ReturnKeeps ==
    ASSUME IInv, NEW t \in Threads, Return(t),
           m_stack' \in [Stacks -> Seq(Values)],
           \A s \in Stacks : writer[s] # t => m_stack'[s] = m_stack[s]
    PROVE  IInv'
<1>1. /\ writer' = ReleasedBy(t) /\ readers' = [s \in Stacks |-> readers[s] \ {t}]
      /\ saw' = [saw EXCEPT ![t] = <<>>] /\ pc' = [pc EXCEPT ![t] = "idle"]
      /\ UNCHANGED <<op, args, calls, made>>
    BY DEF Return, ReleasedBy, call
<1>2. TypeOK'
    BY <1>1, EmptySeq DEF ReleasedBy, IInv, TypeOK
<1>3. CallsFit'
    BY <1>1 DEF IInv, TypeOK, CallsFit
<1>4. LocksExact'
    BY <1>1, ReleaseKeepsLocks
<1>5. StableRead'
    <2>1. ASSUME NEW u \in Threads,
                 pc'[u] = "read" \/ (pc'[u] = "write" /\ op'[u] = "swap")
          PROVE  saw'[u] = m_stack'[args'[u][1]]
        <3>1. u # t /\ pc'[u] = pc[u] /\ saw'[u] = saw[u]
            BY <1>1, <2>1 DEF IInv, TypeOK
        <3>2. args[u][1] \in Stacks /\ writer[args[u][1]] # t
            BY <1>1, <2>1, <3>1, ReadersAreApart DEF IInv, CallsFit
        <3> QED BY <1>1, <2>1, <3>1, <3>2 DEF IInv, StableRead
    <2> QED BY <2>1 DEF StableRead
<1> QED BY <1>2, <1>3, <1>4, <1>5 DEF IInv

\* A writer holds what it writes.
LEMMA WriterHolds ==
    ASSUME IInv, NEW t \in Threads, pc[t] \in {"write", "half"}
    PROVE  /\ args[t][1] \in Stacks /\ writer[args[t][1]] = t
           /\ op[t] = "swap" => /\ args[t][2] \in Stacks \ {args[t][1]}
                                /\ writer[args[t][2]] = t
BY DEF IInv, CallsFit, LocksExact, Exclusive, About, PairOps

LEMMA ItemIsValue ==
    ASSUME IInv, NEW t \in Threads, pc[t] # "idle" PROVE Item(t) \in Values
BY BoundAssumption DEF IInv, TypeOK, CallsFit, Item, Values

LEMMA PushKeeps == ASSUME IInv, NEW t \in Threads, Push(t) PROVE IInv'
<1>1. args[t][1] \in Stacks /\ writer[args[t][1]] = t /\ Item(t) \in Values
    BY WriterHolds, ItemIsValue DEF Push
<1>2. m_stack' = [m_stack EXCEPT ![args[t][1]] = Append(@, Item(t))]
    BY DEF Push
<1>3. m_stack' \in [Stacks -> Seq(Values)]
    BY <1>1, <1>2, AppendProperties DEF IInv, TypeOK
<1>4. \A s \in Stacks : writer[s] # t => m_stack'[s] = m_stack[s]
    BY <1>1, <1>2 DEF IInv, TypeOK
<1> QED BY <1>3, <1>4, ReturnKeeps DEF Push

\* The top leaves, whether the caller gets it or not.
LEMMA PopKeeps == ASSUME IInv, NEW t \in Threads, Pop(t) \/ PopLoses(t) PROVE IInv'
<1> DEFINE s == m_stack[args[t][1]]
<1>1. args[t][1] \in Stacks /\ writer[args[t][1]] = t /\ s \in Seq(Values)
    BY WriterHolds DEF Pop, PopLoses, IInv, TypeOK
<1>r. Return(t)
    BY DEF Pop, PopLoses
<1>2. CASE s = <<>>
    BY <1>2, <1>r, ReturnKeeps DEF Pop, PopLoses, IInv, TypeOK
<1>3. CASE s # <<>>
    <2>1. Shorter(s) \in Seq(Values)
        BY <1>1, <1>3, EmptySeq, LenProperties, SubSeqProperties DEF Shorter
    <2>2. m_stack' = [m_stack EXCEPT ![args[t][1]] = Shorter(s)]
        BY <1>3 DEF Pop, PopLoses
    <2>3. m_stack' \in [Stacks -> Seq(Values)]
        BY <2>1, <2>2 DEF IInv, TypeOK
    <2>4. \A q \in Stacks : writer[q] # t => m_stack'[q] = m_stack[q]
        BY <1>1, <2>2 DEF IInv, TypeOK
    <2> QED BY <2>3, <2>4, <1>r, ReturnKeeps
<1> QED BY <1>2, <1>3

LEMMA SwapHalfKeeps == ASSUME IInv, NEW t \in Threads, SwapHalf(t) PROVE IInv'
<1>1. /\ args[t][1] \in Stacks /\ writer[args[t][1]] = t /\ args[t][2] \in Stacks
      /\ pc[t] = "write" /\ op[t] = "swap"
    BY WriterHolds DEF SwapHalf
<1>2. /\ m_stack' = [m_stack EXCEPT ![args[t][1]] = m_stack[args[t][2]]]
      /\ pc' = [pc EXCEPT ![t] = "half"]
      /\ UNCHANGED <<writer, readers, op, args, calls, made, saw, history>>
    BY DEF SwapHalf, call
<1>3. TypeOK'
    BY <1>1, <1>2 DEF IInv, TypeOK
<1>4. CallsFit'
    BY <1>1, <1>2 DEF IInv, TypeOK, CallsFit
<1>5. LocksExact'
    <2>1. \A u \in Threads : About(u)' = About(u) /\ Sharing(u)' = Sharing(u)
        BY <1>1, <1>2 DEF IInv, TypeOK, About, Sharing
    <2>2. \A u \in Threads : Exclusive(u)' = Exclusive(u)
        BY <1>1, <1>2 DEF IInv, TypeOK, Exclusive
    <2>3. \A u \in Threads : /\ pc'[u] = "pair" <=> pc[u] = "pair"
                             /\ pc'[u] \in {"idle", "lock"} <=> pc[u] \in {"idle", "lock"}
        BY <1>1, <1>2 DEF IInv, TypeOK
    <2> QED BY <1>2, <2>1, <2>2, <2>3 DEF IInv, LocksExact
<1>6. StableRead'
    <2>1. ASSUME NEW u \in Threads,
                 pc'[u] = "read" \/ (pc'[u] = "write" /\ op'[u] = "swap")
          PROVE  saw'[u] = m_stack'[args'[u][1]]
        <3>1. u # t /\ pc'[u] = pc[u]
            BY <1>2, <2>1 DEF IInv, TypeOK
        <3>2. args[u][1] \in Stacks /\ args[u][1] # args[t][1]
            BY <1>1, <1>2, <2>1, <3>1, ReadersAreApart DEF IInv, CallsFit
        <3> QED BY <1>2, <2>1, <3>1, <3>2 DEF IInv, TypeOK, StableRead
    <2> QED BY <2>1 DEF StableRead
<1> QED BY <1>3, <1>4, <1>5, <1>6 DEF IInv

LEMMA SwapRestKeeps == ASSUME IInv, NEW t \in Threads, SwapRest(t) PROVE IInv'
<1>1. args[t][2] \in Stacks /\ writer[args[t][2]] = t
    BY WriterHolds DEF SwapRest, IInv, CallsFit
<1>2. m_stack' = [m_stack EXCEPT ![args[t][2]] = saw[t]]
    BY DEF SwapRest
<1>3. m_stack' \in [Stacks -> Seq(Values)]
    BY <1>1, <1>2 DEF IInv, TypeOK
<1>4. \A s \in Stacks : writer[s] # t => m_stack'[s] = m_stack[s]
    BY <1>1, <1>2 DEF IInv, TypeOK
<1> QED BY <1>3, <1>4, ReturnKeeps DEF SwapRest

\* A throwing or a reading call ends with the stacks as they were.
LEMMA IdleReturnKeeps ==
    ASSUME IInv, NEW t \in Threads, Throws(t) \/ Look(t) PROVE IInv'
<1>1. Return(t) /\ m_stack' = m_stack
    BY DEF Throws, Look
<1> QED BY <1>1, ReturnKeeps DEF IInv, TypeOK

-----------------------------------------------------------------------------
LEMMA NextKeeps == IInv /\ [Next]_vars => IInv'
<1> SUFFICES ASSUME IInv, [Next]_vars PROVE IInv'
    OBVIOUS
<1>1. CASE UNCHANGED vars
    BY <1>1 DEF vars, call, IInv, TypeOK, CallsFit, LocksExact, StableRead, About, Exclusive,
               Sharing
<1>2. CASE Finished
    BY <1>1, <1>2 DEF Finished
<1>3. ASSUME NEW t \in Threads, Work(t) PROVE IInv'
    BY <1>3, BackOffKeeps, PushKeeps, PopKeeps, IdleReturnKeeps, SwapHalfKeeps, SwapRestKeeps
       DEF Work
<1>4. ASSUME NEW t \in Threads, Acquire(t) \/ TryLockSecond(t) PROVE IInv'
    BY <1>4, LockExclusiveKeeps, LockSharedKeeps, LockFirstKeeps, TryLockSecondKeeps DEF Acquire
<1> QED BY <1>1, <1>2, <1>3, <1>4, CallKeeps DEF Next

\* The strengthening: which mutexes a thread holds follows from where it is in its call.
THEOREM InductiveInvariant == Spec => []IInv
BY InitEstablishes, NextKeeps, PTL DEF Spec

\* A thread that waits for a mutex holds none, so that no cycle of waiting threads can
\* form among any number of stacks.
THEOREM NoCycleOfWaiters == Spec => []NoHoldAndWait
<1>1. IInv => NoHoldAndWait
    BY DEF IInv, LocksExact, Sharing, NoHoldAndWait
<1> QED BY <1>1, InductiveInvariant, PTL

\* What a thread reads under a shared or double lock nobody changes until it returns.
THEOREM ReadsAreStable == Spec => []StableRead
<1>1. IInv => StableRead
    BY DEF IInv
<1> QED BY <1>1, InductiveInvariant, PTL

-----------------------------------------------------------------------------
(* The stacks are the atomic ones *)

LogicalAt(s) ==
    IF HalfSwapped(s) = {} THEN m_stack[s] ELSE saw[CHOOSE t \in HalfSwapped(s) : TRUE]

LEMMA LogicalIs ==
    /\ Logical = [s \in Stacks |-> LogicalAt(s)]
    /\ Logical' = [s \in Stacks |-> LogicalAt(s)']
BY DEF Logical, LogicalAt

\* Who holds a stack is alone in swapping it.
LEMMA HolderSwapsAlone ==
    ASSUME IInv, NEW t \in Threads, NEW s \in Stacks, writer[s] = t
    PROVE  HalfSwapped(s) \subseteq {t}
BY DEF IInv, CallsFit, LocksExact, Exclusive, About, PairOps, HalfSwapped

\* A step of t that neither begins nor ends in the middle of a swap.
NotHalf(t) ==
    /\ pc[t] # "half" /\ pc'[t] # "half"
    /\ \A u \in Threads \ {t} : pc'[u] = pc[u] /\ args'[u] = args[u] /\ saw'[u] = saw[u]

\* Where it changes nothing, nothing changes; what it holds is what it seems.
LEMMA LogicalStays ==
    ASSUME NEW t \in Threads, NotHalf(t), NEW s \in Stacks, m_stack'[s] = m_stack[s]
    PROVE  LogicalAt(s)' = LogicalAt(s)
<1>1. HalfSwapped(s)' = HalfSwapped(s) /\ t \notin HalfSwapped(s)
    BY DEF NotHalf, HalfSwapped
<1>2. HalfSwapped(s) # {} =>
          (CHOOSE u \in HalfSwapped(s) : TRUE) \in HalfSwapped(s)
    OBVIOUS
<1>3. \A u \in HalfSwapped(s) : saw'[u] = saw[u]
    BY <1>1 DEF NotHalf, HalfSwapped
<1> QED BY <1>1, <1>2, <1>3 DEF LogicalAt

LEMMA LogicalHeld ==
    ASSUME IInv, NEW t \in Threads, NotHalf(t), NEW s \in Stacks, writer[s] = t
    PROVE  LogicalAt(s) = m_stack[s] /\ LogicalAt(s)' = m_stack'[s]
<1>1. HalfSwapped(s) = {} /\ HalfSwapped(s)' = {}
    BY HolderSwapsAlone DEF NotHalf, HalfSwapped
<1> QED BY <1>1 DEF LogicalAt

\* Locking, failing to lock and reading change nothing.
LEMMA QuietStep ==
    ASSUME NEW t \in Threads, NotHalf(t), UNCHANGED <<m_stack, popped, lost>>
    PROVE  UNCHANGED Abstract!vars
<1>1. \A s \in Stacks : LogicalAt(s)' = LogicalAt(s)
    BY LogicalStays
<1> QED BY <1>1, LogicalIs DEF Abstract!vars

LEMMA ReturnIsNotHalf ==
    ASSUME IInv, NEW t \in Threads, pc[t] # "half", Return(t) PROVE NotHalf(t)
BY DEF Return, call, IInv, TypeOK, NotHalf

LEMMA PushImplements == ASSUME IInv, NEW t \in Threads, Push(t) PROVE Abstract!Next
<1>0. PICK s : s = args[t][1]
    OBVIOUS
<1>1. s \in Stacks /\ writer[s] = t /\ Item(t) \in Values /\ NotHalf(t)
    BY <1>0, WriterHolds, ItemIsValue, ReturnIsNotHalf DEF Push
<1>2. m_stack' = [m_stack EXCEPT ![s] = Append(@, Item(t))] /\ UNCHANGED <<popped, lost>>
    BY <1>0 DEF Push, history
<1>3. \A q \in Stacks : q # s => m_stack'[q] = m_stack[q]
    BY <1>1, <1>2 DEF IInv, TypeOK
<1>4. m_stack'[s] = Append(m_stack[s], Item(t))
    BY <1>1, <1>2 DEF IInv, TypeOK
<1>5. \A q \in Stacks : q # s => LogicalAt(q)' = LogicalAt(q)
    BY <1>1, <1>3, LogicalStays
<1>6. LogicalAt(s)' = Append(LogicalAt(s), Item(t))
    BY <1>1, <1>4, LogicalHeld
<1>7. Logical' = [Logical EXCEPT ![s] = Append(@, Item(t))]
    BY <1>1, <1>5, <1>6, LogicalIs
<1> QED BY <1>1, <1>2, <1>7 DEF Abstract!Next, Abstract!Push

LEMMA PopImplements ==
    ASSUME IInv, NEW t \in Threads, Pop(t) \/ PopLoses(t)
    PROVE  Abstract!Next \/ UNCHANGED Abstract!vars
<1>0. PICK s : s = args[t][1]
    OBVIOUS
<1>1. s \in Stacks /\ writer[s] = t /\ NotHalf(t)
    BY <1>0, WriterHolds, ReturnIsNotHalf DEF Pop, PopLoses
<1>2. CASE m_stack[s] = <<>>
    BY <1>0, <1>1, <1>2, QuietStep DEF Pop, PopLoses, history
<1>3. CASE m_stack[s] # <<>>
    <2>1. /\ m_stack' = [m_stack EXCEPT ![s] = Shorter(m_stack[s])]
          /\ \/ popped' = Append(popped, Top(m_stack[s])) /\ lost' = lost
             \/ popped' = popped /\ lost' = lost + 1
        BY <1>0, <1>3 DEF Pop, PopLoses
    <2>2. \A q \in Stacks : q # s => m_stack'[q] = m_stack[q]
        BY <1>1, <2>1 DEF IInv, TypeOK
    <2>3. m_stack'[s] = Shorter(m_stack[s])
        BY <1>1, <2>1 DEF IInv, TypeOK
    <2>4. \A q \in Stacks : q # s => LogicalAt(q)' = LogicalAt(q)
        BY <1>1, <2>2, LogicalStays
    <2>5. LogicalAt(s) = m_stack[s] /\ LogicalAt(s)' = Shorter(m_stack[s])
        BY <1>1, <2>3, LogicalHeld
    <2>6. Logical[s] = m_stack[s] /\ Logical' = [Logical EXCEPT ![s] = Shorter(@)]
        BY <1>1, <2>4, <2>5, LogicalIs
    <2> QED BY <1>1, <1>3, <2>1, <2>6 DEF Shorter, Top, Abstract!Next, Abstract!Pop, Abstract!Lose
<1> QED BY <1>2, <1>3

\* The first half of std::swap is the swap: the temporary stands for the second stack.
LEMMA SwapHalfImplements == ASSUME IInv, NEW t \in Threads, SwapHalf(t) PROVE Abstract!Next
<1>0. PICK s, u : s = args[t][1] /\ u = args[t][2]
    OBVIOUS
<1>1. s \in Stacks /\ u \in Stacks \ {s} /\ writer[s] = t /\ writer[u] = t
    BY <1>0, WriterHolds DEF SwapHalf
<1>2. /\ m_stack' = [m_stack EXCEPT ![s] = m_stack[u]] /\ UNCHANGED <<popped, lost>>
      /\ pc[t] = "write" /\ pc' = [pc EXCEPT ![t] = "half"] /\ args' = args /\ saw' = saw
    BY <1>0 DEF SwapHalf, call, history
<1>3. saw[t] = m_stack[s] /\ args[t][2] = u
    BY <1>0 DEF SwapHalf, IInv, StableRead
<1>4. HalfSwapped(s) = {} /\ HalfSwapped(u) = {}
    BY <1>1, <1>2, HolderSwapsAlone DEF HalfSwapped
<1>5. HalfSwapped(u)' = {t} /\ \A q \in Stacks \ {u} : HalfSwapped(q)' = HalfSwapped(q)
    <2>1. \A r \in Threads \ {t} : pc'[r] = pc[r]
        BY <1>2 DEF IInv, TypeOK
    <2>2. pc'[t] = "half"
        BY <1>2 DEF IInv, TypeOK
    <2>3. HalfSwapped(u)' = {t}
        BY <1>2, <1>3, <1>4, <2>1, <2>2 DEF HalfSwapped
    <2>4. \A q \in Stacks \ {u} : HalfSwapped(q)' = HalfSwapped(q)
        BY <1>2, <1>3, <2>1, <2>2 DEF HalfSwapped
    <2> QED BY <2>3, <2>4
<1>6. LogicalAt(s)' = LogicalAt(u) /\ LogicalAt(u)' = LogicalAt(s)
    <2>1. LogicalAt(s) = m_stack[s] /\ LogicalAt(u) = m_stack[u]
        BY <1>4 DEF LogicalAt
    <2>2. LogicalAt(s)' = m_stack'[s]
        BY <1>1, <1>4, <1>5 DEF LogicalAt
    <2>3. LogicalAt(u)' = saw'[t]
        BY <1>5 DEF LogicalAt
    <2>4. m_stack'[s] = m_stack[u]
        BY <1>1, <1>2 DEF IInv, TypeOK
    <2> QED BY <1>2, <1>3, <2>1, <2>2, <2>3, <2>4
<1>7. ASSUME NEW q \in Stacks, q # s, q # u PROVE LogicalAt(q)' = LogicalAt(q)
    <2>1. HalfSwapped(q)' = HalfSwapped(q) /\ m_stack'[q] = m_stack[q]
        BY <1>1, <1>2, <1>5, <1>7 DEF IInv, TypeOK
    <2> QED BY <1>2, <2>1 DEF LogicalAt
<1>8. Logical' = [Logical EXCEPT ![s] = Logical[u], ![u] = Logical[s]]
    BY <1>1, <1>6, <1>7, LogicalIs
<1> QED BY <1>1, <1>2, <1>8 DEF Abstract!Next, Abstract!Swap

LEMMA SwapRestImplements ==
    ASSUME IInv, NEW t \in Threads, SwapRest(t) PROVE UNCHANGED Abstract!vars
<1>0. PICK u : u = args[t][2]
    OBVIOUS
<1>1. u \in Stacks /\ writer[u] = t
    BY <1>0, WriterHolds DEF SwapRest, IInv, CallsFit
<1>2. /\ m_stack' = [m_stack EXCEPT ![u] = saw[t]] /\ UNCHANGED <<popped, lost>>
      /\ pc[t] = "half" /\ pc' = [pc EXCEPT ![t] = "idle"] /\ args' = args
      /\ saw' = [saw EXCEPT ![t] = <<>>] /\ args[t][2] = u
    BY <1>0 DEF SwapRest, Return, call, history
<1>3. HalfSwapped(u) = {t} /\ HalfSwapped(u)' = {}
    <2>1. HalfSwapped(u) \subseteq {t}
        BY <1>1, HolderSwapsAlone
    <2>2. t \in HalfSwapped(u)
        BY <1>2 DEF HalfSwapped
    <2> QED BY <1>2, <2>1, <2>2 DEF IInv, TypeOK, HalfSwapped
<1>4. LogicalAt(u)' = LogicalAt(u)
    BY <1>1, <1>2, <1>3 DEF LogicalAt, IInv, TypeOK
<1>5. ASSUME NEW q \in Stacks \ {u} PROVE LogicalAt(q)' = LogicalAt(q)
    <2>1. HalfSwapped(q)' = HalfSwapped(q) /\ t \notin HalfSwapped(q)
        BY <1>2, <1>5 DEF IInv, TypeOK, HalfSwapped
    <2>2. HalfSwapped(q) # {} => (CHOOSE r \in HalfSwapped(q) : TRUE) \in HalfSwapped(q)
        OBVIOUS
    <2>3. \A r \in HalfSwapped(q) : saw'[r] = saw[r]
        BY <1>2, <2>1 DEF IInv, TypeOK, HalfSwapped
    <2>4. m_stack'[q] = m_stack[q]
        BY <1>1, <1>2, <1>5 DEF IInv, TypeOK
    <2> QED BY <2>1, <2>2, <2>3, <2>4 DEF LogicalAt
<1>6. Logical' = Logical
    BY <1>4, <1>5, LogicalIs
<1> QED BY <1>2, <1>6 DEF Abstract!vars

LEMMA OtherStepsQuiet ==
    ASSUME IInv, NEW t \in Threads,
           Call(t) \/ Acquire(t) \/ TryLockSecond(t) \/ BackOff(t) \/ Throws(t) \/ Look(t)
    PROVE  UNCHANGED Abstract!vars
<1>1. UNCHANGED <<m_stack, popped, lost>>
    BY DEF Call, Begin, Acquire, LockExclusive, LockShared, LockFirst, TryLockSecond, BackOff,
           Throws, Look, history
<1>2. CASE Throws(t) \/ Look(t)
    BY <1>1, <1>2, ReturnIsNotHalf, QuietStep DEF Throws, Look
<1>3. CASE Call(t) \/ Acquire(t) \/ TryLockSecond(t) \/ BackOff(t)
    <2>1. NotHalf(t)
        BY <1>3 DEF Call, Begin, Acquire, LockExclusive, LockShared, LockFirst, TryLockSecond,
                   BackOff, call, IInv, TypeOK, NotHalf
    <2> QED BY <1>1, <2>1, QuietStep
<1> QED BY <1>2, <1>3

LEMMA InitImplements == Init => Abstract!Init
BY DEF Init, Logical, HalfSwapped, Abstract!Init

LEMMA StepImplements == IInv /\ [Next]_vars => [Abstract!Next]_(Abstract!vars)
<1> SUFFICES ASSUME IInv, [Next]_vars PROVE [Abstract!Next]_(Abstract!vars)
    OBVIOUS
<1>1. UNCHANGED vars \/ Finished => UNCHANGED Abstract!vars
    <2>1. ASSUME UNCHANGED <<m_stack, pc, args, saw>> PROVE Logical' = Logical
        <3>1. ASSUME NEW s \in Stacks PROVE LogicalAt(s)' = LogicalAt(s)
            <4>1. HalfSwapped(s)' = HalfSwapped(s)
                BY <2>1 DEF HalfSwapped
            <4> QED BY <2>1, <4>1 DEF LogicalAt
        <3> QED BY <3>1, LogicalIs
    <2> QED BY <2>1 DEF Finished, vars, call, history, Abstract!vars
<1> QED BY <1>1, PushImplements, PopImplements, SwapHalfImplements, SwapRestImplements,
           OtherStepsQuiet DEF Next, Work

\* For any number of threads and stacks: push, pop and swap take effect at once and
\* entirely, although a swap is two assignments and locks two mutexes.  A pop that throws
\* on return loses the top, and no element is lost otherwise.
THEOREM ImplementsAtomicStacks == Spec => RefinesAtomicStacks
BY InductiveInvariant, InitImplements, StepImplements, PTL
   DEF Spec, RefinesAtomicStacks, Abstract!Spec
=============================================================================
