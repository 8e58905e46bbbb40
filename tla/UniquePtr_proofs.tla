-------------------------- MODULE UniquePtr_proofs --------------------------
(***************************************************************************)
(* Theorems about the two components in which a pointer owns what it       *)
(* points to: UniquePtr, for any sets of handles, objects and arenas, and  *)
(* ForwardList, for any lists over any finite heap.                        *)
(***************************************************************************)
EXTENDS UniquePtr, ForwardList, FiniteSetTheorems, FunctionTheorems, WellFoundedInduction,
        TLAPS

-----------------------------------------------------------------------------
(* The inductive invariant *)

\* Handles point to objects or nowhere; every object has a home and a state.
TypeOK ==
    /\ live \subseteq Handles
    /\ ptr \in [Handles -> Objects \cup {Null}]
    /\ deleter \in [Handles -> Arenas] /\ home \in [Objects -> Arenas]
    /\ object \in [Objects -> {"unborn", "owned", "released", "destroyed"}]
    /\ misdeeds \subseteq Objects \X {"twice", "elsewhere"} /\ mixed \in BOOLEAN

\* UniqueOwnership without the count: the owned objects are those pointed to, no two
\* handles point to the same, and handles that do not exist point nowhere.
Ownership ==
    /\ \A h \in live : ptr[h] # Null => object[ptr[h]] = "owned"
    /\ \A o \in Objects : object[o] = "owned" => \E h \in live : ptr[h] = o
    /\ \A h, g \in live : ptr[h] # Null /\ ptr[h] = ptr[g] => h = g
    /\ \A h \in Handles \ live : ptr[h] = Null

NothingTwice == \A o \in Objects : <<o, "twice">> \notin misdeeds

\* Until arenas are mixed each handle has the deleter of its object.
AtHome ==
    ~mixed => /\ \A h \in live : ptr[h] # Null => home[ptr[h]] = deleter[h]
              /\ \A o \in Objects : <<o, "elsewhere">> \notin misdeeds

IInv == TypeOK /\ Ownership /\ NothingTwice /\ AtHome

-----------------------------------------------------------------------------
LEMMA InitEstablishes == Init => IInv
BY NullAssumption DEF Init, IInv, TypeOK, Ownership, NothingTwice, AtHome

\* What a call of the deleter of a with the pointer of one owner, or with null, can
\* do wrong: nothing twice, and nothing elsewhere if a is the object's home.
LEMMA DeletionsOfOwned ==
    ASSUME TypeOK, NEW o \in Objects \cup {Null}, NEW a \in Arenas,
           o # Null => object[o] = "owned"
    PROVE  /\ Misdeeds(o, a) \subseteq Objects \X {"twice", "elsewhere"}
           /\ \A x \in Objects : <<x, "twice">> \notin Misdeeds(o, a)
           /\ (o # Null => home[o] = a) => Misdeeds(o, a) = {}
BY NullAssumption DEF Misdeeds, TypeOK

LEMMA ConstructKeeps == ASSUME IInv, NEW h \in Handles, Construct(h) PROVE IInv'
BY NullAssumption DEF Construct, IInv, TypeOK, Ownership, NothingTwice, AtHome

LEMMA ConstructFromKeeps ==
    ASSUME IInv, NEW h \in Handles, NEW o \in Objects, ConstructFrom(h, o) PROVE IInv'
<1>1. TypeOK'
    BY DEF ConstructFrom, IInv, TypeOK
<1>2. Ownership'
    BY NullAssumption DEF ConstructFrom, IInv, TypeOK, Ownership
<1>3. NothingTwice' /\ AtHome'
    BY NullAssumption DEF ConstructFrom, IInv, TypeOK, NothingTwice, AtHome
<1> QED BY <1>1, <1>2, <1>3 DEF IInv

LEMMA MoveConstructKeeps ==
    ASSUME IInv, NEW h \in Handles, NEW g \in Handles, MoveConstruct(h, g) PROVE IInv'
<1>1. TypeOK'
    BY DEF MoveConstruct, Emptied, DeleterTaken, IInv, TypeOK
<1>2. Ownership'
    BY NullAssumption DEF MoveConstruct, Emptied, IInv, TypeOK, Ownership
<1>3. NothingTwice' /\ AtHome'
    BY NullAssumption DEF MoveConstruct, Emptied, DeleterTaken, IInv, TypeOK,
                          NothingTwice, AtHome
<1> QED BY <1>1, <1>2, <1>3 DEF IInv

LEMMA SwapKeeps ==
    ASSUME IInv, NEW h \in Handles, NEW g \in Handles, Swap(h, g) PROVE IInv'
<1>1. TypeOK'
    BY DEF Swap, Mixes, IInv, TypeOK
<1>2. Ownership'
    BY NullAssumption DEF Swap, IInv, TypeOK, Ownership
<1>3. NothingTwice' /\ AtHome'
    BY NullAssumption DEF Swap, Mixes, IInv, TypeOK, NothingTwice, AtHome
<1> QED BY <1>1, <1>2, <1>3 DEF IInv

LEMMA MoveAssignKeeps ==
    ASSUME IInv, NEW h \in Handles, NEW g \in Handles, MoveAssign(h, g) PROVE IInv'
<1> DEFINE old == OldObject(h, g)
<1>1. old \in Objects \cup {Null} /\ (old # Null => object[old] = "owned")
    BY DEF MoveAssign, OldObject, IInv, TypeOK, Ownership
<1>2. deleter[g] \in Arenas
    BY DEF IInv, TypeOK
<1>3. /\ Misdeeds(old, deleter[g]) \subseteq Objects \X {"twice", "elsewhere"}
      /\ \A x \in Objects : <<x, "twice">> \notin Misdeeds(old, deleter[g])
      /\ (old # Null => home[old] = deleter[g]) => Misdeeds(old, deleter[g]) = {}
    BY <1>1, <1>2, DeletionsOfOwned DEF IInv
<1>4. TypeOK'
    BY <1>1, <1>3 DEF MoveAssign, Delete, Deleted, Emptied, Mixes, IInv, TypeOK
<1>5. Ownership'
    BY NullAssumption DEF MoveAssign, Delete, Deleted, Emptied, OldObject, IInv, TypeOK, Ownership
<1>6. NothingTwice'
    BY <1>3 DEF MoveAssign, Delete, IInv, NothingTwice
<1>7. AtHome'
    BY <1>3, NullAssumption
       DEF MoveAssign, Delete, Emptied, Mixes, OldObject, IInv, TypeOK, AtHome
<1> QED BY <1>4, <1>5, <1>6, <1>7 DEF IInv

LEMMA DestroyKeeps == ASSUME IInv, NEW h \in Handles, Destroy(h) PROVE IInv'
<1>1. ptr[h] \in Objects \cup {Null} /\ (ptr[h] # Null => object[ptr[h]] = "owned")
    BY DEF Destroy, IInv, TypeOK, Ownership
<1>2. deleter[h] \in Arenas
    BY DEF IInv, TypeOK
<1>3. /\ Misdeeds(ptr[h], deleter[h]) \subseteq Objects \X {"twice", "elsewhere"}
      /\ \A x \in Objects : <<x, "twice">> \notin Misdeeds(ptr[h], deleter[h])
      /\ (ptr[h] # Null => home[ptr[h]] = deleter[h]) => Misdeeds(ptr[h], deleter[h]) = {}
    BY <1>1, <1>2, DeletionsOfOwned DEF IInv
<1>4. TypeOK'
    BY <1>1, <1>3 DEF Destroy, Delete, Deleted, IInv, TypeOK
<1>5. Ownership'
    BY NullAssumption DEF Destroy, Delete, Deleted, IInv, TypeOK, Ownership
<1>6. NothingTwice'
    BY <1>3 DEF Destroy, Delete, IInv, NothingTwice
<1>7. AtHome'
    BY <1>3, NullAssumption DEF Destroy, Delete, IInv, TypeOK, AtHome
<1> QED BY <1>4, <1>5, <1>6, <1>7 DEF IInv

LEMMA ReleaseKeeps == ASSUME IInv, NEW h \in Handles, Release(h) PROVE IInv'
<1>1. TypeOK'
    BY DEF Release, Emptied, IInv, TypeOK
<1>2. Ownership'
    BY NullAssumption DEF Release, Emptied, IInv, TypeOK, Ownership
<1>3. NothingTwice' /\ AtHome'
    BY NullAssumption DEF Release, Emptied, IInv, TypeOK, NothingTwice, AtHome
<1> QED BY <1>1, <1>2, <1>3 DEF IInv

LEMMA ResetKeeps ==
    ASSUME IInv, NEW h \in Handles, NEW o \in Objects \cup {Null}, Reset(h, o) PROVE IInv'
<1>1. ptr[h] \in Objects \cup {Null} /\ (ptr[h] # Null => object[ptr[h]] = "owned")
    BY DEF Reset, IInv, TypeOK, Ownership
<1>2. deleter[h] \in Arenas
    BY DEF IInv, TypeOK
<1>3. /\ Misdeeds(ptr[h], deleter[h]) \subseteq Objects \X {"twice", "elsewhere"}
      /\ \A x \in Objects : <<x, "twice">> \notin Misdeeds(ptr[h], deleter[h])
      /\ (ptr[h] # Null => home[ptr[h]] = deleter[h]) => Misdeeds(ptr[h], deleter[h]) = {}
    BY <1>1, <1>2, DeletionsOfOwned DEF IInv
<1>4. TypeOK'
    BY <1>1, <1>3 DEF Reset, IInv, TypeOK
<1>5. Ownership'
    BY NullAssumption DEF Reset, Replaces, IInv, TypeOK, Ownership
<1>6. NothingTwice'
    BY <1>3 DEF Reset, IInv, NothingTwice
<1>7. AtHome'
    BY <1>3, NullAssumption DEF Reset, IInv, TypeOK, AtHome
<1> QED BY <1>4, <1>5, <1>6, <1>7 DEF IInv

LEMMA NextKeeps == IInv /\ [Next]_vars => IInv'
<1> SUFFICES ASSUME IInv, [Next]_vars PROVE IInv'
    OBVIOUS
<1>1. CASE UNCHANGED vars
    BY <1>1 DEF vars, IInv, TypeOK, Ownership, NothingTwice, AtHome
<1>2. CASE Next
    <2>1. PICK h \in Handles :
            \/ Construct(h) \/ Destroy(h) \/ Release(h)
            \/ \E o \in Objects : ConstructFrom(h, o)
            \/ \E o \in Objects \cup {Null} : Reset(h, o)
            \/ \E g \in Handles : MoveConstruct(h, g) \/ MoveAssign(h, g) \/ Swap(h, g)
        BY <1>2 DEF Next
    <2> QED BY <2>1, ConstructKeeps, DestroyKeeps, ReleaseKeeps, ConstructFromKeeps,
               ResetKeeps, MoveConstructKeeps, MoveAssignKeeps, SwapKeeps
<1> QED BY <1>1, <1>2

\* The strengthening: pointers and states agree, no two handles share an object, and
\* until arenas are mixed each handle has the deleter of what it points to.
THEOREM InductiveInvariant == Spec => []IInv
BY InitEstablishes, NextKeeps, PTL DEF Spec

-----------------------------------------------------------------------------
(* What follows *)

LEMMA OwnershipCounts == IInv => UniqueOwnership
<1> SUFFICES ASSUME IInv PROVE UniqueOwnership
    OBVIOUS
<1>1. ASSUME NEW o \in Objects
      PROVE  Cardinality(Owners(o)) = IF object[o] = "owned" THEN 1 ELSE 0
    <2>1. CASE object[o] = "owned"
        <3>1. PICK h \in live : ptr[h] = o
            BY <2>1 DEF IInv, Ownership
        <3>2. Owners(o) = {h}
            BY <3>1, NullAssumption DEF IInv, Ownership, Owners
        <3> QED BY <2>1, <3>2, FS_Singleton
    <2>2. CASE object[o] # "owned"
        <3>1. Owners(o) = {}
            BY <2>2, NullAssumption DEF IInv, Ownership, Owners
        <3> QED BY <2>2, <3>1, FS_EmptySet
    <2> QED BY <2>1, <2>2
<1> QED BY <1>1 DEF IInv, Ownership, NothingTwice, UniqueOwnership

\* One owner for each owned object and none for the others, and no double deletion, for
\* any number of handles and objects: every sequence of moves, swaps, releases, resets.
THEOREM OwnersUnique == Spec => []UniqueOwnership
BY InductiveInvariant, OwnershipCounts, PTL

\* As long as swap and operator= are called on handles with equal deleters only, each
\* object is disposed of by the deleter it came with.
THEOREM DeletionsAtHome == Spec => []DeletedAtHome
<1>1. IInv => DeletedAtHome
    BY DEF IInv, AtHome, DeletedAtHome
<1> QED BY <1>1, InductiveInvariant, PTL

-----------------------------------------------------------------------------
(* ForwardList.  Induction: a set of numbers has a least one *)

LEMMA LessThan == \A x, y \in Nat : x < y => <<x, y>> \in OpToRel(<, Nat)
BY DEF OpToRel

LEMMA Least ==
    ASSUME NEW S \in SUBSET Nat, S # {}
    PROVE  \E n \in S : \A m \in S : n <= m
<1>1. PICK n \in S : \A m \in S : ~(<<m, n>> \in OpToRel(<, Nat))
    BY NatLessThanWellFounded, WFMin, Zenon
<1>2. \A m \in S : ~(m < n)
    BY <1>1, LessThan
<1> QED BY <1>2

-----------------------------------------------------------------------------
(* The nodes that a walk along links meets, for links that need not be those of next *)

Links == [Nodes -> Nodes \cup {nullptr}]
Follows(links, S) == \A x \in S : links[x] \in S \cup {nullptr}
Met(links, h) ==
    {n \in Nodes : \A S \in SUBSET Nodes : h \in S \cup {nullptr} /\ Follows(links, S) => n \in S}

LEMMA ChainMeets == \A h : Chain(h) = Met(next, h)
BY DEF Chain, Met, Follows

\* They are the least set with the first node that follows the links.
LEMMA MetLeast ==
    ASSUME NEW links, NEW h, NEW S \in SUBSET Nodes, h \in S \cup {nullptr}, Follows(links, S)
    PROVE  Met(links, h) \subseteq S
BY DEF Met

LEMMA MetNodes == \A links, h : Met(links, h) \subseteq Nodes
BY DEF Met

LEMMA MetFollows ==
    ASSUME NEW links \in Links, NEW h \in Nodes \cup {nullptr}
    PROVE  h \in Met(links, h) \cup {nullptr} /\ Follows(links, Met(links, h))
<1>1. h \in Met(links, h) \cup {nullptr}
    BY ListAssumption DEF Met
<1>2. ASSUME NEW x \in Met(links, h), links[x] # nullptr
      PROVE  links[x] \in Met(links, h)
    <2>1. x \in Nodes /\ links[x] \in Nodes
        BY <1>2 DEF Met, Links
    <2>2. ASSUME NEW S \in SUBSET Nodes, h \in S \cup {nullptr}, Follows(links, S)
          PROVE  links[x] \in S
        <3>1. x \in S
            BY <2>2 DEF Met
        <3> QED BY <1>2, <2>2, <3>1 DEF Follows
    <2> QED BY <2>1, <2>2 DEF Met
<1> QED BY <1>1, <1>2 DEF Follows

LEMMA MetNull == ASSUME NEW links PROVE Met(links, nullptr) = {}
<1>1. Met(links, nullptr) \subseteq {}
    <2>1. {} \in SUBSET Nodes /\ nullptr \in {} \cup {nullptr} /\ Follows(links, {})
        BY DEF Follows
    <2> QED BY <2>1, MetLeast
<1> QED BY <1>1

\* The first node, and then those that a walk from the next one meets
LEMMA MetFirst ==
    ASSUME NEW links \in Links, NEW h \in Nodes
    PROVE  Met(links, h) = {h} \cup Met(links, links[h])
<1> DEFINE rest == Met(links, links[h])
<1>1. links[h] \in Nodes \cup {nullptr}
    BY DEF Links
<1>2. rest \subseteq Nodes /\ links[h] \in rest \cup {nullptr} /\ Follows(links, rest)
    BY <1>1, MetFollows, MetNodes
<1>3. Met(links, h) \subseteq {h} \cup rest
    <2>1. {h} \cup rest \in SUBSET Nodes /\ h \in ({h} \cup rest) \cup {nullptr}
        BY <1>2
    <2>2. Follows(links, {h} \cup rest)
        BY <1>2 DEF Follows
    <2> QED BY <2>1, <2>2, MetLeast
<1>4. h \in Met(links, h) /\ Follows(links, Met(links, h)) /\ Met(links, h) \subseteq Nodes
    BY MetFollows, MetNodes, ListAssumption
<1>5. rest \subseteq Met(links, h)
    <2>1. links[h] \in Met(links, h) \cup {nullptr}
        BY <1>4 DEF Follows
    <2> QED BY <1>4, <2>1, MetLeast
<1> QED BY <1>3, <1>4, <1>5

\* A walk from a node that was met meets no others.
LEMMA MetWithin ==
    ASSUME NEW links \in Links, NEW h \in Nodes \cup {nullptr}, NEW x \in Met(links, h)
    PROVE  /\ Met(links, x) \subseteq Met(links, h)
           /\ Met(links, links[x]) \subseteq Met(links, h)
<1>1. Follows(links, Met(links, h)) /\ Met(links, h) \subseteq Nodes
    BY MetFollows, MetNodes
<1>2. x \in Met(links, h) \cup {nullptr} /\ links[x] \in Met(links, h) \cup {nullptr}
    BY <1>1 DEF Follows
<1> QED BY <1>1, <1>2, MetLeast

\* It depends on the links of those nodes only.
LEMMA MetSame ==
    ASSUME NEW links \in Links, NEW other \in Links, NEW h \in Nodes \cup {nullptr},
           \A x \in Met(links, h) : other[x] = links[x]
    PROVE  Met(other, h) = Met(links, h)
<1> DEFINE s == Met(links, h)
           t == Met(other, h)
<1>1. s \subseteq Nodes /\ t \subseteq Nodes /\ h \in s \cup {nullptr} /\ h \in t \cup {nullptr}
      /\ Follows(links, s) /\ Follows(other, t)
    BY MetFollows, MetNodes
<1>2. Follows(other, s)
    BY <1>1 DEF Follows
<1>3. t \subseteq s
    BY <1>1, <1>2, MetLeast
<1>4. Follows(links, t)
    BY <1>1, <1>3 DEF Follows
<1>5. s \subseteq t
    BY <1>1, <1>4, MetLeast
<1> QED BY <1>3, <1>5

-----------------------------------------------------------------------------
(* A list that is built *)

Newly(c, n) == {c[i] : i \in 1..n}
First(c, n) == IF n = 0 THEN nullptr ELSE c[1]

\* c lists n different nodes, each linked to the next.
Row(links, c, n) ==
    /\ c \in [1..n -> Nodes] /\ \A i, j \in 1..n : c[i] = c[j] => i = j
    /\ \A i \in 1..n : links[c[i]] = IF i = n THEN nullptr ELSE c[i + 1]

LEMMA NewlyMet ==
    ASSUME NEW links \in Links, NEW n \in Nat, NEW c, Row(links, c, n)
    PROVE  Met(links, First(c, n)) = Newly(c, n)
<1> DEFINE h == First(c, n)
           s == Met(links, h)
<1>1. h \in Nodes \cup {nullptr} /\ h \in Newly(c, n) \cup {nullptr} /\ Newly(c, n) \subseteq Nodes
    <2>1. CASE n = 0
        BY <2>1 DEF First, Newly
    <2>2. CASE n # 0
        <3>1. 1 \in 1..n
            BY <2>2
        <3> QED BY <2>2, <3>1 DEF First, Newly, Row
    <2> QED BY <2>1, <2>2
<1>2. Follows(links, Newly(c, n))
    <2>1. ASSUME NEW i \in 1..n, i # n
          PROVE  i + 1 \in 1..n
        BY <2>1
    <2> QED BY <2>1 DEF Follows, Newly, Row
<1>3. s \subseteq Newly(c, n)
    BY <1>1, <1>2, MetLeast
<1>4. Follows(links, s) /\ h \in s \cup {nullptr}
    BY <1>1, MetFollows
<1> HIDE DEF h, s
<1>5. \A i \in 1..n : c[i] \in s
    <2> DEFINE T == {i \in 1..n : c[i] \notin s}
    <2>1. ASSUME T # {}
          PROVE  FALSE
        <3>1. T \in SUBSET Nat
            OBVIOUS
        <3>2. PICK i \in T : \A j \in T : i <= j
            BY <2>1, <3>1, Least
        <3>3. i \in 1..n /\ c[i] \notin s /\ c[i] \in Nodes
            BY <3>2 DEF Row
        <3>4. i # 1
            <4>1. n # 0
                BY <3>3
            <4>2. h = c[1]
                BY <4>1 DEF h, First
            <4> QED BY <1>4, <3>3, <4>2, ListAssumption
        <3>5. i - 1 \in 1..n /\ i - 1 # n /\ (i - 1) + 1 = i /\ ~(i <= i - 1)
            BY <3>3, <3>4
        <3>6. c[i - 1] \in s
            BY <3>2, <3>5
        <3>7. links[c[i - 1]] = c[i]
            BY <3>5 DEF Row
        <3> QED BY <1>4, <3>3, <3>6, <3>7, ListAssumption DEF Follows
    <2> QED BY <2>1
<1> QED BY <1>3, <1>5 DEF Newly, s, h

\* A walk never comes back to one of them.
LEMMA NewlyOnward ==
    ASSUME NEW links \in Links, NEW n \in Nat, NEW c, Row(links, c, n), NEW x \in Newly(c, n)
    PROVE  x \notin Met(links, links[x])
<1>1. PICK i \in 1..n : x = c[i]
    BY DEF Newly
<1> DEFINE later == {c[j] : j \in (i + 1)..n}
<1>2. later \in SUBSET Nodes
    BY DEF Row
<1>3. \A j \in i..n : links[c[j]] \in later \cup {nullptr}
    <2>1. ASSUME NEW j \in i..n, j # n
          PROVE  j + 1 \in (i + 1)..n /\ j \in 1..n
        BY <2>1
    <2> QED BY <2>1 DEF Row
<1>4. Follows(links, later)
    <2>1. (i + 1)..n \subseteq i..n
        OBVIOUS
    <2> QED BY <1>3, <2>1 DEF Follows
<1>5. links[x] \in later \cup {nullptr}
    BY <1>1, <1>3
<1>6. Met(links, links[x]) \subseteq later
    BY <1>2, <1>4, <1>5, MetLeast
<1>7. \A j \in (i + 1)..n : j \in 1..n /\ j # i
    OBVIOUS
<1> QED BY <1>1, <1>6, <1>7 DEF Row

LEMMA NewlyCounted ==
    ASSUME NEW n \in Nat, NEW c \in [1..n -> Nodes], \A i, j \in 1..n : c[i] = c[j] => i = j
    PROVE  Cardinality(Newly(c, n)) = n
<1>1. IsFiniteSet(1..n) /\ Cardinality(1..n) = n
    BY FS_Interval
<1>2. c \in [1..n -> Newly(c, n)] /\ \A x \in Newly(c, n) : \E i \in 1..n : c[i] = x
    BY DEF Newly
<1>3. ExistsBijection(1..n, Newly(c, n))
    <2> DEFINE t == Newly(c, n)
           s == 1..n
    <2>1. c \in [s -> t] /\ (\A i, j \in s : c[i] = c[j] => i = j)
          /\ \A x \in t : \E i \in s : c[i] = x
        BY <1>2
    <2> HIDE DEF s, t
    <2>2. c \in Bijection(s, t)
        BY <2>1, Fun_IsBij
    <2> QED BY <2>2, Fun_ExistsBij DEF s, t
<1> QED BY <1>1, <1>3, FS_Bijection

LEMMA LinkedRow ==
    ASSUME next \in Links, NEW n \in Nat, NEW c \in Chains(n)
    PROVE  /\ Linked(c, n) \in Links /\ Row(Linked(c, n), c, n)
           /\ \A x \in Nodes \ Newly(c, n) : Linked(c, n)[x] = next[x]
           /\ Newly(c, n) \subseteq Nodes \ allocated
           /\ Cardinality(Newly(c, n)) = n
<1>1. c \in [1..n -> Nodes] /\ (\A i, j \in 1..n : c[i] = c[j] => i = j)
      /\ Newly(c, n) \subseteq Nodes \ allocated
    BY DEF Chains, Newly
<1>2. ASSUME NEW i \in 1..n
      PROVE  Linked(c, n)[c[i]] = IF i = n THEN nullptr ELSE c[i + 1]
    <2>1. (CHOOSE j \in 1..n : c[j] = c[i]) = i
        BY <1>1
    <2>2. c[i] \in Nodes /\ \E j \in 1..n : c[j] = c[i]
        BY <1>1
    <2> QED BY <2>1, <2>2 DEF Linked
<1>3. \A x \in Nodes \ Newly(c, n) : Linked(c, n)[x] = next[x]
    BY DEF Linked, Newly
<1>4. Linked(c, n) \in Links
    <2>1. \A i \in 1..n : i # n => i + 1 \in 1..n
        OBVIOUS
    <2>2. \A x \in Nodes : Linked(c, n)[x] \in Nodes \cup {nullptr}
        BY <1>1, <1>2, <1>3, <2>1 DEF Newly, Links
    <2>3. DOMAIN Linked(c, n) = Nodes /\ Linked(c, n) = [x \in Nodes |-> Linked(c, n)[x]]
        BY DEF Linked
    <2> QED BY <2>2, <2>3 DEF Links
<1>5. Cardinality(Newly(c, n)) = n
    BY <1>1, NewlyCounted
<1> QED BY <1>1, <1>2, <1>3, <1>4, <1>5 DEF Row

-----------------------------------------------------------------------------
(* The inductive invariant *)

ListShape ==
    /\ lists \subseteq Lists
    /\ m_head \in [Lists -> Nodes \cup {nullptr}] /\ m_size \in [Lists -> Nat]
    /\ next \in Links /\ allocated \subseteq Nodes
    /\ freedTwice \in BOOLEAN /\ cleared \in BOOLEAN

Own(l) == Met(next, m_head[l])

\* NodesOwnedOnce, that no list is longer than one may be built, so that counting down
\* does not wrap, and that no walk comes back to the node it left.
OneOwner ==
    /\ allocated = UNION {Own(l) : l \in lists}
    /\ \A l, k \in lists : l # k => Own(l) \cap Own(k) = {}
    /\ \A l \in lists : Cardinality(Own(l)) = m_size[l] /\ m_size[l] <= MaxSize
    /\ \A x \in allocated : x \notin Met(next, next[x])
    /\ ~freedTwice

ListIInv == ListShape /\ (~cleared => OneOwner)

-----------------------------------------------------------------------------
LEMMA OwnFacts ==
    ASSUME ListShape, NEW l \in Lists
    PROVE  /\ m_head[l] \in Nodes \cup {nullptr} /\ Own(l) = Chain(m_head[l])
           /\ Own(l) \subseteq Nodes /\ IsFiniteSet(Own(l)) /\ Cardinality(Own(l)) \in Nat
<1>1. m_head[l] \in Nodes \cup {nullptr} /\ Own(l) = Chain(m_head[l]) /\ Own(l) \subseteq Nodes
    BY ChainMeets, MetNodes DEF ListShape, Own
<1>2. IsFiniteSet(Own(l))
    BY <1>1, ListAssumption, FS_Subset
<1> QED BY <1>1, <1>2, FS_CardinalityType

\* The nodes of a list that exists are on the heap.
LEMMA OwnedAllocated ==
    ASSUME ListShape, OneOwner, NEW l \in lists
    PROVE  Own(l) \subseteq allocated /\ ~Dangles(m_head[l])
<1>1. Own(l) \subseteq allocated
    BY DEF OneOwner
<1> QED BY <1>1, OwnFacts DEF Dangles, ListShape

\* What is left without the nodes of l
LEMMA OthersOwn ==
    ASSUME OneOwner, NEW l \in lists
    PROVE  allocated \ Own(l) = UNION {Own(j) : j \in lists \ {l}}
<1> DEFINE Mine(j) == Own(j)
<1>1. allocated = UNION {Mine(j) : j \in lists} /\ \A j \in lists : j # l => Mine(j) \cap Mine(l) = {}
    BY DEF OneOwner
<1> HIDE DEF Mine
<1>2. allocated \ Mine(l) = UNION {Mine(j) : j \in lists \ {l}}
    BY <1>1
<1> QED BY <1>2 DEF Mine

LEMMA ListInitEstablishes == ListInit => ListIInv
<1> SUFFICES ASSUME ListInit PROVE ListIInv
    OBVIOUS
<1>1. ListShape
    BY DEF ListInit, ListShape, Links
<1>2. OneOwner
    BY DEF ListInit, OneOwner
<1> QED BY <1>1, <1>2 DEF ListIInv

\* Building a list of n nodes in l, which loses those it had
LEMMA BuiltKeeps ==
    ASSUME ListShape, OneOwner, NEW l \in Lists, NEW n \in 0..MaxSize, NEW c \in Chains(n),
           lists' = lists \cup {l}, m_head' = [m_head EXCEPT ![l] = First(c, n)],
           m_size' = [m_size EXCEPT ![l] = n], next' = Linked(c, n),
           allocated' = (UNION {Own(j) : j \in lists \ {l}}) \cup Newly(c, n), ~freedTwice'
    PROVE  OneOwner'
<1>1. /\ next' \in Links /\ Row(next', c, n) /\ Newly(c, n) \subseteq Nodes \ allocated
      /\ \A x \in Nodes \ Newly(c, n) : next'[x] = next[x]
      /\ Cardinality(Newly(c, n)) = n /\ n \in Nat /\ n <= MaxSize
    BY LinkedRow, ListAssumption DEF ListShape
<1>2. Own(l)' = Newly(c, n)
    <2>1. m_head'[l] = First(c, n)
        BY DEF ListShape
    <2> QED BY <1>1, <2>1, NewlyMet DEF Own
<1>3. ASSUME NEW j \in lists, j # l
      PROVE  /\ Own(j)' = Own(j) /\ Own(j) \subseteq allocated /\ m_size'[j] = m_size[j]
             /\ \A x \in Own(j) : x \notin Met(next', next'[x])
    <2>1. j \in Lists /\ m_head'[j] = m_head[j] /\ m_size'[j] = m_size[j]
        BY <1>3 DEF ListShape
    <2>2. Own(j) \subseteq allocated /\ m_head[j] \in Nodes \cup {nullptr} /\ Own(j) \subseteq Nodes
        BY <2>1, OwnedAllocated, OwnFacts
    <2>3. \A x \in Own(j) : next'[x] = next[x]
        BY <1>1, <2>2
    <2>4. next \in Links
        BY DEF ListShape
    <2>5. Own(j)' = Own(j)
        BY <1>1, <2>1, <2>2, <2>3, <2>4, MetSame DEF Own
    <2>6. ASSUME NEW x \in Own(j)
          PROVE  x \notin Met(next', next'[x])
        <3>1. Met(next, next[x]) \subseteq Own(j)
            BY <2>2, <2>4, MetWithin DEF Own
        <3>2. next'[x] = next[x] /\ next[x] \in Nodes \cup {nullptr}
            BY <2>2, <2>3, <2>4 DEF Links
        <3>3. \A y \in Met(next, next[x]) : next'[y] = next[y]
            BY <2>3, <3>1
        <3>4. Met(next', next'[x]) = Met(next, next[x])
            BY <1>1, <2>4, <3>2, <3>3, MetSame
        <3> QED BY <2>2, <3>4 DEF OneOwner
    <2> QED BY <2>1, <2>2, <2>5, <2>6
<1>4. \A x \in Newly(c, n) : x \notin Met(next', next'[x])
    BY <1>1, NewlyOnward
<1>5. (allocated = UNION {Own(j) : j \in lists})'
    <2> DEFINE Now(j) == Own(j)'
               Before(j) == Own(j)
               Got(j) == IF j = l THEN Newly(c, n) ELSE Before(j)
    <2>1. \A j \in lists \cup {l} : Now(j) = Got(j)
        BY <1>2, <1>3
    <2>2. allocated' = (UNION {Before(j) : j \in lists \ {l}}) \cup Newly(c, n)
        OBVIOUS
    <2> HIDE DEF Now, Before
    <2>3. allocated' = UNION {Got(j) : j \in lists \cup {l}}
        BY <2>2
    <2> HIDE DEF Got
    <2>4. allocated' = UNION {Now(j) : j \in lists \cup {l}}
        BY <2>1, <2>3
    <2> QED BY <2>4 DEF Now
<1>6. (\A j, k \in lists : j # k => Own(j) \cap Own(k) = {})'
    BY <1>1, <1>2, <1>3 DEF OneOwner
<1>7. (\A j \in lists : Cardinality(Own(j)) = m_size[j] /\ m_size[j] <= MaxSize)'
    <2>1. m_size'[l] = n
        BY DEF ListShape
    <2>2. \A j \in lists : Cardinality(Own(j)) = m_size[j] /\ m_size[j] <= MaxSize
        BY DEF OneOwner
    <2>3. ASSUME NEW j \in lists \cup {l}
          PROVE  Cardinality(Own(j)') = m_size'[j] /\ m_size'[j] <= MaxSize
        <3>1. CASE j = l
            BY <1>1, <1>2, <2>1, <3>1
        <3>2. CASE j # l
            BY <1>3, <2>2, <3>2
        <3> QED BY <3>1, <3>2
    <2> QED BY <2>3
<1>8. (\A x \in allocated : x \notin Met(next, next[x]))'
    BY <1>3, <1>4
<1> QED BY <1>5, <1>6, <1>7, <1>8 DEF OneOwner

LEMMA BuiltShape ==
    ASSUME ListShape, NEW l \in Lists, NEW n \in Nat, NEW c \in Chains(n),
           m_head' = [m_head EXCEPT ![l] = First(c, n)], m_size' = [m_size EXCEPT ![l] = n],
           next' = Linked(c, n)
    PROVE  /\ m_head' \in [Lists -> Nodes \cup {nullptr}] /\ m_size' \in [Lists -> Nat]
           /\ next' \in Links /\ Newly(c, n) \subseteq Nodes
<1>1. next' \in Links /\ Newly(c, n) \subseteq Nodes
    BY LinkedRow DEF ListShape
<1>2. First(c, n) \in Nodes \cup {nullptr}
    <2>1. n # 0 => 1 \in 1..n
        OBVIOUS
    <2> QED BY <2>1 DEF First, Chains
<1> QED BY <1>1, <1>2 DEF ListShape

\* ConstructList and CopyConstructList
LEMMA BuildKeeps ==
    ASSUME ListIInv, NEW l \in Lists \ lists, NEW n \in Nat, ~cleared => n <= MaxSize,
           lists' = lists \cup {l}, Build(l, n), cleared' = cleared,
           freedTwice' \in BOOLEAN, ~cleared => ~freedTwice'
    PROVE  ListIInv'
<1>1. PICK c \in Chains(n) :
          /\ m_head' = [m_head EXCEPT ![l] = First(c, n)] /\ m_size' = [m_size EXCEPT ![l] = n]
          /\ next' = Linked(c, n) /\ allocated' = allocated \cup Newly(c, n)
    BY DEF Build, First, Newly
<1>2. ListShape'
    BY <1>1, BuiltShape DEF ListIInv, ListShape
<1>3. ASSUME ~cleared PROVE OneOwner'
    <2>1. allocated' = (UNION {Own(j) : j \in lists \ {l}}) \cup Newly(c, n)
        <3>1. lists \ {l} = lists /\ allocated = UNION {Own(j) : j \in lists}
            BY <1>3 DEF ListIInv, OneOwner
        <3> QED BY <1>1, <3>1
    <2>2. n \in 0..MaxSize
        BY <1>3, ListAssumption
    <2> QED BY <1>1, <1>3, <2>1, <2>2, BuiltKeeps DEF ListIInv
<1> QED BY <1>2, <1>3 DEF ListIInv

LEMMA ConstructListKeeps ==
    ASSUME ListIInv, NEW l \in Lists, NEW n \in 0..MaxSize, ConstructList(l, n)
    PROVE  ListIInv'
BY BuildKeeps, ListAssumption DEF ConstructList, ListIInv, ListShape, OneOwner

\* The number of nodes that a copy of k gets
LEMMA CopySize ==
    ASSUME ListIInv, NEW k \in lists
    PROVE  /\ Cardinality(Chain(m_head[k])) \in Nat
           /\ ~cleared => Cardinality(Chain(m_head[k])) <= MaxSize /\ ~Dangles(m_head[k])
<1>1. k \in Lists
    BY DEF ListIInv, ListShape
<1> QED BY <1>1, OwnFacts, OwnedAllocated DEF ListIInv, OneOwner

LEMMA CopyConstructListKeeps ==
    ASSUME ListIInv, NEW l \in Lists, NEW k \in Lists, CopyConstructList(l, k)
    PROVE  ListIInv'
<1>1. freedTwice' \in BOOLEAN /\ (~cleared => ~freedTwice')
    BY CopySize DEF CopyConstructList, ListIInv, ListShape, OneOwner, Dangles
<1> QED BY <1>1, CopySize, BuildKeeps DEF CopyConstructList

LEMMA CopyAssignListKeeps ==
    ASSUME ListIInv, NEW l \in Lists, NEW k \in Lists, CopyAssignList(l, k)
    PROVE  ListIInv'
<1> DEFINE n == Cardinality(Chain(m_head[k]))
<1>1. l \in lists /\ k \in lists /\ m_size' = [m_size EXCEPT ![l] = n]
      /\ lists' = lists /\ cleared' = cleared
      /\ freedTwice' = (freedTwice \/ Dangles(m_head[l]) \/ Dangles(m_head[k]))
    BY DEF CopyAssignList
<1>2. PICK c \in Chains(n) :
          /\ m_head' = [m_head EXCEPT ![l] = First(c, n)] /\ next' = Linked(c, n)
          /\ allocated' = (allocated \ Chain(m_head[l])) \cup Newly(c, n)
    BY DEF CopyAssignList, First, Newly
<1>3. n \in Nat /\ (~cleared => n <= MaxSize)
    BY <1>1, CopySize
<1>4. freedTwice' \in BOOLEAN /\ (~cleared => ~freedTwice')
    BY <1>1, CopySize DEF ListIInv, ListShape, OneOwner, Dangles
<1> HIDE DEF n
<1>5. ListShape'
    BY <1>1, <1>2, <1>3, <1>4, BuiltShape DEF ListIInv, ListShape
<1>6. ASSUME ~cleared PROVE OneOwner'
    <2>1. ListShape /\ OneOwner /\ Chain(m_head[l]) = Own(l)
        BY <1>6, OwnFacts DEF ListIInv
    <2>2. allocated \ Own(l) = UNION {Own(j) : j \in lists \ {l}}
        BY <1>1, <2>1, OthersOwn
    <2>3. allocated' = (UNION {Own(j) : j \in lists \ {l}}) \cup Newly(c, n)
        BY <1>2, <2>1, <2>2
    <2>4. n \in 0..MaxSize /\ lists' = lists \cup {l}
        BY <1>1, <1>3, <1>6, ListAssumption
    <2> QED BY <1>1, <1>2, <1>4, <1>6, <2>1, <2>3, <2>4, BuiltKeeps
<1> QED BY <1>1, <1>5, <1>6 DEF ListIInv

\* Actions that link nothing anew and allocate nothing: the walks are what they were.
LEMMA MovedKeeps ==
    ASSUME ListIInv, next' = next, ListShape', ~freedTwice', allocated' \subseteq allocated, ~cleared,
           allocated' = UNION {Own(j)' : j \in lists'},
           \A j, k \in lists' : j # k => Own(j)' \cap Own(k)' = {},
           \A j \in lists' : Cardinality(Own(j)') = m_size'[j] /\ m_size'[j] <= MaxSize
    PROVE  ListIInv'
<1>1. (\A x \in allocated : x \notin Met(next, next[x]))'
    BY DEF ListIInv, OneOwner
<1> QED BY <1>1 DEF ListIInv, OneOwner

LEMMA MoveConstructListKeeps ==
    ASSUME ListIInv, NEW l \in Lists, NEW k \in Lists, MoveConstructList(l, k)
    PROVE  ListIInv'
<1>1. /\ l \notin lists /\ k \in lists /\ lists' = lists \cup {l} /\ l # k
      /\ m_head'[l] = m_head[k] /\ m_head'[k] = nullptr /\ m_size'[l] = m_size[k] /\ m_size'[k] = 0
      /\ \A j \in lists \ {k} : m_head'[j] = m_head[j] /\ m_size'[j] = m_size[j]
      /\ next' = next /\ allocated' = allocated /\ freedTwice' = freedTwice /\ cleared' = cleared
    BY DEF MoveConstructList, StolenHead, ListIInv, ListShape
<1>2. ListShape'
    BY <1>1 DEF MoveConstructList, StolenHead, ListIInv, ListShape
<1>3. ASSUME ~cleared PROVE ListIInv'
    <2> DEFINE Before(j) == Own(j)
               Now(j) == Own(j)'
    <2>1. Now(l) = Before(k) /\ Now(k) = {} /\ \A j \in lists \ {k} : Now(j) = Before(j)
        BY <1>1, MetNull DEF Own
    <2>2. /\ allocated = UNION {Before(j) : j \in lists}
          /\ \A i, j \in lists : i # j => Before(i) \cap Before(j) = {}
          /\ \A j \in lists : Cardinality(Before(j)) = m_size[j] /\ m_size[j] <= MaxSize
          /\ ~freedTwice
        BY <1>3 DEF ListIInv, OneOwner
    <2> HIDE DEF Now, Before
    <2>3. \A j \in lists : j = k \/ j \in lists \ {k}
        OBVIOUS
    <2>4. allocated' = UNION {Now(j) : j \in lists'}
        BY <1>1, <2>1, <2>2, <2>3
    <2>5. \A i, j \in lists' : i # j => Now(i) \cap Now(j) = {}
        BY <1>1, <2>1, <2>2, <2>3
    <2>6. \A j \in lists' : Cardinality(Now(j)) = m_size'[j] /\ m_size'[j] <= MaxSize
        <3>1. Cardinality(Now(k)) = 0 /\ m_size'[k] = 0 /\ 0 <= MaxSize
            BY <1>1, <2>1, FS_EmptySet, ListAssumption
        <3>2. Cardinality(Now(l)) = m_size'[l] /\ m_size'[l] <= MaxSize
            BY <1>1, <2>1, <2>2
        <3>3. ASSUME NEW j \in lists \ {k}
              PROVE  Cardinality(Now(j)) = m_size'[j] /\ m_size'[j] <= MaxSize
            BY <1>1, <2>1, <2>2
        <3> QED BY <1>1, <2>3, <3>1, <3>2, <3>3
    <2> QED BY <1>1, <1>2, <1>3, <2>2, <2>4, <2>5, <2>6, MovedKeeps DEF Now
<1> QED BY <1>1, <1>2, <1>3 DEF ListIInv

LEMMA SwapListsKeeps ==
    ASSUME ListIInv, NEW l \in Lists, NEW k \in Lists, swap(l, k)
    PROVE  ListIInv'
<1>1. /\ l \in lists /\ k \in lists /\ lists' = lists
      /\ m_head'[l] = m_head[k] /\ m_head'[k] = m_head[l]
      /\ m_size'[l] = m_size[k] /\ m_size'[k] = m_size[l]
      /\ \A j \in lists \ {k, l} : m_head'[j] = m_head[j] /\ m_size'[j] = m_size[j]
      /\ next' = next /\ allocated' = allocated /\ freedTwice' = freedTwice /\ cleared' = cleared
    BY DEF swap, ListIInv, ListShape
<1>2. ListShape'
    BY <1>1 DEF swap, ListIInv, ListShape
<1>3. ASSUME ~cleared PROVE ListIInv'
    <2> DEFINE Before(j) == Own(j)
               Now(j) == Own(j)'
    <2>1. /\ Now(l) = Before(k) /\ Now(k) = Before(l)
          /\ \A j \in lists \ {k, l} : Now(j) = Before(j)
        BY <1>1 DEF Own
    <2>2. /\ allocated = UNION {Before(j) : j \in lists}
          /\ \A i, j \in lists : i # j => Before(i) \cap Before(j) = {}
          /\ \A j \in lists : Cardinality(Before(j)) = m_size[j] /\ m_size[j] <= MaxSize
          /\ ~freedTwice
        BY <1>3 DEF ListIInv, OneOwner
    <2> HIDE DEF Now, Before
    <2>3. \A j \in lists : j = k \/ j = l \/ j \in lists \ {k, l}
        OBVIOUS
    <2>4. allocated' = UNION {Now(j) : j \in lists'}
        BY <1>1, <2>1, <2>2, <2>3
    <2>5. \A i, j \in lists' : i # j => Now(i) \cap Now(j) = {}
        BY <1>1, <2>1, <2>2, <2>3
    <2>6. \A j \in lists' : Cardinality(Now(j)) = m_size'[j] /\ m_size'[j] <= MaxSize
        BY <1>1, <2>1, <2>2, <2>3
    <2> QED BY <1>1, <1>2, <1>3, <2>2, <2>4, <2>5, <2>6, MovedKeeps DEF Now
<1> QED BY <1>1, <1>2, <1>3 DEF ListIInv

\* m_size counted down
LEMMA CountedDown ==
    ASSUME NEW s \in Nat \ {0}, s <= MaxSize
    PROVE  (s + SizeMod - 1) % SizeMod = s - 1
<1> DEFINE r == s - 1
<1>1. r \in Nat /\ r < SizeMod /\ SizeMod \in Nat \ {0} /\ s + SizeMod - 1 = SizeMod + r
    BY ListAssumption
<1> HIDE DEF r
<1>2. (SizeMod + r) % SizeMod = r
    BY <1>1
<1> QED BY <1>1, <1>2 DEF r

LEMMA PopFrontKeeps ==
    ASSUME ListIInv, NEW l \in Lists, pop_front(l)
    PROVE  ListIInv'
<1> DEFINE h == m_head[l]
<1>1. /\ l \in lists /\ h \in Nodes /\ lists' = lists
      /\ m_head' = [m_head EXCEPT ![l] = next[h]]
      /\ m_size' = [m_size EXCEPT ![l] = (m_size[l] + SizeMod - 1) % SizeMod]
      /\ next' = next /\ allocated' = allocated \ {h}
      /\ freedTwice' = (freedTwice \/ h \notin allocated) /\ cleared' = cleared
    BY DEF pop_front, ListIInv, ListShape
<1>2. m_head[l] = h /\ next \in Links /\ m_head \in [Lists -> Nodes \cup {nullptr}]
      /\ m_size \in [Lists -> Nat]
    BY DEF ListIInv, ListShape
<1> HIDE DEF h
<1>3. ListShape'
    <2>1. next[h] \in Nodes \cup {nullptr}
        BY <1>1, <1>2 DEF Links
    <2>2. (m_size[l] + SizeMod - 1) % SizeMod \in Nat
        <3>1. m_size[l] \in Nat /\ SizeMod \in Nat /\ SizeMod > 0
            BY <1>2, ListAssumption
        <3> QED BY <3>1
    <2> QED BY <1>1, <1>2, <2>1, <2>2 DEF ListIInv, ListShape
<1>4. ASSUME ~cleared PROVE ListIInv'
    <2> DEFINE Before(j) == Own(j)
               Now(j) == Own(j)'
    <2>1. /\ allocated = UNION {Before(j) : j \in lists}
          /\ \A i, j \in lists : i # j => Before(i) \cap Before(j) = {}
          /\ \A j \in lists : Cardinality(Before(j)) = m_size[j] /\ m_size[j] <= MaxSize
          /\ ~freedTwice
        BY <1>4 DEF ListIInv, OneOwner
    <2>2. h \in Before(l) /\ h \in allocated /\ Before(l) = {h} \cup Met(next, next[h])
        <3>1. Before(l) = {h} \cup Met(next, next[h])
            BY <1>1, <1>2, MetFirst DEF Own
        <3> QED BY <1>1, <2>1, <3>1
    <2>3. h \notin Met(next, next[h])
        BY <1>4, <2>2 DEF ListIInv, OneOwner
    <2>4. Now(l) = Before(l) \ {h}
        BY <1>1, <1>2, <2>2, <2>3 DEF Own
    <2>5. \A j \in lists \ {l} : Now(j) = Before(j) /\ m_size'[j] = m_size[j]
        BY <1>1, <1>2 DEF Own, ListIInv, ListShape
    <2>6. IsFiniteSet(Before(l)) /\ Cardinality(Before(l)) = m_size[l] /\ m_size[l] \in Nat
        BY <1>1, <1>2, <2>1, OwnFacts DEF ListIInv
    <2> HIDE DEF Now, Before
    <2>7. Cardinality(Now(l)) = m_size[l] - 1 /\ m_size[l] # 0
        BY <2>2, <2>4, <2>6, FS_RemoveElement, FS_EmptySet
    <2>8. m_size'[l] = m_size[l] - 1
        BY <1>1, <1>2, <2>1, <2>6, <2>7, CountedDown
    <2>9. allocated' = UNION {Now(j) : j \in lists'}
        BY <1>1, <2>1, <2>2, <2>4, <2>5
    <2>10. \A i, j \in lists' : i # j => Now(i) \cap Now(j) = {}
        BY <1>1, <2>1, <2>4, <2>5
    <2>11. \A j \in lists' : Cardinality(Now(j)) = m_size'[j] /\ m_size'[j] <= MaxSize
        BY <1>1, <2>1, <2>5, <2>6, <2>7, <2>8, ListAssumption
    <2> QED BY <1>1, <1>3, <1>4, <2>1, <2>2, <2>9, <2>10, <2>11, MovedKeeps DEF Now
<1> QED BY <1>1, <1>3, <1>4 DEF ListIInv

LEMMA ClearKeeps ==
    ASSUME ListIInv, NEW l \in Lists, clear(l)
    PROVE  ListIInv'
<1>1. /\ l \in lists /\ lists' = lists /\ m_head' = m_head /\ next' = next
      /\ allocated' = allocated \ Chain(m_head[l]) /\ m_size' = [m_size EXCEPT ![l] = 0]
      /\ freedTwice' = (freedTwice \/ Dangles(m_head[l]))
      /\ cleared' = (cleared \/ m_head[l] # nullptr)
    BY DEF clear
<1>2. ListShape'
    BY <1>1 DEF ListIInv, ListShape, Dangles
<1>3. ASSUME ~cleared' PROVE OneOwner'
    <2>1. ListShape /\ OneOwner /\ m_head[l] = nullptr /\ ~cleared
        BY <1>1, <1>3 DEF ListIInv
    <2>2. Own(l) = {} /\ Own(l) = Chain(m_head[l])
        BY <2>1, MetNull, OwnFacts DEF Own
    <2>3. m_size[l] = 0
        BY <1>1, <2>1, <2>2, FS_EmptySet DEF OneOwner
    <2>4. m_size' = m_size
        BY <1>1, <2>1, <2>3 DEF ListShape
    <2>5. allocated' = allocated /\ ~freedTwice'
        <3>1. ~Dangles(m_head[l]) /\ ~freedTwice
            BY <1>1, <2>1, OwnedAllocated DEF OneOwner
        <3> QED BY <1>1, <2>2, <3>1
    <2> QED BY <1>1, <2>1, <2>4, <2>5 DEF OneOwner, Own
<1> QED BY <1>2, <1>3 DEF ListIInv

LEMMA DestroyListKeeps ==
    ASSUME ListIInv, NEW l \in Lists, DestroyList(l)
    PROVE  ListIInv'
<1>1. /\ l \in lists /\ lists' = lists \ {l} /\ next' = next /\ cleared' = cleared
      /\ allocated' = allocated \ Chain(m_head[l]) /\ m_head' = [m_head EXCEPT ![l] = nullptr]
      /\ m_size' = [m_size EXCEPT ![l] = 0] /\ freedTwice' = (freedTwice \/ Dangles(m_head[l]))
    BY DEF DestroyList
<1>2. ListShape'
    BY <1>1 DEF ListIInv, ListShape, Dangles
<1>3. ASSUME ~cleared PROVE ListIInv'
    <2> DEFINE Before(j) == Own(j)
               Now(j) == Own(j)'
    <2>1. OneOwner /\ Chain(m_head[l]) = Before(l) /\ ~freedTwice'
        BY <1>1, <1>3, OwnFacts, OwnedAllocated DEF ListIInv, OneOwner
    <2>2. \A j \in lists' : Now(j) = Before(j) /\ m_size'[j] = m_size[j]
        BY <1>1 DEF Own, ListIInv, ListShape
    <2>3. allocated' = UNION {Before(j) : j \in lists'}
        BY <1>1, <2>1, OthersOwn
    <2>4. /\ \A i, j \in lists : i # j => Before(i) \cap Before(j) = {}
          /\ \A j \in lists : Cardinality(Before(j)) = m_size[j] /\ m_size[j] <= MaxSize
        BY <2>1 DEF OneOwner
    <2> HIDE DEF Now, Before
    <2>5. allocated' = UNION {Now(j) : j \in lists'}
        BY <2>2, <2>3
    <2>6. \A i, j \in lists' : i # j => Now(i) \cap Now(j) = {}
        BY <1>1, <2>2, <2>4
    <2>7. \A j \in lists' : Cardinality(Now(j)) = m_size'[j] /\ m_size'[j] <= MaxSize
        BY <1>1, <2>2, <2>4
    <2> QED BY <1>1, <1>2, <1>3, <2>1, <2>5, <2>6, <2>7, MovedKeeps DEF Now
<1> QED BY <1>1, <1>2, <1>3 DEF ListIInv

LEMMA ListStepKeeps == ListIInv /\ [ListNext]_listVars => ListIInv'
<1> SUFFICES ASSUME ListIInv, [ListNext]_listVars
             PROVE  ListIInv'
    OBVIOUS
<1>1. ASSUME NEW l \in Lists, NEW n \in 0..MaxSize, ConstructList(l, n)
      PROVE  ListIInv'
    BY <1>1, ConstructListKeeps
<1>2. ASSUME NEW l \in Lists, pop_front(l) \/ clear(l) \/ DestroyList(l)
      PROVE  ListIInv'
    BY <1>2, PopFrontKeeps, ClearKeeps, DestroyListKeeps
<1>3. ASSUME NEW l \in Lists, NEW k \in Lists,
             CopyConstructList(l, k) \/ MoveConstructList(l, k) \/ swap(l, k) \/ CopyAssignList(l, k)
      PROVE  ListIInv'
    BY <1>3, CopyConstructListKeeps, MoveConstructListKeeps, SwapListsKeeps, CopyAssignListKeeps
<1>4. CASE UNCHANGED listVars
    BY <1>4 DEF listVars, ListIInv, ListShape, OneOwner, Own
<1> QED BY <1>1, <1>2, <1>3, <1>4 DEF ListNext

LEMMA ListInvariance == ListSpec => []ListIInv
<1>1. ListInit => ListIInv
    BY ListInitEstablishes
<1>2. ListIInv /\ [ListNext]_listVars => ListIInv'
    BY ListStepKeeps
<1> QED BY <1>1, <1>2, PTL DEF ListSpec

\* For any number of lists over any heap: each node on it is in exactly one list and freed
\* once, and sizes are right, whatever is copied, moved, swapped, popped and destroyed,
\* until a list with nodes is cleared.
THEOREM NodesHaveOneOwner == ListSpec => []NodesOwnedOnce
<1>1. ListIInv => NodesOwnedOnce
    <2> SUFFICES ASSUME ListIInv, ~cleared
                 PROVE  /\ allocated = UNION {Chain(m_head[l]) : l \in lists}
                        /\ \A l, k \in lists : l # k => Chain(m_head[l]) \cap Chain(m_head[k]) = {}
                        /\ \A l \in lists : Cardinality(Chain(m_head[l])) = m_size[l]
                        /\ ~freedTwice
        BY DEF NodesOwnedOnce
    <2>1. \A l \in lists : Chain(m_head[l]) = Own(l)
        BY ChainMeets DEF Own
    <2> QED BY <2>1 DEF ListIInv, OneOwner
<1> QED BY <1>1, ListInvariance, PTL
=============================================================================
