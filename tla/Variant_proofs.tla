--------------------------- MODULE Variant_proofs ---------------------------
(***************************************************************************)
(* Theorems about the tagged unions: Variant, for any lists of types,      *)
(* index types and payloads, and Visit, for any numbers of variants and    *)
(* alternatives.                                                           *)
(***************************************************************************)
EXTENDS Variant, Visit, WellFoundedInduction, TLAPS

-----------------------------------------------------------------------------
(* Induction: a set of numbers has a least one *)

LEMMA LessThan == \A x, y \in Nat : x < y => <<x, y>> \in OpToRel(<, Nat)
BY DEF OpToRel

LEMMA Least ==
    ASSUME NEW S \in SUBSET Nat, S # {}
    PROVE  \E n \in S : \A m \in S : n <= m
<1>1. PICK n \in S : \A m \in S : ~(<<m, n>> \in OpToRel(<, Nat))
    BY NatLessThanWellFounded, WFMin, Zenon
<1>2. \A m \in S : ~(m < n)
    BY <1>1, LessThan
<1> QED BY <1>2

-----------------------------------------------------------------------------
(* find_index_of *)

Search(from, T, Ts) ==
    from = [i \in 0..Len(Ts) |->
              IF i = Len(Ts) THEN i ELSE IF Ts[i + 1] = T THEN i ELSE from[i + 1]]

\* The first place from i on where the search stops.
Stops(T, Ts, i, j) ==
    /\ j = Len(Ts) \/ Ts[j + 1] = T
    /\ \A k \in i..(j - 1) : Ts[k + 1] # T

LEMMA SearchStops ==
    ASSUME NEW Ts \in Seq(Types), NEW T, NEW i \in 0..Len(Ts)
    PROVE  \E j \in i..Len(Ts) : Stops(T, Ts, i, j)
<1> DEFINE S == {j \in i..Len(Ts) : j = Len(Ts) \/ Ts[j + 1] = T}
<1>1. Len(Ts) \in Nat
    OBVIOUS
<1>2. S \in SUBSET Nat /\ S # {}
    BY <1>1
<1>3. PICK n \in S : \A m \in S : n <= m
    BY <1>2, Least
<1>4. ASSUME NEW k \in i..(n - 1), Ts[k + 1] = T
      PROVE  FALSE
    <2>1. k \in i..Len(Ts) /\ k < n /\ n \in i..Len(Ts)
        BY <1>1, <1>3
    <2>2. k \in S
        BY <1>4, <2>1
    <2> QED BY <1>3, <2>1, <2>2
<1> QED BY <1>3, <1>4 DEF Stops

LEMMA SearchExists ==
    ASSUME NEW Ts \in Seq(Types), NEW T
    PROVE  \E from : Search(from, T, Ts)
<1> DEFINE from == [i \in 0..Len(Ts) |-> CHOOSE j \in i..Len(Ts) : Stops(T, Ts, i, j)]
<1>1. Len(Ts) \in Nat
    OBVIOUS
<1>2. ASSUME NEW i \in 0..Len(Ts)
      PROVE  from[i] \in i..Len(Ts) /\ Stops(T, Ts, i, from[i])
    BY SearchStops
<1> HIDE DEF from
<1>3. ASSUME NEW i \in 0..Len(Ts)
      PROVE  from[i] = IF i = Len(Ts) THEN i ELSE IF Ts[i + 1] = T THEN i ELSE from[i + 1]
    <2>1. CASE i = Len(Ts)
        BY <1>1, <1>2, <2>1
    <2>2. CASE i # Len(Ts) /\ Ts[i + 1] = T
        BY <1>1, <1>2, <2>2 DEF Stops
    <2>3. CASE i # Len(Ts) /\ Ts[i + 1] # T
        <3>1. i + 1 \in 0..Len(Ts)
            BY <1>1, <2>3
        <3>2. from[i] \in (i + 1)..Len(Ts)
            BY <1>1, <1>2, <2>3 DEF Stops
        <3>3. from[i + 1] \in (i + 1)..Len(Ts) /\ Stops(T, Ts, i + 1, from[i + 1])
            BY <1>2, <3>1
        <3>4. from[i] \in i..Len(Ts) /\ Stops(T, Ts, i, from[i])
            BY <1>2
        <3> QED BY <1>1, <2>3, <3>2, <3>3, <3>4 DEF Stops
    <2> QED BY <2>1, <2>2, <2>3
<1>4. from = [i \in 0..Len(Ts) |-> from[i]]
    BY DEF from
<1>5. Search(from, T, Ts)
    BY <1>3, <1>4 DEF Search
<1> QED BY <1>5

LEMMA SearchFinds ==
    ASSUME NEW Ts \in Seq(Types), NEW T, NEW from, Search(from, T, Ts)
    PROVE  from[0] \in 0..Len(Ts) /\ Stops(T, Ts, 0, from[0])
<1>1. Len(Ts) \in Nat
    OBVIOUS
<1> DEFINE Right(i) == from[i] \in i..Len(Ts) /\ Stops(T, Ts, i, from[i])
           S == {n \in 0..Len(Ts) : ~Right(Len(Ts) - n)}
<1>2. ASSUME NEW i \in 0..Len(Ts)
      PROVE  from[i] = IF i = Len(Ts) THEN i ELSE IF Ts[i + 1] = T THEN i ELSE from[i + 1]
    BY DEF Search
<1>3. ASSUME S # {}
      PROVE  FALSE
    <2>1. S \in SUBSET Nat
        BY <1>1
    <2>2. PICK n \in S : \A m \in S : n <= m
        BY <1>3, <2>1, Least
    <2> DEFINE i == Len(Ts) - n
    <2>3. i \in 0..Len(Ts) /\ n \in 0..Len(Ts) /\ ~Right(i)
        BY <1>1, <2>2
    <2>4. i < Len(Ts) => Right(i + 1)
        <3>1. n - 1 \notin S
            BY <1>1, <2>2
        <3> QED BY <1>1, <2>3, <3>1
    <2> QED BY <1>1, <1>2, <2>3, <2>4 DEF Stops
<1>4. Right(Len(Ts) - Len(Ts))
    BY <1>1, <1>3
<1> QED BY <1>1, <1>4

LEMMA FindIndex ==
    ASSUME NEW Ts \in Seq(Types), NEW T
    PROVE  /\ find_index_of(T, Ts) \in 0..Len(Ts)
           /\ find_index_of(T, Ts) < Len(Ts) => Ts[find_index_of(T, Ts) + 1] = T
           /\ \A i \in 1..Len(Ts) : Ts[i] = T => find_index_of(T, Ts) < i
<1> DEFINE from == CHOOSE from : Search(from, T, Ts)
<1>1. Search(from, T, Ts)
    BY SearchExists
<1>2. find_index_of(T, Ts) = from[0]
    BY DEF find_index_of, Search
<1> HIDE DEF from
<1>3. from[0] \in 0..Len(Ts) /\ Stops(T, Ts, 0, from[0])
    BY <1>1, SearchFinds
<1>4. Len(Ts) \in Nat
    OBVIOUS
<1>5. ASSUME NEW i \in 1..Len(Ts), Ts[i] = T, from[0] >= i
      PROVE  FALSE
    <2>1. i - 1 \in 0..(from[0] - 1) /\ (i - 1) + 1 = i
        BY <1>3, <1>4, <1>5
    <2> QED BY <1>3, <1>5, <2>1 DEF Stops
<1> QED BY <1>2, <1>3, <1>4, <1>5 DEF Stops
-----------------------------------------------------------------------------
(* The lookups by index *)

LEMMA NthType ==
    ASSUME NEW Ts \in Seq(Types), NEW n \in 0..(Len(Ts) - 1)
    PROVE  get_nth_type(n, Ts) = Ts[n + 1]
<1>1. Len(Ts) \in Nat /\ n + 1 \in 1..Len(Ts) /\ DOMAIN Ts = 1..Len(Ts)
    OBVIOUS
<1>2. <<(n + 1) - 1, Ts[n + 1]>> \in indexer(Ts)
    BY <1>1 DEF indexer
<1>3. \E base \in indexer(Ts) : base[1] = n
    BY <1>1, <1>2
<1>4. ASSUME NEW base \in indexer(Ts), base[1] = n
      PROVE  base[2] = Ts[n + 1]
    <2>1. PICK i \in DOMAIN Ts : base = <<i - 1, Ts[i]>>
        BY DEF indexer
    <2>2. i - 1 = n
        BY <1>4, <2>1
    <2>3. i = n + 1
        BY <1>1, <2>1, <2>2
    <2> QED BY <2>1, <2>3
<1> QED BY <1>3, <1>4 DEF get_nth_type, nth_type_v2

LEMMA NthTypeSkipping ==
    ASSUME NEW Ts \in Seq(Types), NEW n \in 0..(Len(Ts) - 1)
    PROVE  nth_type_v3(n, Ts) = Ts[n + 1]
<1>1. Len(Ts) \in Nat /\ n + 1 \in 1..Len(Ts)
    OBVIOUS
<1>2. /\ Len(SubSeq(Ts, n + 1, Len(Ts))) = Len(Ts) - n
      /\ SubSeq(Ts, n + 1, Len(Ts))[1] = Ts[n + 1]
    BY <1>1
<1> QED BY <1>1, <1>2 DEF nth_type_v3

\* rest drops a block at each step.
Dropping(rest, n, Ts) ==
    rest = [k \in 0..(n \div Block) |-> IF k = 0 THEN Ts ELSE Rest(rest[k - 1])]

\* What is left behind k blocks.
Behind(k, Ts) == [i \in 1..(Len(Ts) - k * Block) |-> Ts[k * Block + i]]

LEMMA Blocks == \A k \in Nat : k * Block \in Nat /\ (k + 1) * Block = k * Block + Block
BY TypesAssumption

LEMMA Quotient ==
    ASSUME NEW n \in Nat
    PROVE  /\ n \div Block \in Nat /\ n % Block \in 0..(Block - 1)
           /\ n = (n \div Block) * Block + (n % Block)
BY TypesAssumption

LEMMA BehindNothing ==
    ASSUME NEW Ts \in Seq(Types)
    PROVE  Behind(0, Ts) = Ts
<1>1. Len(Ts) \in Nat /\ 0 * Block = 0 /\ Ts = [i \in 1..Len(Ts) |-> Ts[i]]
    BY TypesAssumption
<1>2. \A i \in 1..Len(Ts) : 0 + i = i
    OBVIOUS
<1> QED BY <1>1, <1>2 DEF Behind

LEMMA BehindNext ==
    ASSUME NEW Ts \in Seq(Types), NEW k \in Nat, (k + 1) * Block <= Len(Ts)
    PROVE  Rest(Behind(k, Ts)) = Behind(k + 1, Ts)
<1> DEFINE left == Behind(k, Ts)
           n == Len(Ts) - k * Block
<1>1. /\ Len(Ts) \in Nat /\ Block \in Nat /\ k * Block \in Nat
      /\ (k + 1) * Block = k * Block + Block
    BY Blocks, TypesAssumption
<1>2. n \in Nat /\ Block <= n /\ n - Block = Len(Ts) - (k + 1) * Block
    BY <1>1
<1>3. \A i \in 1..n : k * Block + i \in 1..Len(Ts)
    BY <1>1
<1>4. left \in Seq(Types) /\ Len(left) = n /\ \A i \in 1..n : left[i] = Ts[k * Block + i]
    BY <1>2, <1>3 DEF Behind
<1> HIDE DEF left
<1>5. /\ Rest(left) \in Seq(Types) /\ Len(Rest(left)) = n - Block
      /\ \A i \in 1..(n - Block) : Rest(left)[i] = left[Block + i]
    <2>1. \A i \in 1..(n - Block) : (Block + 1) + i - 1 = Block + i
        BY <1>1, <1>2
    <2> HIDE DEF n
    <2> QED BY <1>1, <1>2, <1>4, <2>1 DEF Rest
<1>6. \A i \in 1..(n - Block) : Rest(left)[i] = Ts[(k + 1) * Block + i]
    <2>1. \A i \in 1..(n - Block) : Block + i \in 1..n /\ k * Block + (Block + i) = (k + 1) * Block + i
        BY <1>1, <1>2
    <2> QED BY <1>4, <1>5, <2>1
<1>7. Rest(left) = [i \in 1..(n - Block) |-> Ts[(k + 1) * Block + i]]
    BY <1>5, <1>6
<1> QED BY <1>2, <1>7 DEF Behind, left

\* The whole blocks before index n are within the list.
LEMMA WholeBlocks ==
    ASSUME NEW Ts \in Seq(Types), NEW n \in 0..(Len(Ts) - 1), NEW k \in 0..(n \div Block)
    PROVE  k \in Nat /\ k * Block <= n
<1>1. n \in Nat /\ n \div Block \in Nat /\ Block \in Nat
    BY Quotient, TypesAssumption
<1>2. k * Block <= (n \div Block) * Block
    BY <1>1
<1>3. k * Block \in Nat /\ (n \div Block) * Block \in Nat
    BY <1>1
<1>4. (n \div Block) * Block <= n
    BY <1>1, <1>3, Quotient
<1> QED BY <1>1, <1>2, <1>3, <1>4

LEMMA DroppingExists ==
    ASSUME NEW Ts \in Seq(Types), NEW n \in 0..(Len(Ts) - 1)
    PROVE  \E rest : Dropping(rest, n, Ts)
<1> DEFINE rest == [k \in 0..(n \div Block) |-> Behind(k, Ts)]
<1>1. n \in Nat /\ n \div Block \in Nat /\ Len(Ts) \in Nat
    <2>1. n \in Nat /\ Len(Ts) \in Nat
        OBVIOUS
    <2> QED BY <2>1, Quotient
<1>2. ASSUME NEW k \in 0..(n \div Block)
      PROVE  rest[k] = IF k = 0 THEN Ts ELSE Rest(rest[k - 1])
    <2>1. CASE k = 0
        BY <2>1, BehindNothing
    <2>2. CASE k # 0
        <3>1. k - 1 \in 0..(n \div Block) /\ k - 1 \in Nat /\ (k - 1) + 1 = k
            BY <1>1, <2>2
        <3>2. k * Block <= n /\ k * Block \in Nat
            BY WholeBlocks, Blocks
        <3>3. ((k - 1) + 1) * Block <= Len(Ts)
            BY <1>1, <3>1, <3>2
        <3>4. Rest(Behind(k - 1, Ts)) = Behind((k - 1) + 1, Ts)
            BY <3>1, <3>3, BehindNext
        <3> QED BY <2>2, <3>1, <3>4
    <2> QED BY <2>1, <2>2
<1>3. Dropping(rest, n, Ts)
    BY <1>2 DEF Dropping
<1> QED BY <1>3

LEMMA DroppingLeaves ==
    ASSUME NEW Ts \in Seq(Types), NEW n \in 0..(Len(Ts) - 1), NEW rest, Dropping(rest, n, Ts)
    PROVE  rest[n \div Block] = Behind(n \div Block, Ts)
<1> DEFINE S == {k \in 0..(n \div Block) : rest[k] # Behind(k, Ts)}
<1>1. n \in Nat /\ n \div Block \in Nat /\ Len(Ts) \in Nat
    <2>1. n \in Nat /\ Len(Ts) \in Nat
        OBVIOUS
    <2> QED BY <2>1, Quotient
<1>2. ASSUME NEW k \in 0..(n \div Block)
      PROVE  rest[k] = IF k = 0 THEN Ts ELSE Rest(rest[k - 1])
    BY DEF Dropping
<1>3. ASSUME S # {}
      PROVE  FALSE
    <2>1. PICK k \in S : \A j \in S : k <= j
        <3>1. S \in SUBSET Nat
            BY <1>1
        <3> QED BY <1>3, <3>1, Least
    <2>2. CASE k = 0
        BY <1>2, <2>1, <2>2, BehindNothing
    <2>3. CASE k # 0
        <3>1. k - 1 \in 0..(n \div Block) /\ k - 1 \in Nat /\ (k - 1) + 1 = k /\ k - 1 < k
            BY <1>1, <2>3
        <3>2. rest[k - 1] = Behind(k - 1, Ts)
            <4>1. k - 1 \notin S
                BY <1>1, <2>1, <3>1
            <4> QED BY <3>1, <4>1
        <3>3. k * Block <= n /\ k * Block \in Nat
            BY WholeBlocks, Blocks
        <3>4. ((k - 1) + 1) * Block <= Len(Ts)
            BY <1>1, <3>1, <3>3
        <3>5. Rest(Behind(k - 1, Ts)) = Behind((k - 1) + 1, Ts)
            BY <3>1, <3>4, BehindNext
        <3> QED BY <1>2, <2>1, <2>3, <3>1, <3>2, <3>5
    <2> QED BY <2>2, <2>3
<1>4. n \div Block \in 0..(n \div Block)
    BY <1>1
<1> QED BY <1>3, <1>4

LEMMA NthTypeBlockwise ==
    ASSUME NEW Ts \in Seq(Types), NEW n \in 0..(Len(Ts) - 1)
    PROVE  nth_type_v1(n, Ts) = Ts[n + 1]
<1> DEFINE rest == CHOOSE rest : Dropping(rest, n, Ts)
           q == n \div Block
           i == n % Block
<1>1. Dropping(rest, n, Ts)
    BY DroppingExists
<1>2. nth_type_v1(n, Ts) = IF i < Len(rest[q]) THEN rest[q][i + 1] ELSE Void
    BY DEF nth_type_v1, Dropping
<1> HIDE DEF rest
<1>3. rest[q] = Behind(q, Ts)
    BY <1>1, DroppingLeaves
<1>4. /\ n \in Nat /\ Len(Ts) \in Nat /\ n < Len(Ts) /\ q \in Nat /\ i \in Nat
      /\ q * Block \in Nat /\ n = q * Block + i
    <2>1. n \in Nat /\ Len(Ts) \in Nat /\ n < Len(Ts)
        OBVIOUS
    <2>2. q \in Nat /\ i \in 0..(Block - 1) /\ n = q * Block + i
        BY <2>1, Quotient
    <2> QED BY <2>1, <2>2, Blocks, TypesAssumption
<1> HIDE DEF q, i
<1>5. Len(Ts) - q * Block \in Nat /\ i < Len(Ts) - q * Block
    BY <1>4
<1>6. /\ Len(Behind(q, Ts)) = Len(Ts) - q * Block
      /\ \A j \in 1..(Len(Ts) - q * Block) : Behind(q, Ts)[j] = Ts[q * Block + j]
    <2>1. \A j \in 1..(Len(Ts) - q * Block) : Ts[q * Block + j] \in Types
        <3>1. \A j \in 1..(Len(Ts) - q * Block) : q * Block + j \in 1..Len(Ts)
            BY <1>4, <1>5
        <3> QED BY <3>1
    <2> QED BY <1>5, <2>1 DEF Behind
<1>7. i + 1 \in 1..(Len(Ts) - q * Block) /\ q * Block + (i + 1) = n + 1
    BY <1>4, <1>5
<1> QED BY <1>2, <1>3, <1>5, <1>6, <1>7

-----------------------------------------------------------------------------
(* index_type *)

LEMMA IndexType ==
    ASSUME NEW max \in Nat, \E k \in DOMAIN Limits : max <= Limits[k]
    PROVE  uint_atleast(max) \in Nat /\ max <= uint_atleast(max)
<1> DEFINE Fits(k) == max <= Limits[k] /\ \A j \in 1..(k - 1) : max > Limits[j]
           S == {k \in DOMAIN Limits : max <= Limits[k]}
<1>1. DOMAIN Limits = 1..Len(Limits) /\ Len(Limits) \in Nat /\ \A k \in DOMAIN Limits : Limits[k] \in Nat
    BY LimitsAssumption
<1>2. PICK k \in S : \A j \in S : k <= j
    <2>1. S \in SUBSET Nat /\ S # {}
        BY <1>1
    <2> QED BY <2>1, Least
<1>3. ASSUME NEW j \in 1..(k - 1)
      PROVE  max > Limits[j]
    <2>1. j \in DOMAIN Limits /\ j < k
        BY <1>1, <1>2
    <2>2. j \notin S
        BY <1>1, <1>2, <2>1
    <2> QED BY <1>1, <2>1, <2>2
<1>4. \E h \in DOMAIN Limits : Fits(h)
    BY <1>2, <1>3
<1>5. uint_atleast(max) = Limits[CHOOSE h \in DOMAIN Limits : Fits(h)]
    BY DEF uint_atleast
<1> DEFINE h == CHOOSE h \in DOMAIN Limits : Fits(h)
<1>6. h \in DOMAIN Limits /\ Fits(h)
    BY <1>4
<1> HIDE DEF h
<1> QED BY <1>1, <1>5, <1>6 DEF h

-----------------------------------------------------------------------------
(* Induction over the steps *)

Indexes == 0..(Len(types) - 1)
Contents == {None} \cup (Indexes \X Payloads)

\* A value was built by one constructor, and m_idx was set by the same call.
TypeInvariant ==
    /\ types \in TypeListsUsed
    /\ draft \in BOOLEAN /\ leaked \in BOOLEAN /\ misread \in BOOLEAN /\ abused \in BOOLEAN
    /\ live \subseteq Variants
    /\ m_idx \in [Variants -> Indexes]
    /\ m_data \in [Variants -> Contents]

AllAlive == \A v \in live : Alive(v)

IInv ==
    /\ TypeInvariant
    /\ IndexNeverWrong
    /\ abused \/ (~misread /\ AllAlive)

LEMMA ListFacts ==
    ASSUME types \in TypeListsUsed
    PROVE  /\ types \in Seq(Types) /\ Len(types) \in Nat /\ Len(types) > 0
           /\ 0 \in Indexes
           /\ \A i \in Indexes : types[i + 1] \in ListedTypes
<1>1. types \in Seq(Types) /\ types # <<>>
    BY VariantAssumption
<1>2. Len(types) \in Nat /\ Len(types) > 0 /\ DOMAIN types = 1..Len(types)
    BY <1>1
<1> QED BY <1>1, <1>2 DEF Indexes, ListedTypes

\* The index type is wide enough for every index of the list.
LEMMA StoredAsIs ==
    ASSUME types \in TypeListsUsed, NEW i \in Indexes
    PROVE  StoredIndex(i) = i
<1>1. Len(types) \in Nat /\ i \in Nat /\ i < Len(types)
    BY ListFacts DEF Indexes
<1>2. \E k \in DOMAIN Limits : Len(types) <= Limits[k]
    BY VariantAssumption
<1>3. uint_atleast(Len(types)) \in Nat /\ Len(types) <= uint_atleast(Len(types))
    BY <1>1, <1>2, IndexType
<1> DEFINE m == uint_atleast(Len(types))
<1>4. m \in Nat /\ i \in Nat /\ i < m + 1
    BY <1>1, <1>3
<1> HIDE DEF m
<1>5. i % (m + 1) = i
    BY <1>4
<1> QED BY <1>5 DEF StoredIndex, m

LEMMA ListedIndex ==
    ASSUME types \in TypeListsUsed, NEW T \in ListedTypes
    PROVE  /\ find_index_of(T, types) \in Indexes
           /\ types[find_index_of(T, types) + 1] = T
<1>1. types \in Seq(Types) /\ Len(types) \in Nat /\ DOMAIN types = 1..Len(types)
    BY ListFacts
<1>2. PICK i \in 1..Len(types) : types[i] = T
    BY <1>1 DEF ListedTypes
<1>3. find_index_of(T, types) \in 0..Len(types) /\ find_index_of(T, types) < i
    BY <1>1, <1>2, FindIndex
<1>4. find_index_of(T, types) < Len(types)
    BY <1>1, <1>2, <1>3
<1>5. find_index_of(T, types) \in Indexes
    BY <1>1, <1>3, <1>4 DEF Indexes
<1> QED BY <1>1, <1>4, <1>5, FindIndex

\* What a constructor leaves in a variant v, whatever was there before.
LEMMA Built ==
    ASSUME TypeInvariant, NEW v \in Variants, NEW i \in Indexes, NEW p \in Payloads,
           m_data' = [m_data EXCEPT ![v] = Value(i, p)],
           m_idx' = [m_idx EXCEPT ![v] = StoredIndex(i)]
    PROVE  /\ m_data' \in [Variants -> Contents] /\ m_idx' \in [Variants -> Indexes]
           /\ Alive(v)'
           /\ \A w \in Variants : w # v => m_data'[w] = m_data[w] /\ m_idx'[w] = m_idx[w]
<1>1. StoredIndex(i) = i
    BY StoredAsIs DEF TypeInvariant
<1>2. Value(i, p) \in Contents /\ Value(i, p) # None /\ Value(i, p)[1] = i
    BY DEF Value, Contents, None
<1>3. m_data'[v] = Value(i, p) /\ m_idx'[v] = i
    BY <1>1 DEF TypeInvariant
<1>4. Alive(v)'
    BY <1>2, <1>3 DEF Alive, None
<1>5. m_data' \in [Variants -> Contents] /\ m_idx' \in [Variants -> Indexes]
    BY <1>1, <1>2 DEF TypeInvariant
<1> QED BY <1>4, <1>5 DEF TypeInvariant

\* What the copy of a variant w leaves in a variant v.
LEMMA Copied ==
    ASSUME TypeInvariant, NEW v \in Variants, NEW w \in Variants,
           m_data' = [m_data EXCEPT ![v] = m_data[w]],
           m_idx' = [m_idx EXCEPT ![v] = m_idx[w]]
    PROVE  /\ m_data' \in [Variants -> Contents] /\ m_idx' \in [Variants -> Indexes]
           /\ m_data'[v] = m_data[w] /\ m_idx'[v] = m_idx[w]
           /\ \A x \in Variants : x # v => m_data'[x] = m_data[x] /\ m_idx'[x] = m_idx[x]
BY DEF TypeInvariant

LEMMA SameAlive ==
    ASSUME NEW w, m_data'[w] = m_data[w], m_idx'[w] = m_idx[w]
    PROVE  Alive(w)' <=> Alive(w)
BY DEF Alive

LEMMA Frame ==
    ASSUME types' = types
    PROVE  Indexes' = Indexes /\ Contents' = Contents
BY DEF Indexes, Contents

\* Where neither the draft misses nor something is amiss already, ~variant() destroys
\* what is there.
LEMMA DestroysIt ==
    ASSUME NEW v, Alive(v), ~DraftMisses(v)
    PROVE  DestroysAlive(v)
BY DEF Alive, DraftMisses, DestroysAlive, ToDestroy, DraftDestroys

\* The same of the p of v.swap(w).
LEMMA PDestroyed ==
    ASSUME NEW v, NEW w, Alive(v), ~DraftMissesP(v, w)
    PROVE  ~MissesP(v, w)
BY DestroysIt DEF DraftMissesP, MissesP

LEMMA InitIInv == Init => IInv
<1> SUFFICES ASSUME Init PROVE IInv
    OBVIOUS
<1>1. 0 \in Indexes
    BY ListFacts DEF Init
<1>2. TypeInvariant
    BY <1>1 DEF Init, TypeInvariant, Contents
<1> QED BY <1>2 DEF Init, IInv, IndexNeverWrong, AllAlive

LEMMA ConstructStep ==
    ASSUME IInv, NEW v \in Variants, NEW i \in Indexes, NEW p \in Payloads, Construct(v, i, p)
    PROVE  IInv'
<1>1. /\ m_data' \in [Variants -> Contents] /\ m_idx' \in [Variants -> Indexes]
      /\ Alive(v)'
      /\ \A w \in Variants : w # v => m_data'[w] = m_data[w] /\ m_idx'[w] = m_idx[w]
    BY Built DEF IInv, Construct
<1>2. TypeInvariant'
    <2>1. types' = types
        BY DEF Construct
    <2> QED BY <1>1, <2>1, Frame DEF IInv, TypeInvariant, Construct
<1>3. \A w \in live' : w # v => w \in live /\ w \in Variants
    BY DEF Construct, IInv, TypeInvariant
<1>4. IndexNeverWrong'
    BY <1>1, <1>3, SameAlive DEF IInv, IndexNeverWrong
<1>5. AllAlive => AllAlive'
    BY <1>1, <1>3, SameAlive DEF AllAlive
<1>6. abused' = abused /\ misread' = misread
    BY DEF Construct
<1> QED BY <1>2, <1>4, <1>5, <1>6 DEF IInv

LEMMA CopyConstructStep ==
    ASSUME IInv, NEW v \in Variants, NEW w \in Variants, CopyConstruct(v, w)
    PROVE  IInv'
<1>1. /\ m_data' \in [Variants -> Contents] /\ m_idx' \in [Variants -> Indexes]
      /\ m_data'[v] = m_data[w] /\ m_idx'[v] = m_idx[w]
      /\ \A x \in Variants : x # v => m_data'[x] = m_data[x] /\ m_idx'[x] = m_idx[x]
    BY Copied DEF IInv, CopyConstruct
<1>2. TypeInvariant'
    <2>1. types' = types /\ misread' \in BOOLEAN
        BY DEF CopyConstruct
    <2> QED BY <1>1, <2>1, Frame DEF IInv, TypeInvariant, CopyConstruct
<1>3. \A x \in live' : x # v => x \in live /\ x \in Variants
    BY DEF CopyConstruct, IInv, TypeInvariant
<1>4. Alive(v)' <=> Alive(w)
    BY <1>1 DEF Alive
<1>5. w \in live
    BY DEF CopyConstruct
<1>6. IndexNeverWrong'
    BY <1>1, <1>3, <1>4, <1>5, SameAlive DEF IInv, IndexNeverWrong
<1>7. AllAlive => AllAlive' /\ misread' = misread
    BY <1>1, <1>3, <1>4, <1>5, SameAlive DEF AllAlive, CopyConstruct, IInv, TypeInvariant
<1>8. abused' = abused
    BY DEF CopyConstruct
<1> QED BY <1>2, <1>6, <1>7, <1>8 DEF IInv

LEMMA DestroyStep ==
    ASSUME IInv, NEW v \in Variants, Destroy(v)
    PROVE  IInv'
<1>1. TypeInvariant'
    <2>1. types' = types /\ leaked' \in BOOLEAN /\ misread' \in BOOLEAN /\ abused' \in BOOLEAN
        BY DEF Destroy
    <2>2. m_data' \in [Variants -> Contents]
        BY DEF Destroy, IInv, TypeInvariant, Contents
    <2> QED BY <2>1, <2>2, Frame DEF IInv, TypeInvariant, Destroy
<1>2. \A x \in live' : x \in live /\ m_data'[x] = m_data[x] /\ m_idx'[x] = m_idx[x]
    BY DEF Destroy, IInv, TypeInvariant
<1>3. IndexNeverWrong'
    BY <1>2, SameAlive DEF IInv, IndexNeverWrong
<1>4. AllAlive => AllAlive' /\ Alive(v)
    BY <1>2, SameAlive DEF AllAlive, Destroy
<1>5. abused' \/ (~abused /\ ~DraftMisses(v))
    BY DEF Destroy, IInv, TypeInvariant
<1>6. ~abused /\ ~DraftMisses(v) /\ Alive(v) => misread' = misread
    BY DestroysIt DEF Destroy, IInv, TypeInvariant
<1> QED BY <1>1, <1>3, <1>4, <1>5, <1>6 DEF IInv

LEMMA swapStep ==
    ASSUME IInv, NEW v \in Variants, NEW w \in Variants, swap(v, w)
    PROVE  IInv'
<1>1. /\ m_data' \in [Variants -> Contents] /\ m_idx' \in [Variants -> Indexes]
      /\ m_data'[v] = m_data[w] /\ m_idx'[v] = m_idx[w]
      /\ m_data'[w] = m_data[v] /\ m_idx'[w] = m_idx[v]
      /\ \A x \in Variants \ {v, w} : m_data'[x] = m_data[x] /\ m_idx'[x] = m_idx[x]
    BY DEF swap, IInv, TypeInvariant
<1>2. TypeInvariant'
    <2>1. types' = types /\ leaked' \in BOOLEAN /\ misread' \in BOOLEAN /\ abused' \in BOOLEAN
        BY DEF swap
    <2> QED BY <1>1, <2>1, Frame DEF IInv, TypeInvariant, swap
<1>3. /\ live' = live /\ v \in live /\ w \in live
      /\ \A x \in live : x \in Variants
    BY DEF swap, IInv, TypeInvariant
<1>4. /\ Alive(v)' <=> Alive(w)
      /\ Alive(w)' <=> Alive(v)
    BY <1>1 DEF Alive
<1>5. \A x \in live \ {v, w} : Alive(x)' <=> Alive(x)
    BY <1>1, <1>3, SameAlive
<1>6. IndexNeverWrong'
    BY <1>1, <1>3, <1>4, <1>5 DEF IInv, IndexNeverWrong
<1>7. AllAlive => AllAlive' /\ Alive(v) /\ Alive(w)
    BY <1>3, <1>4, <1>5 DEF AllAlive
<1>8. abused' \/ (~abused /\ ~DraftMissesP(v, w))
    BY DEF swap, IInv, TypeInvariant
<1>9. ~DraftMissesP(v, w) /\ Alive(v) /\ Alive(w) => misread' = misread
    BY PDestroyed DEF swap, IInv, TypeInvariant
<1> QED BY <1>2, <1>6, <1>7, <1>8, <1>9 DEF IInv

LEMMA CopyAssignStep ==
    ASSUME IInv, NEW v \in Variants, NEW w \in Variants, CopyAssign(v, w)
    PROVE  IInv'
<1>1. /\ m_data' \in [Variants -> Contents] /\ m_idx' \in [Variants -> Indexes]
      /\ m_data'[v] = m_data[w] /\ m_idx'[v] = m_idx[w]
      /\ \A x \in Variants : x # v => m_data'[x] = m_data[x] /\ m_idx'[x] = m_idx[x]
    BY Copied DEF IInv, CopyAssign
<1>2. TypeInvariant'
    <2>1. types' = types /\ misread' \in BOOLEAN /\ leaked' \in BOOLEAN /\ abused' \in BOOLEAN
        BY DEF CopyAssign
    <2> QED BY <1>1, <2>1, Frame DEF IInv, TypeInvariant, CopyAssign
<1>3. /\ live' = live /\ v \in live /\ w \in live
      /\ \A x \in live : x \in Variants
    BY DEF CopyAssign, IInv, TypeInvariant
<1>4. Alive(v)' <=> Alive(w)
    BY <1>1 DEF Alive
<1>5. \A x \in live \ {v} : Alive(x)' <=> Alive(x)
    BY <1>1, <1>3, SameAlive
<1>6. IndexNeverWrong'
    BY <1>1, <1>3, <1>4, <1>5 DEF IInv, IndexNeverWrong
<1>7. AllAlive => AllAlive' /\ Alive(v) /\ Alive(w)
    BY <1>3, <1>4, <1>5 DEF AllAlive
<1>8. abused' \/ (~abused /\ ~DraftMissesP(w, v) /\ ~DraftMisses(v))
    BY DEF CopyAssign, IInv, TypeInvariant
<1>9. ~DraftMissesP(w, v) /\ ~DraftMisses(v) /\ Alive(v) /\ Alive(w) => misread' = misread
    BY DestroysIt, PDestroyed DEF CopyAssign, IInv, TypeInvariant
<1> QED BY <1>2, <1>6, <1>7, <1>8, <1>9 DEF IInv

LEMMA AssignValueStep ==
    ASSUME IInv, NEW v \in Variants, NEW T \in ListedTypes, NEW p \in Payloads, AssignValue(v, T, p)
    PROVE  IInv'
<1> DEFINE i == find_index_of(T, types)
<1>1. i \in Indexes
    BY ListedIndex DEF IInv, TypeInvariant
<1> HIDE DEF i
<1>2. m_data' = [m_data EXCEPT ![v] = Value(i, p)] /\ m_idx' = [m_idx EXCEPT ![v] = StoredIndex(i)]
    BY DEF AssignValue, i
<1>3. /\ m_data' \in [Variants -> Contents] /\ m_idx' \in [Variants -> Indexes]
      /\ Alive(v)'
      /\ \A w \in Variants : w # v => m_data'[w] = m_data[w] /\ m_idx'[w] = m_idx[w]
    BY <1>1, <1>2, Built DEF IInv
<1>4. TypeInvariant'
    <2>1. types' = types /\ misread' \in BOOLEAN /\ leaked' \in BOOLEAN /\ abused' \in BOOLEAN
        BY DEF AssignValue
    <2> QED BY <1>3, <2>1, Frame DEF IInv, TypeInvariant, AssignValue
<1>5. live' = live /\ v \in live /\ \A x \in live : x \in Variants
    BY DEF AssignValue, IInv, TypeInvariant
<1>6. IndexNeverWrong'
    BY <1>3, <1>5, SameAlive DEF IInv, IndexNeverWrong
<1>7. AllAlive => AllAlive' /\ Alive(v)
    BY <1>3, <1>5, SameAlive DEF AllAlive
<1>8. abused' \/ (~abused /\ ~DraftMisses(v))
    BY DEF AssignValue, IInv, TypeInvariant
<1>9. ~DraftMisses(v) /\ Alive(v) => misread' = misread
    BY DestroysIt DEF AssignValue, IInv, TypeInvariant
<1> QED BY <1>4, <1>6, <1>7, <1>8, <1>9 DEF IInv

LEMMA AssignOwnValueStep ==
    ASSUME IInv, NEW v \in Variants, NEW p \in Payloads, AssignOwnValue(v, p)
    PROVE  IInv'
<1> DEFINE i == find_index_of(types[m_idx[v] + 1], types)
<1>1. i \in Indexes
    <2>1. types[m_idx[v] + 1] \in ListedTypes
        BY ListFacts DEF IInv, TypeInvariant
    <2> QED BY <2>1, ListedIndex DEF IInv, TypeInvariant
<1> HIDE DEF i
<1>2. m_data' = [m_data EXCEPT ![v] = Value(i, p)] /\ m_idx' = [m_idx EXCEPT ![v] = StoredIndex(i)]
    BY DEF AssignOwnValue, i
<1>3. /\ m_data' \in [Variants -> Contents] /\ m_idx' \in [Variants -> Indexes]
      /\ Alive(v)'
      /\ \A w \in Variants : w # v => m_data'[w] = m_data[w] /\ m_idx'[w] = m_idx[w]
    BY <1>1, <1>2, Built DEF IInv
<1>4. TypeInvariant'
    <2>1. types' = types /\ leaked' \in BOOLEAN /\ misread' \in BOOLEAN /\ abused' \in BOOLEAN
        BY DEF AssignOwnValue
    <2> QED BY <1>3, <2>1, Frame DEF IInv, TypeInvariant, AssignOwnValue
<1>5. live' = live /\ \A x \in live : x \in Variants
    BY DEF AssignOwnValue, IInv, TypeInvariant
<1>6. IndexNeverWrong'
    BY <1>3, <1>5, SameAlive DEF IInv, IndexNeverWrong
<1> QED BY <1>4, <1>6 DEF IInv, AssignOwnValue

LEMMA AssignValueThrowsStep ==
    ASSUME IInv, NEW v \in Variants, AssignValueThrows(v)
    PROVE  IInv'
<1>1. /\ m_data' \in [Variants -> Contents] /\ m_idx'[v] = m_idx[v]
      /\ m_data'[v] = None \/ m_data'[v] = m_data[v]
    BY DEF AssignValueThrows, AfterDestruction, IInv, TypeInvariant, Contents
<1>2. TypeInvariant'
    <2>1. types' = types /\ misread' \in BOOLEAN /\ abused' \in BOOLEAN
        BY DEF AssignValueThrows
    <2> QED BY <1>1, <2>1, Frame DEF IInv, TypeInvariant, AssignValueThrows
<1>3. \A x \in live' : x \in live /\ (x # v => m_data'[x] = m_data[x] /\ m_idx'[x] = m_idx[x])
    BY DEF AssignValueThrows, IInv, TypeInvariant
<1>4. IndexNeverWrong'
    BY <1>1, <1>3, SameAlive DEF IInv, IndexNeverWrong
<1> QED BY <1>2, <1>4 DEF IInv, AssignValueThrows

LEMMA GetStep ==
    ASSUME IInv, NEW v \in Variants, NEW T, Get(v, T)
    PROVE  IInv'
<1>1. TypeInvariant'
    <2>1. types' = types /\ misread' \in BOOLEAN
        BY DEF Get
    <2> QED BY <2>1, Frame DEF IInv, TypeInvariant, Get
<1>2. \A x : Alive(x)' <=> Alive(x)
    BY DEF Get, Alive
<1>3. IndexNeverWrong'
    BY <1>2 DEF IInv, IndexNeverWrong, Get
<1>4. AllAlive => AllAlive' /\ Alive(v)
    BY <1>2 DEF AllAlive, Get
<1>5. Alive(v) => misread' = misread
    BY DEF Get, IInv, TypeInvariant
<1>6. abused' = abused
    BY DEF Get
<1> QED BY <1>1, <1>3, <1>4, <1>5, <1>6 DEF IInv

LEMMA NextStep ==
    ASSUME IInv, Next
    PROVE  IInv'
<1>1. PICK v \in Variants :
        \/ ConstructDefault(v) \/ Destroy(v) \/ AssignValueThrows(v)
        \/ \E p \in Payloads : AssignOwnValue(v, p)
        \/ \E T \in ListedTypes, p \in Payloads : ConstructFrom(v, T, p) \/ AssignValue(v, T, p)
        \/ \E T \in ListedTypes : Get(v, T)
        \/ \E w \in Variants :
              CopyConstruct(v, w) \/ MoveConstruct(v, w) \/ swap(v, w)
                \/ CopyAssign(v, w) \/ MoveAssign(v, w)
    BY DEF Next
<1>2. CASE ConstructDefault(v)
    <2>1. 0 \in Indexes /\ Zero \in Payloads
        BY ListFacts, VariantAssumption DEF IInv, TypeInvariant
    <2> QED BY <1>2, <2>1, ConstructStep DEF ConstructDefault
<1>3. CASE Destroy(v) \/ AssignValueThrows(v)
    BY <1>3, DestroyStep, AssignValueThrowsStep
<1>4. CASE \E p \in Payloads : AssignOwnValue(v, p)
    BY <1>4, AssignOwnValueStep
<1>5. CASE \E T \in ListedTypes, p \in Payloads : ConstructFrom(v, T, p) \/ AssignValue(v, T, p)
    <2>1. PICK T \in ListedTypes, p \in Payloads : ConstructFrom(v, T, p) \/ AssignValue(v, T, p)
        BY <1>5
    <2>2. CASE ConstructFrom(v, T, p)
        <3>1. find_index_of(T, types) \in Indexes
            BY ListedIndex DEF IInv, TypeInvariant
        <3> QED BY <2>2, <3>1, ConstructStep DEF ConstructFrom
    <2>3. CASE AssignValue(v, T, p)
        BY <2>3, AssignValueStep
    <2> QED BY <2>1, <2>2, <2>3
<1>6. CASE \E T \in ListedTypes : Get(v, T)
    BY <1>6, GetStep
<1>7. CASE \E w \in Variants :
              CopyConstruct(v, w) \/ MoveConstruct(v, w) \/ swap(v, w)
                \/ CopyAssign(v, w) \/ MoveAssign(v, w)
    BY <1>7, CopyConstructStep, swapStep, CopyAssignStep DEF MoveConstruct, MoveAssign
<1> QED BY <1>1, <1>2, <1>3, <1>4, <1>5, <1>6, <1>7

LEMMA StutterStep ==
    ASSUME IInv, UNCHANGED vars
    PROVE  IInv'
<1> USE DEF vars
<1>1. TypeInvariant'
    BY Frame DEF IInv, TypeInvariant
<1>2. \A x : Alive(x)' <=> Alive(x)
    BY DEF Alive
<1>3. IndexNeverWrong'
    BY <1>2 DEF IInv, IndexNeverWrong
<1>4. AllAlive => AllAlive'
    BY <1>2 DEF AllAlive
<1> QED BY <1>1, <1>3, <1>4 DEF IInv

LEMMA Invariance == Spec => []IInv
<1>1. IInv /\ [Next]_vars => IInv'
    BY NextStep, StutterStep
<1> QED BY <1>1, InitIInv, PTL DEF Spec

-----------------------------------------------------------------------------
(* The theorems *)

\* However often a variant is constructed, copied, swapped, assigned and destroyed, by
\* the class or by its draft, and whatever throws: if a variant holds an object, m_idx
\* is the index of that object's alternative.
THEOREM IndexRight == Spec => []IndexNeverWrong
BY Invariance, PTL DEF IInv

\* No call destroys, copies or reads through an alternative that is not the one alive,
\* as long as no constructor threw in v = x, no variant was assigned its own value, and
\* the draft has not destroyed a variant, the temporary of a swap included, that holds
\* another alternative than the first.
THEOREM NeverMisread == Spec => []NothingMisread
<1>1. IInv => NothingMisread
    BY DEF IInv, NothingMisread
<1> QED BY <1>1, Invariance, PTL

\* For every list of types and every size of the block, the recursive, the overloaded
\* and the skipping lookup agree at every index, and the loop of find_index_of inverts
\* them at the first occurrence of each type.
THEOREM LookupsCorrect == Spec => []LookupsAgree
<1>1. ASSUME types \in TypeListsUsed
      PROVE  LookupsAgree
    <2>1. types \in Seq(Types) /\ Len(types) \in Nat
        BY <1>1, ListFacts
    <2>2. ASSUME NEW n \in 0..(Len(types) - 1)
          PROVE  /\ nth_type_v1(n, types) = get_nth_type(n, types)
                 /\ nth_type_v3(n, types) = get_nth_type(n, types)
                 /\ find_index_of(get_nth_type(n, types), types) <= n
        <3>1. /\ nth_type_v1(n, types) = types[n + 1] /\ nth_type_v3(n, types) = types[n + 1]
              /\ get_nth_type(n, types) = types[n + 1]
            BY <2>1, NthType, NthTypeSkipping, NthTypeBlockwise
        <3>2. n + 1 \in 1..Len(types) /\ n \in Nat
            BY <2>1
        <3>3. /\ find_index_of(types[n + 1], types) < n + 1
              /\ find_index_of(types[n + 1], types) \in 0..Len(types)
            BY <2>1, <3>2, FindIndex
        <3> QED BY <2>1, <3>1, <3>2, <3>3
    <2>3. ASSUME NEW T \in ListedTypes
          PROVE  get_nth_type(find_index_of(T, types), types) = T
        BY <1>1, <2>1, ListedIndex, NthType DEF Indexes
    <2> QED BY <2>2, <2>3 DEF LookupsAgree
<1>2. IInv => LookupsAgree
    BY <1>1 DEF IInv, TypeInvariant
<1> QED BY <1>2, Invariance, PTL

\* An object is lost, its destructor never run, only by a swap or an assignment of two
\* variants that hold different alternatives, and by the draft when it destroys another
\* alternative than the one alive.
THEOREM LeaksOnlyByMixing == Spec => OnlyMixingLeaks
<1>1. ASSUME IInv, [Next]_vars, leaked' # leaked
      PROVE  \/ draft /\ misread'
             \/ \E v, w \in live : m_idx[v] # m_idx[w] /\ (swap(v, w) \/ CopyAssign(v, w))
    <2>1. Next
        BY <1>1 DEF vars
    <2>2. PICK v \in Variants :
            \/ ConstructDefault(v) \/ Destroy(v) \/ AssignValueThrows(v)
            \/ \E p \in Payloads : AssignOwnValue(v, p)
            \/ \E T \in ListedTypes, p \in Payloads : ConstructFrom(v, T, p) \/ AssignValue(v, T, p)
            \/ \E T \in ListedTypes : Get(v, T)
            \/ \E w \in Variants :
                  CopyConstruct(v, w) \/ MoveConstruct(v, w) \/ swap(v, w)
                    \/ CopyAssign(v, w) \/ MoveAssign(v, w)
        BY <2>1 DEF Next
    <2>3. leaked \in BOOLEAN
        BY <1>1 DEF IInv, TypeInvariant
    <2>4. ASSUME v \in live, AfterDestruction(v) # None
          PROVE  draft /\ ~DestroysAlive(v)
        <3>1. ~DestroysAlive(v) /\ m_data[v] # None
            BY <2>4 DEF AfterDestruction
        <3>2. Alive(v)
            BY <1>1, <2>4, <3>1 DEF IInv, IndexNeverWrong
        <3> QED BY <3>1, <3>2, DestroysIt DEF DraftMisses
    <2>5. CASE Destroy(v) \/ \E p \in Payloads : AssignOwnValue(v, p)
        BY <1>1, <2>3, <2>4, <2>5 DEF Destroy, AssignOwnValue
    <2>6. CASE \E T \in ListedTypes, p \in Payloads : AssignValue(v, T, p)
        BY <1>1, <2>3, <2>4, <2>6 DEF AssignValue
    <2>7. CASE \E w \in Variants : swap(v, w) \/ CopyAssign(v, w)
        <3>1. PICK w \in Variants : swap(v, w) \/ CopyAssign(v, w)
            BY <2>7
        <3>2. v \in live /\ w \in live
            BY <3>1 DEF swap, CopyAssign
        <3>3. CASE m_idx[v] # m_idx[w]
            BY <3>1, <3>2, <3>3
        <3>4. CASE m_idx[v] = m_idx[w]
            <4>1. CopyAssign(v, w) /\ AfterDestruction(v) # None
                BY <1>1, <2>3, <3>1, <3>4 DEF swap, CopyAssign, OverwrittenBySwap
            <4> QED BY <2>4, <3>2, <4>1 DEF CopyAssign
        <3> QED BY <3>3, <3>4
    <2> QED BY <1>1, <2>2, <2>5, <2>6, <2>7
           DEF ConstructDefault, ConstructFrom, Construct, AssignValueThrows, Get,
               CopyConstruct, MoveConstruct, MoveAssign
<1> QED BY <1>1, Invariance, PTL DEF Spec, OnlyMixingLeaks

-----------------------------------------------------------------------------
(* Visit.  Induction along positions, and what a recursive function over them computes *)

LEMMA Upwards ==
    ASSUME NEW N \in Nat, NEW S, 0 \in S, \A i \in 1..N : i - 1 \in S => i \in S
    PROVE  \A i \in 0..N : i \in S
<1> DEFINE T == {i \in 0..N : i \notin S}
<1>1. ASSUME T # {} PROVE FALSE
    <2>1. T \in SUBSET Nat
        OBVIOUS
    <2>2. PICK i \in T : \A j \in T : i <= j
        BY <1>1, <2>1, Least
    <2>3. i \in 1..N /\ i - 1 \in 0..N /\ ~(i <= i - 1)
        BY <2>2
    <2> QED BY <2>2, <2>3
<1> QED BY <1>1

LEMMA Downwards ==
    ASSUME NEW N \in Nat, NEW S, N \in S, \A i \in 1..N : i \in S => i - 1 \in S
    PROVE  \A i \in 0..N : i \in S
<1> DEFINE T == {i \in 0..N : N - i \in S}
<1>1. 0 \in T
    OBVIOUS
<1>2. ASSUME NEW i \in 1..N, i - 1 \in T PROVE i \in T
    <2>1. N - (i - 1) \in 1..N /\ (N - (i - 1)) - 1 = N - i
        OBVIOUS
    <2>2. N - (i - 1) \in S
        BY <1>2
    <2> QED BY <2>1, <2>2
<1> HIDE DEF T
<1>3. \A i \in 0..N : i \in T
    BY <1>1, <1>2, Upwards
<1>4. ASSUME NEW i \in 0..N PROVE i \in S
    <2>1. N - i \in 0..N /\ N - (N - i) = i
        OBVIOUS
    <2> QED BY <1>3, <2>1 DEF T
<1> QED BY <1>4

\* f begins with e and goes on by the steps in g.
Runs(f, V, e, g, n) == f \in [0..n -> V] /\ f[0] = e /\ \A i \in 1..n : f[i] = g[i][f[i - 1]]

LEMMA RunExists ==
    ASSUME NEW N \in Nat, NEW V, NEW e \in V, NEW g, \A i \in 1..N : g[i] \in [V -> V]
    PROVE  \E f : Runs(f, V, e, g, N)
<1> DEFINE S == {n \in 0..N : \E f : Runs(f, V, e, g, n)}
<1>1. 0 \in S
    <2>1. Runs([i \in 0..0 |-> e], V, e, g, 0)
        BY DEF Runs
    <2> QED BY <2>1
<1>2. ASSUME NEW n \in 1..N, n - 1 \in S PROVE n \in S
    <2>1. PICK f : Runs(f, V, e, g, n - 1)
        BY <1>2
    <2> DEFINE x == g[n][f[n - 1]]
               h == [i \in 0..n |-> IF i = n THEN x ELSE f[i]]
    <2>2. f \in [0..(n - 1) -> V] /\ f[0] = e /\ \A i \in 1..(n - 1) : f[i] = g[i][f[i - 1]]
        BY <2>1 DEF Runs
    <2>3. x \in V
        <3>1. n - 1 \in 0..(n - 1)
            OBVIOUS
        <3> QED BY <2>2, <3>1
    <2>4. \A i \in 0..(n - 1) : h[i] = f[i]
        OBVIOUS
    <2>5. h[n] = x /\ n - 1 \in 0..(n - 1) /\ 0 \in 0..(n - 1)
        OBVIOUS
    <2>6. h \in [0..n -> V]
        <3>1. \A i \in 0..n : i = n \/ i \in 0..(n - 1)
            OBVIOUS
        <3> QED BY <2>2, <2>3, <3>1
    <2> HIDE DEF h
    <2>7. ASSUME NEW i \in 1..n PROVE h[i] = g[i][h[i - 1]]
        <3>1. CASE i = n
            BY <2>4, <2>5, <3>1
        <3>2. CASE i # n
            <4>1. i \in 1..(n - 1) /\ i \in 0..(n - 1) /\ i - 1 \in 0..(n - 1)
                BY <3>2
            <4> QED BY <2>2, <2>4, <4>1
        <3> QED BY <3>1, <3>2
    <2>8. Runs(h, V, e, g, n)
        BY <2>2, <2>4, <2>5, <2>6, <2>7 DEF Runs
    <2> QED BY <2>8
<1> HIDE DEF S
<1>3. \A n \in 0..N : n \in S
    BY <1>1, <1>2, Upwards
<1> QED BY <1>3 DEF S

-----------------------------------------------------------------------------
(* Division *)

LEMMA TimesMore ==
    ASSUME NEW a \in Nat, NEW b \in Nat, a < b, NEW c \in Nat
    PROVE  c * a + c <= c * b
<1> DEFINE k == b - a - 1
<1>1. k \in Nat /\ b = a + 1 + k
    OBVIOUS
<1> HIDE DEF k
<1>2. c * b = c * a + c + c * k /\ c * k \in Nat /\ c * a \in Nat
    BY <1>1
<1> QED BY <1>2

LEMMA Divided ==
    ASSUME NEW a \in Nat, NEW c \in Nat \ {0}
    PROVE  /\ a \div c \in Nat /\ a % c \in Nat /\ a % c < c
           /\ a = c * (a \div c) + (a % c)
OBVIOUS

LEMMA DividedOnce ==
    ASSUME NEW c \in Nat \ {0}, NEW q \in Nat, NEW r \in Nat, r < c
    PROVE  (c * q + r) \div c = q /\ (c * q + r) % c = r
<1> DEFINE a == c * q + r
           p == a \div c
           s == a % c
<1>1. a \in Nat /\ c * q \in Nat
    OBVIOUS
<1>2. p \in Nat /\ s \in Nat /\ s < c /\ a = c * p + s /\ c * p \in Nat
    BY <1>1, Divided
<1>3. c * q + r = c * p + s
    BY <1>2
<1> HIDE DEF a, p, s
<1>4. ~(p < q)
    <2>1. ASSUME p < q PROVE FALSE
        <3>1. c * p + c <= c * q
            BY <1>2, <2>1, TimesMore
        <3> QED BY <1>1, <1>2, <1>3, <3>1
    <2> QED BY <2>1
<1>5. ~(q < p)
    <2>1. ASSUME q < p PROVE FALSE
        <3>1. c * q + c <= c * p
            BY <1>2, <2>1, TimesMore
        <3> QED BY <1>1, <1>2, <1>3, <3>1
    <2> QED BY <2>1
<1>6. p = q
    BY <1>2, <1>4, <1>5
<1>7. s = r
    BY <1>1, <1>2, <1>3, <1>6
<1> QED BY <1>6, <1>7 DEF a, p, s

-----------------------------------------------------------------------------
(* The coefficients *)

Shape(d) == d \in Seq(Nat \ {0}) /\ d # <<>>

\* A coefficient is the number of combinations of the arguments after its own.
Weights(d, c) ==
    /\ c \in [1..Len(d) -> Nat \ {0}] /\ c[Len(d)] = 1
    /\ \A j \in 1..(Len(d) - 1) : c[j] = d[j + 1] * c[j + 1]

LEMMA ShapeFacts ==
    ASSUME NEW d, Shape(d)
    PROVE  /\ Len(d) \in Nat \ {0} /\ Len(d) \in 1..Len(d) /\ 1 \in 1..Len(d)
           /\ DOMAIN d = 1..Len(d) /\ \A i \in 1..Len(d) : d[i] \in Nat \ {0}
BY DEF Shape

LEMMA Product == \A a, b \in Nat \ {0} : a * b \in Nat \ {0}
<1> SUFFICES ASSUME NEW a \in Nat \ {0}, NEW b \in Nat \ {0}
             PROVE  a * b \in Nat \ {0}
    OBVIOUS
<1> DEFINE k == b - 1
<1>1. k \in Nat /\ b = k + 1
    OBVIOUS
<1> HIDE DEF k
<1>2. a * b = a * k + a /\ a * k \in Nat
    BY <1>1
<1> QED BY <1>2

\* The function that build_coeffs_array computes
CoeffSteps(after, d) ==
    after = [i \in 0..(Len(d) - 1) |->
               IF i = 0 THEN [j \in DOMAIN d |-> 1]
               ELSE [j \in DOMAIN d |->
                       IF j <= i THEN after[i - 1][j] * d[i + 1] ELSE after[i - 1][j]]]

LEMMA CoeffStepsExist ==
    ASSUME NEW d, Shape(d)
    PROVE  \E after : CoeffSteps(after, d)
<1> DEFINE N == Len(d)
           V == [1..N -> Nat \ {0}]
           e == [j \in 1..N |-> 1]
           Step(i, w) == [j \in 1..N |-> IF j <= i THEN w[j] * d[i + 1] ELSE w[j]]
           g == [i \in 1..(N - 1) |-> [w \in V |-> Step(i, w)]]
<1>1. N \in Nat \ {0} /\ DOMAIN d = 1..N /\ \A i \in 1..N : d[i] \in Nat \ {0}
    BY ShapeFacts
<1>2. e \in V
    OBVIOUS
<1>3. ASSUME NEW i \in 1..(N - 1), NEW w \in V
      PROVE  Step(i, w) \in V
    <2>1. i + 1 \in 1..N
        BY <1>1
    <2>2. \A j \in 1..N : w[j] * d[i + 1] \in Nat \ {0}
        BY <1>1, <2>1, Product
    <2> QED BY <2>2
<1> HIDE DEF N, V, e, Step
<1>4. \A i \in 1..(N - 1) : g[i] \in [V -> V]
    BY <1>3
<1>5. N - 1 \in Nat
    BY <1>1
<1>6. PICK f : Runs(f, V, e, g, N - 1)
    <2> HIDE DEF g
    <2> QED BY <1>2, <1>4, <1>5, RunExists
<1>7. f \in [0..(N - 1) -> V] /\ f[0] = e /\ \A i \in 1..(N - 1) : f[i] = Step(i, f[i - 1])
    <2>1. f \in [0..(N - 1) -> V] /\ f[0] = e /\ \A i \in 1..(N - 1) : f[i] = g[i][f[i - 1]]
        BY <1>6 DEF Runs
    <2>2. \A i \in 1..(N - 1) : i - 1 \in 0..(N - 1)
        BY <1>5
    <2> QED BY <2>1, <2>2
<1>8. f = [i \in 0..(N - 1) |-> IF i = 0 THEN e ELSE Step(i, f[i - 1])]
    <2>1. \A i \in 0..(N - 1) : i = 0 \/ i \in 1..(N - 1)
        BY <1>5
    <2> QED BY <1>7, <2>1
<1>9. CoeffSteps(f, d)
    <2>1. DOMAIN d = 1..Len(d)
        BY <1>1 DEF N
    <2> QED BY <1>8, <2>1, Zenon DEF CoeffSteps, N, e, Step
<1> QED BY <1>9

LEMMA Coefficients ==
    ASSUME NEW d, Shape(d)
    PROVE  Weights(d, build_coeffs_array(d))
<1> DEFINE N == Len(d)
           after == CHOOSE after : CoeffSteps(after, d)
<1>1. N \in Nat \ {0} /\ DOMAIN d = 1..N /\ \A i \in 1..N : d[i] \in Nat \ {0}
    BY ShapeFacts
<1>2. CoeffSteps(after, d)
    BY CoeffStepsExist
<1>3. build_coeffs_array(d) = after[N - 1]
    BY DEF build_coeffs_array, CoeffSteps
<1> HIDE DEF after, N
<1>4. after[0] = [j \in 1..N |-> 1]
    BY <1>1, <1>2 DEF CoeffSteps, N
<1>5. ASSUME NEW i \in 1..(N - 1)
      PROVE  after[i] = [j \in 1..N |-> IF j <= i THEN after[i - 1][j] * d[i + 1] ELSE after[i - 1][j]]
    <2>1. i \in 0..(Len(d) - 1) /\ i # 0
        BY <1>1 DEF N
    <2> QED BY <1>1, <1>2, <2>1 DEF CoeffSteps
\* After i steps the first i + 1 coefficients are those of the first i + 1 arguments.
<1> DEFINE Good(i) == /\ after[i] \in [1..N -> Nat \ {0}]
                      /\ \A j \in 1..N : i < j => after[i][j] = 1
                      /\ \A j \in 1..i : after[i][j] = d[j + 1] * after[i][j + 1]
           S == {i \in 0..(N - 1) : Good(i)}
<1>6. Good(0)
    BY <1>1, <1>4
<1>7. ASSUME NEW i \in 1..(N - 1), Good(i - 1)
      PROVE  Good(i)
    <2> DEFINE w == after[i - 1]
               v == after[i]
               m == d[i + 1]
    <2>1. i \in Nat /\ i \in 1..N /\ i + 1 \in 1..N /\ m \in Nat \ {0}
        BY <1>1
    <2>2. v = [j \in 1..N |-> IF j <= i THEN w[j] * m ELSE w[j]]
        BY <1>5
    <2>3. /\ w \in [1..N -> Nat \ {0}] /\ (\A j \in 1..N : i - 1 < j => w[j] = 1)
          /\ \A j \in 1..(i - 1) : w[j] = d[j + 1] * w[j + 1]
        BY <1>7
    <2> HIDE DEF w, v, m
    <2>4. \A j \in 1..N : w[j] * m \in Nat \ {0}
        BY <2>1, <2>3, Product
    <2>5. v \in [1..N -> Nat \ {0}]
        BY <2>2, <2>3, <2>4
    <2>6. \A j \in 1..N : i < j => v[j] = 1
        BY <2>1, <2>2, <2>3
    <2>7. ASSUME NEW j \in 1..i
          PROVE  v[j] = d[j + 1] * v[j + 1]
        <3>1. CASE j = i
            <4>1. v[i] = w[i] * m /\ w[i] = 1 /\ v[i + 1] = 1
                BY <2>1, <2>2, <2>3
            <4> QED BY <2>1, <3>1, <4>1 DEF m
        <3>2. CASE j # i
            <4>1. j \in 1..(i - 1) /\ j \in 1..N /\ j + 1 \in 1..N /\ j <= i /\ j + 1 <= i
                BY <1>1, <2>1, <3>2
            <4>2. v[j] = w[j] * m /\ v[j + 1] = w[j + 1] * m /\ w[j] = d[j + 1] * w[j + 1]
                BY <2>2, <2>3, <4>1
            <4>3. \A a, b, k \in Nat : (a * b) * k = a * (b * k)
                OBVIOUS
            <4>4. d[j + 1] \in Nat /\ w[j + 1] \in Nat /\ m \in Nat
                BY <1>1, <2>1, <2>3, <4>1
            <4> QED BY <4>2, <4>3, <4>4
        <3> QED BY <3>1, <3>2
    <2> QED BY <2>5, <2>6, <2>7 DEF v
<1>8. \A i \in 0..(N - 1) : i \in S
    <2>1. 0 \in S /\ N - 1 \in Nat
        BY <1>1, <1>6
    <2>2. \A i \in 1..(N - 1) : i - 1 \in S => i \in S
        <3>1. \A i \in 1..(N - 1) : i \in 0..(N - 1)
            OBVIOUS
        <3> HIDE DEF Good
        <3> QED BY <1>7, <3>1
    <2> HIDE DEF S
    <2> QED BY <2>1, <2>2, Upwards
<1>9. Good(N - 1)
    <2>1. N - 1 \in 0..(N - 1)
        BY <1>1
    <2> HIDE DEF Good
    <2> QED BY <1>8, <2>1
<1>10. N \in 1..N /\ N - 1 < N
    BY <1>1
<1> QED BY <1>3, <1>9, <1>10 DEF Weights, N

\* The size of the table: the combinations of all arguments
LEMMA Size ==
    ASSUME NEW d, Shape(d), NEW c, Weights(d, c)
    PROVE  vtable_size(d) = d[1] * c[1]
<1> DEFINE N == Len(d)
           Is(f) == f = [i \in 0..N |-> IF i = 0 THEN 1 ELSE f[i - 1] * d[i]]
           product == CHOOSE f : Is(f)
           g == [i \in 1..N |-> [x \in Nat |-> x * d[i]]]
<1>1. N \in Nat \ {0} /\ 1 \in 1..N /\ \A i \in 1..N : d[i] \in Nat /\ d[i] # 0
    BY ShapeFacts
<1>2. c \in [1..N -> Nat \ {0}] /\ c[N] = 1 /\ \A j \in 1..(N - 1) : c[j] = d[j + 1] * c[j + 1]
    BY DEF Weights
<1>3. vtable_size(d) = product[N]
    BY DEF vtable_size
<1> HIDE DEF N
<1>4. \E f : Is(f)
    <2>1. \A i \in 1..N : g[i] \in [Nat -> Nat]
        BY <1>1
    <2>2. PICK f : Runs(f, Nat, 1, g, N)
        <3> HIDE DEF g
        <3> QED BY <1>1, <2>1, RunExists
    <2>3. f \in [0..N -> Nat] /\ f[0] = 1 /\ \A i \in 1..N : f[i] = f[i - 1] * d[i]
        <3>1. \A i \in 1..N : i - 1 \in 0..N
            BY <1>1
        <3> QED BY <2>2, <3>1 DEF Runs
    <2>4. \A i \in 0..N : i = 0 \/ i \in 1..N
        BY <1>1
    <2>5. Is(f)
        BY <2>3, <2>4
    <2> QED BY <2>5
<1>5. Is(product)
    BY <1>4
<1> HIDE DEF product
<1>6. product[0] = 1 /\ \A i \in 1..N : product[i] = product[i - 1] * d[i]
    BY <1>1, <1>5
<1> DEFINE S == {i \in 0..(N - 1) : product[i + 1] \in Nat /\ product[i + 1] * c[i + 1] = d[1] * c[1]}
<1>7. \A i \in 0..(N - 1) : i \in S
    <2>1. 0 \in S
        <3>1. product[1] = 1 * d[1]
            BY <1>1, <1>6
        <3> QED BY <1>1, <3>1
    <2>2. ASSUME NEW i \in 1..(N - 1), i - 1 \in S PROVE i \in S
        <3>1. i \in 1..N /\ i + 1 \in 1..N /\ (i - 1) + 1 = i /\ (i + 1) - 1 = i /\ i \in 0..(N - 1)
            BY <1>1
        <3> DEFINE p == product[i]
                   a == d[i + 1]
                   b == c[i + 1]
        <3>2. p \in Nat /\ p * c[i] = d[1] * c[1] /\ c[i] = a * b
            BY <1>2, <2>2, <3>1
        <3>3. product[i + 1] = p * a
            BY <1>6, <3>1
        <3>4. a \in Nat /\ b \in Nat
            BY <1>1, <1>2, <3>1
        <3> HIDE DEF p, a
        <3>5. p * a \in Nat /\ (p * a) * b = p * (a * b)
            BY <3>2, <3>4
        <3> QED BY <3>1, <3>2, <3>3, <3>5
    <2> HIDE DEF S
    <2> QED BY <1>1, <2>1, <2>2, Upwards
<1>8. product[N] \in Nat /\ product[N] * c[N] = d[1] * c[1]
    <2>1. N - 1 \in 0..(N - 1) /\ (N - 1) + 1 = N
        BY <1>1
    <2> QED BY <1>7, <2>1
<1> QED BY <1>2, <1>3, <1>8

-----------------------------------------------------------------------------
(* Numbering and back *)

\* The partial sums of to_index, with the coefficients c, and the remainders of from_index
Sums(sum, d, c, ix) ==
    /\ sum[0] = 0 /\ to_index(d, ix) = sum[Len(d)] /\ \A i \in 0..Len(d) : sum[i] \in Int
    /\ \A i \in 1..Len(d) : sum[i] = sum[i - 1] + c[i] * ix[i]
Remainders(rest, d, c, n) ==
    /\ rest[0] = n /\ from_index(d, n) = [i \in 1..Len(d) |-> rest[i - 1] \div c[i]]
    /\ \A i \in 0..Len(d) : rest[i] \in Nat
    /\ \A i \in 1..Len(d) : rest[i] = rest[i - 1] % c[i]

LEMMA SumsExist ==
    ASSUME NEW d, Shape(d), NEW ix, \A i \in 1..Len(d) : ix[i] \in Int
    PROVE  \E sum : Sums(sum, d, build_coeffs_array(d), ix)
<1> DEFINE N == Len(d)
           c == build_coeffs_array(d)
           Is(f) == f = [i \in 0..N |-> IF i = 0 THEN 0 ELSE f[i - 1] + c[i] * ix[i]]
           sum == CHOOSE f : Is(f)
           g == [i \in 1..N |-> [x \in Int |-> x + c[i] * ix[i]]]
<1>1. N \in Nat /\ \A i \in 1..N : c[i] \in Int /\ c[i] * ix[i] \in Int
    <2>1. Weights(d, c)
        BY Coefficients
    <2>2. N \in Nat /\ \A i \in 1..N : c[i] \in Int
        BY <2>1, ShapeFacts DEF Weights
    <2> QED BY <2>2
<1>2. to_index(d, ix) = sum[N]
    BY DEF to_index
<1> HIDE DEF N, c
<1>3. \E f : Is(f) /\ f \in [0..N -> Int]
    <2>1. \A i \in 1..N : g[i] \in [Int -> Int]
        BY <1>1
    <2>2. PICK f : Runs(f, Int, 0, g, N)
        <3> DEFINE V == Int
        <3>1. 0 \in V /\ \A i \in 1..N : g[i] \in [V -> V]
            BY <2>1
        <3> HIDE DEF g, V
        <3>2. \E f : Runs(f, V, 0, g, N)
            BY <1>1, <3>1, RunExists
        <3> QED BY <3>2 DEF V
    <2>3. f \in [0..N -> Int] /\ f[0] = 0 /\ \A i \in 1..N : f[i] = f[i - 1] + c[i] * ix[i]
        <3>1. \A i \in 1..N : i - 1 \in 0..N
            BY <1>1
        <3> QED BY <2>2, <3>1 DEF Runs
    <2>4. \A i \in 0..N : i = 0 \/ i \in 1..N
        BY <1>1
    <2>5. Is(f)
        BY <2>3, <2>4
    <2> QED BY <2>3, <2>5
<1>4. Is(sum)
    BY <1>3
<1> HIDE DEF sum
<1>5. sum[0] = 0 /\ \A i \in 1..N : sum[i] = sum[i - 1] + c[i] * ix[i]
    BY <1>1, <1>4
<1>6. \A i \in 0..N : sum[i] \in Int
    <2> DEFINE S == {i \in 0..N : sum[i] \in Int}
    <2>1. 0 \in S /\ \A i \in 1..N : i - 1 \in S => i \in S
        BY <1>1, <1>5
    <2> HIDE DEF S
    <2>2. \A i \in 0..N : i \in S
        BY <1>1, <2>1, Upwards
    <2> QED BY <2>2 DEF S
<1> QED BY <1>2, <1>5, <1>6 DEF N, c, Sums

LEMMA RemaindersExist ==
    ASSUME NEW d, Shape(d), NEW n \in Nat
    PROVE  \E rest : Remainders(rest, d, build_coeffs_array(d), n)
<1> DEFINE N == Len(d)
           c == build_coeffs_array(d)
           Is(f) == f = [i \in 0..N |-> IF i = 0 THEN n ELSE f[i - 1] % c[i]]
           rest == CHOOSE f : Is(f)
           g == [i \in 1..N |-> [x \in Nat |-> x % c[i]]]
<1>1. N \in Nat /\ DOMAIN d = 1..N /\ \A i \in 1..N : c[i] \in Nat \ {0}
    <2>1. Weights(d, c)
        BY Coefficients
    <2> QED BY <2>1, ShapeFacts DEF Weights
<1>2. from_index(d, n) = [i \in 1..N |-> rest[i - 1] \div c[i]]
    BY <1>1 DEF from_index
<1> HIDE DEF N, c
<1>3. \E f : Is(f)
    <2>1. \A i \in 1..N : g[i] \in [Nat -> Nat]
        <3>1. \A i \in 1..N, x \in Nat : x % c[i] \in Nat
            BY <1>1, Divided
        <3> QED BY <3>1
    <2>2. PICK f : Runs(f, Nat, n, g, N)
        <3> HIDE DEF g
        <3> QED BY <1>1, <2>1, RunExists
    <2>3. f \in [0..N -> Nat] /\ f[0] = n /\ \A i \in 1..N : f[i] = f[i - 1] % c[i]
        <3>1. \A i \in 1..N : i - 1 \in 0..N
            BY <1>1
        <3> QED BY <2>2, <3>1 DEF Runs
    <2>4. \A i \in 0..N : i = 0 \/ i \in 1..N
        BY <1>1
    <2>5. Is(f)
        BY <2>3, <2>4
    <2> QED BY <2>5
<1>4. Is(rest)
    BY <1>3
<1> HIDE DEF rest
<1>5. rest[0] = n /\ \A i \in 1..N : rest[i] = rest[i - 1] % c[i]
    BY <1>1, <1>4
<1>6. \A i \in 0..N : rest[i] \in Nat
    <2> DEFINE S == {i \in 0..N : rest[i] \in Nat}
    <2>1. ASSUME NEW i \in 1..N, rest[i - 1] \in Nat
          PROVE  rest[i] \in Nat
        BY <1>1, <1>5, <2>1, Divided
    <2>2. 0 \in S /\ \A i \in 1..N : i - 1 \in S => i \in S
        BY <1>1, <1>5, <2>1
    <2> HIDE DEF S
    <2>3. \A i \in 0..N : i \in S
        BY <1>1, <2>2, Upwards
    <2> QED BY <2>3 DEF S
<1> QED BY <1>2, <1>5, <1>6 DEF N, c, Remainders

\* Entry n was generated for the combination whose number is n.
LEMMA BackAndForth ==
    ASSUME NEW d, Shape(d), NEW n \in Nat
    PROVE  to_index(d, from_index(d, n)) = n
<1> DEFINE N == Len(d)
           c == build_coeffs_array(d)
           ix == from_index(d, n)
<1>1. N \in Nat \ {0} /\ c[N] = 1 /\ \A i \in 1..N : c[i] \in Nat \ {0}
    BY Coefficients, ShapeFacts DEF Weights
<1>2. PICK rest : Remainders(rest, d, c, n)
    BY RemaindersExist
<1> HIDE DEF c, ix, N
<1>3. /\ rest[0] = n /\ ix = [i \in 1..N |-> rest[i - 1] \div c[i]]
      /\ \A i \in 0..N : rest[i] \in Nat
      /\ \A i \in 1..N : rest[i] = rest[i - 1] % c[i]
    BY <1>2 DEF Remainders, ix, N
<1>4. ASSUME NEW i \in 1..N
      PROVE  ix[i] \in Int /\ rest[i - 1] = c[i] * ix[i] + rest[i]
    <2>1. rest[i - 1] \in Nat /\ c[i] \in Nat \ {0}
        BY <1>1, <1>3
    <2>2. ix[i] = rest[i - 1] \div c[i] /\ rest[i] = rest[i - 1] % c[i]
        BY <1>3
    <2> DEFINE a == rest[i - 1]
               w == c[i]
    <2> HIDE DEF a, w
    <2>3. a \div w \in Nat /\ a = w * (a \div w) + (a % w)
        BY <2>1, Divided DEF a, w
    <2> QED BY <2>2, <2>3 DEF a, w
<1>5. PICK sum : Sums(sum, d, c, ix)
    BY <1>4, SumsExist DEF N, c
<1>6. /\ sum[0] = 0 /\ to_index(d, ix) = sum[N] /\ \A i \in 0..N : sum[i] \in Int
      /\ \A i \in 1..N : sum[i] = sum[i - 1] + c[i] * ix[i]
    BY <1>5 DEF Sums, N
<1> DEFINE S == {i \in 0..N : sum[i] + rest[i] = n}
<1>7. 0 \in S
    BY <1>1, <1>3, <1>6
<1>8. ASSUME NEW i \in 1..N, i - 1 \in S PROVE i \in S
    <2>1. i \in 0..N /\ i - 1 \in 0..N /\ sum[i - 1] + rest[i - 1] = n
        BY <1>1, <1>8
    <2>2. c[i] * ix[i] \in Int
        BY <1>1, <1>4
    <2>3. rest[i - 1] = c[i] * ix[i] + rest[i] /\ sum[i] = sum[i - 1] + c[i] * ix[i]
          /\ rest[i] \in Nat /\ sum[i - 1] \in Int
        BY <1>3, <1>4, <1>6, <2>1
    <2> QED BY <2>1, <2>2, <2>3
<1> HIDE DEF S
<1>9. N \in S
    BY <1>1, <1>7, <1>8, Upwards
<1>10. rest[N] = 0
    <2>1. N \in 1..N /\ N - 1 \in 0..N
        BY <1>1
    <2>2. rest[N] = rest[N - 1] % 1 /\ rest[N - 1] \in Nat
        BY <1>1, <1>3, <2>1
    <2> QED BY <2>2
<1>11. sum[N] \in Int
    BY <1>1, <1>6
<1> QED BY <1>6, <1>9, <1>10, <1>11 DEF S, ix

\* A combination of alternatives that exist has its number in the table, and back.
LEMMA ForthAndBack ==
    ASSUME NEW d, Shape(d), NEW ix \in [1..Len(d) -> Nat], \A i \in 1..Len(d) : ix[i] < d[i]
    PROVE  /\ to_index(d, ix) \in 0..(vtable_size(d) - 1)
           /\ from_index(d, to_index(d, ix)) = ix
<1> DEFINE N == Len(d)
           c == build_coeffs_array(d)
           n == to_index(d, ix)
<1>1. /\ N \in Nat \ {0} /\ 1 \in 1..N /\ c[N] = 1 /\ \A i \in 1..N : c[i] \in Nat \ {0} /\ d[i] \in Nat \ {0}
      /\ \A j \in 1..(N - 1) : c[j] = d[j + 1] * c[j + 1]
      /\ vtable_size(d) = d[1] * c[1]
    BY Coefficients, ShapeFacts, Size DEF Weights
<1>2. PICK sum : /\ sum[0] = 0 /\ n = sum[N] /\ \A i \in 0..N : sum[i] \in Int
                 /\ \A i \in 1..N : sum[i] = sum[i - 1] + c[i] * ix[i]
    BY SumsExist DEF Sums
<1> HIDE DEF N, c, n
\* What the arguments after i add to the number is less than the coefficient of i, or the
\* size of the table.
<1> DEFINE Bound(i) == IF i = 0 THEN d[1] * c[1] ELSE c[i]
           R(i) == n - sum[i]
           S == {i \in 0..N : R(i) \in Nat /\ R(i) < Bound(i)}
<1>3. ASSUME NEW i \in 1..N
      PROVE  /\ R(i - 1) = c[i] * ix[i] + R(i) /\ R(i) \in Int /\ c[i] * ix[i] \in Nat
             /\ Bound(i - 1) = d[i] * c[i] /\ Bound(i) = c[i]
    <2>1. i \in 0..N /\ i - 1 \in 0..N /\ ix[i] \in Nat /\ N \in 0..N
        BY <1>1 DEF N
    <2>2. c[i] * ix[i] \in Nat
        BY <1>1, <2>1
    <2>3. n \in Int /\ sum[i] \in Int /\ sum[i - 1] \in Int /\ sum[i] = sum[i - 1] + c[i] * ix[i]
        BY <1>2, <2>1
    <2>4. Bound(i - 1) = d[i] * c[i]
        <3>1. CASE i = 1
            BY <3>1
        <3>2. CASE i # 1
            <4>1. i - 1 \in 1..(N - 1) /\ (i - 1) + 1 = i /\ i - 1 # 0
                BY <1>1, <3>2
            <4> QED BY <1>1, <4>1
        <3> QED BY <3>1, <3>2
    <2>5. Bound(i) = c[i]
        OBVIOUS
    <2> QED BY <2>2, <2>3, <2>4, <2>5
<1>4. \A i \in 0..N : i \in S
    <2>1. N \in S
        <3>1. N \in 0..N /\ N # 0 /\ n - sum[N] = 0
            BY <1>1, <1>2
        <3> QED BY <1>1, <3>1
    <2>2. ASSUME NEW i \in 1..N, i \in S PROVE i - 1 \in S
        <3>1. i - 1 \in 0..N /\ R(i) \in Nat /\ R(i) < c[i]
            <4>1. i - 1 \in 0..N
                BY <1>1
            <4>2. R(i) \in Nat /\ R(i) < Bound(i)
                BY <2>2
            <4> HIDE DEF R, Bound
            <4> QED BY <1>3, <4>1, <4>2
        <3>2. c[i] * ix[i] + c[i] <= c[i] * d[i]
            <4>1. ix[i] \in Nat /\ d[i] \in Nat /\ c[i] \in Nat /\ ix[i] < d[i]
                BY <1>1 DEF N
            <4> QED BY <4>1, TimesMore
        <3>3. c[i] * d[i] = d[i] * c[i] /\ c[i] \in Nat /\ c[i] * d[i] \in Nat
            BY <1>1
        <3> HIDE DEF R, Bound
        <3>4. R(i - 1) \in Nat /\ R(i - 1) < Bound(i - 1)
            BY <1>3, <3>1, <3>2, <3>3
        <3> QED BY <3>1, <3>4
    <2> HIDE DEF S
    <2> QED BY <1>1, <2>1, <2>2, Downwards
<1>5. \A i \in 0..N : R(i) \in Nat /\ R(i) < Bound(i)
    BY <1>4
<1>6. R(0) = n /\ n \in Nat /\ n < vtable_size(d)
    <2>1. 0 \in 0..N /\ N \in 0..N
        BY <1>1
    <2>2. n \in Int /\ sum[0] = 0
        BY <1>2, <2>1
    <2> QED BY <1>1, <1>5, <2>1, <2>2
<1> HIDE DEF R, Bound, S
<1>7. n \in 0..(vtable_size(d) - 1)
    <2>1. d[1] * c[1] \in Nat
        BY <1>1
    <2> QED BY <1>1, <1>6, <2>1
<1>8. PICK rest : /\ rest[0] = n /\ from_index(d, n) = [i \in 1..N |-> rest[i - 1] \div c[i]]
                  /\ \A i \in 0..N : rest[i] \in Nat
                  /\ \A i \in 1..N : rest[i] = rest[i - 1] % c[i]
    BY <1>6, RemaindersExist DEF N, c, Remainders
<1>9. ASSUME NEW i \in 1..N
      PROVE  R(i - 1) \div c[i] = ix[i] /\ R(i - 1) % c[i] = R(i)
    <2>1. R(i) \in Nat /\ R(i) < c[i] /\ ix[i] \in Nat /\ c[i] \in Nat \ {0}
          /\ R(i - 1) = c[i] * ix[i] + R(i)
        <3>1. i \in 0..N
            BY <1>1
        <3>2. ix[i] \in Nat
            BY DEF N
        <3>3. R(i) \in Nat /\ R(i) < Bound(i)
            BY <1>5, <3>1
        <3>4. Bound(i) = c[i] /\ R(i - 1) = c[i] * ix[i] + R(i)
            BY <1>3
        <3>5. c[i] \in Nat \ {0}
            BY <1>1
        <3> QED BY <3>2, <3>3, <3>4, <3>5
    <2> DEFINE q == ix[i]
               r == R(i)
               w == c[i]
    <2> HIDE DEF q, r, w
    <2>2. (w * q + r) \div w = q /\ (w * q + r) % w = r
        BY <2>1, DividedOnce DEF q, r, w
    <2> QED BY <2>1, <2>2 DEF q, r, w
<1>10. \A i \in 0..N : rest[i] = R(i)
    <2> DEFINE Q == {i \in 0..N : rest[i] = R(i)}
    <2>1. 0 \in Q
        BY <1>1, <1>6, <1>8
    <2>2. ASSUME NEW i \in 1..N, i - 1 \in Q PROVE i \in Q
        <3>1. rest[i - 1] = R(i - 1) /\ i \in 0..N
            BY <1>1, <2>2
        <3> QED BY <1>8, <1>9, <3>1
    <2> HIDE DEF Q
    <2>3. \A i \in 0..N : i \in Q
        BY <1>1, <2>1, <2>2, Upwards
    <2> QED BY <2>3 DEF Q
<1>11. \A i \in 1..N : rest[i - 1] \div c[i] = ix[i]
    <2>1. \A i \in 1..N : i - 1 \in 0..N
        BY <1>1
    <2> QED BY <1>9, <1>10, <2>1
<1>12. from_index(d, n) = ix
    <2>1. ix = [i \in 1..N |-> ix[i]]
        BY DEF N
    <2> QED BY <1>8, <1>11, <2>1
<1> QED BY <1>7, <1>12 DEF n
-----------------------------------------------------------------------------
(* Visits *)

\* A visit has arguments, each of them with alternatives.
TableShape == Shape(dimensions)

\* Every argument holds one of its alternatives or none.
AlternativesExist ==
    /\ held \in [1..Len(dimensions) -> Int]
    /\ \A i \in 1..Len(dimensions) : npos <= held[i] /\ held[i] < dimensions[i]

VisitIInv == TableShape /\ AlternativesExist /\ EntryForHeld

\* The program starts with variants that hold their first alternatives.
LEMMA VisitStarts == VisitInit => VisitIInv
<1> SUFFICES ASSUME VisitInit PROVE VisitIInv
    OBVIOUS
<1>1. PICK n \in 1..MaxVariants : dimensions \in [1..n -> 1..MaxAlternatives]
    BY DEF VisitInit
<1>2. n \in Nat \ {0} /\ MaxVariants \in Nat /\ MaxAlternatives \in Nat
    BY VisitAssumption
<1>3. Len(dimensions) = n /\ dimensions \in Seq(Nat \ {0}) /\ dimensions # <<>>
    <2>1. dimensions \in [1..n -> Nat \ {0}]
        BY <1>1, <1>2
    <2>2. dimensions \in Seq(Nat \ {0}) /\ Len(dimensions) = n
        BY <1>2, <2>1
    <2> QED BY <1>2, <2>2
<1>4. \A i \in 1..n : dimensions[i] \in Nat /\ 0 < dimensions[i]
    BY <1>1, <1>2
<1>5. held = [i \in 1..n |-> 0] /\ outcome = "none"
    BY <1>1 DEF VisitInit
<1>6. AlternativesExist
    BY <1>3, <1>4, <1>5 DEF AlternativesExist, npos
<1> QED BY <1>3, <1>5, <1>6 DEF VisitIInv, TableShape, Shape, EntryForHeld

\* A program gives one of its variants another of its alternatives, or none.
LEMMA AssignKeeps == VisitIInv /\ Assign => VisitIInv'
<1> SUFFICES ASSUME VisitIInv, Assign PROVE VisitIInv'
    OBVIOUS
<1>1. DOMAIN dimensions = 1..Len(dimensions)
    BY ShapeFacts DEF VisitIInv, TableShape
<1>2. PICK i \in 1..Len(dimensions), a \in npos..(MaxAlternatives - 1) :
          a < dimensions[i] /\ held' = [held EXCEPT ![i] = a]
    BY <1>1 DEF Assign
<1>3. npos <= a /\ a \in Int
    BY VisitAssumption DEF npos
<1>4. AlternativesExist'
    BY <1>2, <1>3 DEF VisitIInv, AlternativesExist, Assign
<1> QED BY <1>4 DEF VisitIInv, TableShape, EntryForHeld, Assign

\* A visit of arguments that all hold something calls the entry for what they hold.
LEMMA LookUpKeeps ==
    ASSUME NEW Passed, VisitIInv, LookUp(dimensions, Passed)
    PROVE  VisitIInv'
<1> DEFINE N == Len(dimensions)
           n == to_index(dimensions, held)
<1>1. dimensions' = dimensions /\ held' = held
    BY DEF LookUp
<1>2. ASSUME \A i \in 1..N : held[i] # npos PROVE outcome' = "called"
    <2>1. held \in [1..N -> Nat] /\ \A i \in 1..N : held[i] < dimensions[i]
        BY <1>2 DEF VisitIInv, AlternativesExist, npos
    <2>2. n \in 0..(vtable_size(dimensions) - 1) /\ from_index(dimensions, n) = held
        BY <2>1, ForthAndBack DEF VisitIInv, TableShape
    <2> HIDE DEF n
    <2> QED BY <2>2 DEF LookUp, n
<1>3. EntryForHeld'
    <2>1. DOMAIN held = 1..N
        BY DEF VisitIInv, AlternativesExist
    <2> QED BY <1>1, <1>2, <2>1 DEF EntryForHeld
<1> QED BY <1>1, <1>3 DEF VisitIInv, TableShape, AlternativesExist

LEMMA VisitInvariance == VisitSpec => []VisitIInv
<1>1. VisitInit => VisitIInv
    BY VisitStarts
<1>2. VisitIInv /\ [VisitNext]_visitVars => VisitIInv'
    <2> SUFFICES ASSUME VisitIInv, [VisitNext]_visitVars PROVE VisitIInv'
        OBVIOUS
    <2>1. CASE Assign
        BY <2>1, AssignKeeps
    <2>2. CASE ExampleVisit
        <3>1. LookUp(dimensions, held)
            BY <2>2 DEF ExampleVisit
        <3> QED BY <3>1, LookUpKeeps
    <2>3. CASE VisitAll
        <3>1. LookUp(dimensions, [k \in DOMAIN dimensions |-> ConvertedTo(k)])
            BY <2>3 DEF VisitAll
        <3> QED BY <3>1, LookUpKeeps
    <2>4. CASE UNCHANGED visitVars
        BY <2>4 DEF visitVars, VisitIInv, TableShape, AlternativesExist, EntryForHeld
    <2> QED BY <2>1, <2>2, <2>3, <2>4 DEF VisitNext
<1> QED BY <1>1, <1>2, PTL DEF VisitSpec

\* visit never indexes its table outside, and the entry it finds there takes its arguments
\* as the alternatives they hold, so that std::get throws nothing, unless one is valueless.
THEOREM EntriesFound == VisitSpec => []EntryForHeld
<1>1. VisitIInv => EntryForHeld
    BY DEF VisitIInv
<1> QED BY <1>1, VisitInvariance, PTL

\* The table build_vtable makes by from_index is the one to_index looks in: each entry is
\* found again by the combination it was generated for.
THEOREM EntriesUsed == VisitSpec => []NoEntryUnused
<1>1. VisitIInv => NoEntryUnused
    <2> SUFFICES ASSUME VisitIInv, NEW n \in 0..(vtable_size(dimensions) - 1)
                 PROVE  to_index(dimensions, from_index(dimensions, n)) = n
        BY DEF NoEntryUnused
    <2> QED BY BackAndForth DEF VisitIInv, TableShape
<1> QED BY <1>1, VisitInvariance, PTL
=============================================================================
