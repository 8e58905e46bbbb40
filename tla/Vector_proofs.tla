---------------------------- MODULE Vector_proofs ----------------------------
(* Theorems about Vector, for any vectors, values, kinds of T and bound. *)
EXTENDS Vector, SequenceTheorems, FiniteSetTheorems, TLAPS

-----------------------------------------------------------------------------
(* Cells *)

LEMMA CellFacts ==
    /\ Default \in Values /\ Raw \notin Objects /\ Values \subseteq Objects
    /\ Objects \subseteq Cells /\ Raw \in Cells /\ Husk \in Objects
    /\ \A x \in Cells : x # Raw => x \in Objects
BY VectorAssumption DEF Objects, Cells

LEMMA SeqOfCells ==
    ASSUME NEW n \in Nat, NEW s \in [1..n -> Cells]
    PROVE  s \in Seq(Cells) /\ Len(s) = n
OBVIOUS

LEMMA AllocateCells ==
    ASSUME NEW n \in Nat
    PROVE  /\ allocate_helper(n) \in Seq(Cells) /\ Len(allocate_helper(n)) = n
           /\ \A i \in 1..n : allocate_helper(n)[i] = Raw
<1>1. allocate_helper(n) \in [1..n -> Cells]
    BY CellFacts DEF allocate_helper
<1> QED BY <1>1, SeqOfCells DEF allocate_helper

LEMMA PutCells ==
    ASSUME NEW s \in Seq(Cells), NEW at \in Nat, NEW xs \in Seq(Cells)
    PROVE  /\ Put(s, at, xs) \in Seq(Cells) /\ Len(Put(s, at, xs)) = Len(s)
           /\ \A i \in 1..Len(s) :
                 Put(s, at, xs)[i] = IF at < i /\ i <= at + Len(xs) THEN xs[i - at] ELSE s[i]
<1>1. /\ Len(s) \in Nat /\ Len(xs) \in Nat
      /\ DOMAIN s = 1..Len(s) /\ DOMAIN xs = 1..Len(xs)
    OBVIOUS
<1>2. \A i \in 1..Len(s) : i - at \in DOMAIN xs <=> at < i /\ i <= at + Len(xs)
    BY <1>1
<1>3. \A i \in 1..Len(s) : s[i] \in Cells
    OBVIOUS
<1>4. \A j \in DOMAIN xs : xs[j] \in Cells
    OBVIOUS
<1>5. Put(s, at, xs) \in [1..Len(s) -> Cells]
    BY <1>1, <1>3, <1>4 DEF Put
<1>6. Put(s, at, xs) \in Seq(Cells) /\ Len(Put(s, at, xs)) = Len(s)
    BY <1>1, <1>5, SeqOfCells
<1> QED BY <1>1, <1>2, <1>6 DEF Put

LEMMA SliceCells ==
    ASSUME NEW s \in Seq(Cells), NEW f \in Nat, NEW t \in Nat, f <= t, t <= Len(s)
    PROVE  /\ Slice(s, f, t) \in Seq(Cells) /\ Len(Slice(s, f, t)) = t - f
           /\ \A i \in 1..(t - f) : Slice(s, f, t)[i] = s[f + i]
<1>1. Len(s) \in Nat /\ \A i \in (f + 1)..t : s[i] \in Cells
    OBVIOUS
<1>2. /\ SubSeq(s, f + 1, t) \in Seq(Cells)
      /\ Len(SubSeq(s, f + 1, t)) = IF f + 1 <= t THEN t - (f + 1) + 1 ELSE 0
      /\ \A i \in 1..(t - (f + 1) + 1) : SubSeq(s, f + 1, t)[i] = s[(f + 1) + i - 1]
    BY <1>1, SubSeqProperties
<1>3. \A i \in 1..(t - f) : (f + 1) + i - 1 = f + i
    OBVIOUS
<1>4. t - (f + 1) + 1 = t - f
    OBVIOUS
<1> QED BY <1>2, <1>3, <1>4 DEF Slice

LEMMA TakenCells ==
    ASSUME NEW s \in Seq(Cells), NEW f \in Nat, NEW t \in Nat
    PROVE  /\ Taken(s, f, t) \in Seq(Cells) /\ Len(Taken(s, f, t)) = Len(s)
           /\ \A i \in 1..Len(s) :
                 Taken(s, f, t)[i] = IF NothrowMove /\ f < i /\ i <= t THEN Husk ELSE s[i]
<1>1. Len(s) \in Nat /\ DOMAIN s = 1..Len(s) /\ \A i \in 1..Len(s) : s[i] \in Cells
    OBVIOUS
<1>2. \A i \in 1..Len(s) : i \in (f + 1)..t <=> f < i /\ i <= t
    BY <1>1
<1>3. Taken(s, f, t) \in [1..Len(s) -> Cells]
    BY <1>1, CellFacts DEF Taken
<1>4. Taken(s, f, t) \in Seq(Cells) /\ Len(Taken(s, f, t)) = Len(s)
    BY <1>1, <1>3, SeqOfCells
<1>5. \A i \in 1..Len(s) : Taken(s, f, t)[i] = IF NothrowMove /\ i \in (f + 1)..t THEN Husk ELSE s[i]
    BY <1>1 DEF Taken
<1> QED BY <1>2, <1>4, <1>5

LEMMA DestroyCells ==
    ASSUME NEW s \in Seq(Cells), NEW f \in Nat, NEW t \in Nat
    PROVE  /\ destroy(s, f, t) \in Seq(Cells) /\ Len(destroy(s, f, t)) = Len(s)
           /\ \A i \in 1..Len(s) :
                 destroy(s, f, t)[i] = IF f < i /\ i <= t THEN Raw ELSE s[i]
<1>1. Len(s) \in Nat /\ DOMAIN s = 1..Len(s) /\ \A i \in 1..Len(s) : s[i] \in Cells
    OBVIOUS
<1>2. \A i \in 1..Len(s) : i \in (f + 1)..t <=> f < i /\ i <= t
    BY <1>1
<1>3. destroy(s, f, t) \in [1..Len(s) -> Cells]
    BY <1>1, CellFacts DEF destroy
<1>4. destroy(s, f, t) \in Seq(Cells) /\ Len(destroy(s, f, t)) = Len(s)
    BY <1>1, <1>3, SeqOfCells
<1>5. \A i \in 1..Len(s) : destroy(s, f, t)[i] = IF i \in (f + 1)..t THEN Raw ELSE s[i]
    BY <1>1 DEF destroy
<1> QED BY <1>2, <1>4, <1>5

LEMMA FrontCells ==
    ASSUME NEW s \in Seq(Cells), NEW n \in Nat, n <= Len(s)
    PROVE  /\ Slice(s, 0, n) \in Seq(Cells) /\ Len(Slice(s, 0, n)) = n
           /\ \A i \in 1..n : Slice(s, 0, n)[i] = s[i]
<1>1. 0 \in Nat /\ 0 <= n /\ n - 0 = n
    OBVIOUS
<1>2. /\ Slice(s, 0, n) \in Seq(Cells) /\ Len(Slice(s, 0, n)) = n - 0
      /\ \A i \in 1..(n - 0) : Slice(s, 0, n)[i] = s[0 + i]
    BY <1>1, SliceCells
<1>3. \A i \in 1..n : 0 + i = i
    OBVIOUS
<1> QED BY <1>1, <1>2, <1>3

\* copy_old_storage_to_new puts the n elements in front and leaves the rest alone.
LEMMA MovedCells ==
    ASSUME NEW s \in Seq(Cells), NEW n \in Nat, NEW new \in Seq(Cells), n <= Len(s), n <= Len(new)
    PROVE  /\ Moved(s, n, new) \in Seq(Cells) /\ Len(Moved(s, n, new)) = Len(new)
           /\ \A i \in 1..Len(new) : Moved(s, n, new)[i] = IF i <= n THEN s[i] ELSE new[i]
<1> DEFINE xs == Slice(s, 0, n)
<1>1. xs \in Seq(Cells) /\ Len(xs) = n /\ \A i \in 1..n : xs[i] = s[i]
    BY FrontCells
<1> HIDE DEF xs
<1>2. /\ Put(new, 0, xs) \in Seq(Cells) /\ Len(Put(new, 0, xs)) = Len(new)
      /\ \A i \in 1..Len(new) :
            Put(new, 0, xs)[i] = IF 0 < i /\ i <= 0 + Len(xs) THEN xs[i - 0] ELSE new[i]
    BY <1>1, PutCells
<1>3. \A i \in 1..Len(new) : Put(new, 0, xs)[i] = IF i <= n THEN s[i] ELSE new[i]
    <2>1. \A i \in 1..Len(new) : 0 < i /\ i - 0 = i /\ (i <= n => i \in 1..n) /\ 0 + Len(xs) = n
        BY <1>1
    <2> QED BY <1>1, <1>2, <2>1
<1> QED BY <1>2, <1>3 DEF Moved, xs

LEMMA FreshCells ==
    ASSUME NEW n \in Nat, NEW xs \in Seq(Cells), Len(xs) <= n
    PROVE  /\ Fresh(n, xs) \in Seq(Cells) /\ Len(Fresh(n, xs)) = n
           /\ \A i \in 1..n : Fresh(n, xs)[i] = IF i <= Len(xs) THEN xs[i] ELSE Raw
<1> DEFINE raw == allocate_helper(n)
<1>1. raw \in Seq(Cells) /\ Len(raw) = n /\ \A i \in 1..n : raw[i] = Raw
    BY AllocateCells
<1> HIDE DEF raw
<1>2. /\ Put(raw, 0, xs) \in Seq(Cells) /\ Len(Put(raw, 0, xs)) = n
      /\ \A i \in 1..n :
            Put(raw, 0, xs)[i] = IF 0 < i /\ i <= 0 + Len(xs) THEN xs[i - 0] ELSE raw[i]
    BY <1>1, PutCells
<1>3. \A i \in 1..n : 0 < i /\ i - 0 = i /\ 0 + Len(xs) = Len(xs)
    OBVIOUS
<1> QED BY <1>1, <1>2, <1>3 DEF Fresh, raw

\* The storage that reserve and shrink_to_fit move to.
LEMMA ReallocatedCells ==
    ASSUME NEW s \in Seq(Cells), NEW z \in Nat, NEW n \in Nat, z <= Len(s), z <= n
    PROVE  /\ Reallocated(s, z, n) \in Seq(Cells) /\ Len(Reallocated(s, z, n)) = n
           /\ \A i \in 1..n : Reallocated(s, z, n)[i] = IF i <= z THEN s[i] ELSE Raw
<1> DEFINE raw == allocate_helper(n)
<1>1. raw \in Seq(Cells) /\ Len(raw) = n /\ \A i \in 1..n : raw[i] = Raw
    BY AllocateCells
<1> HIDE DEF raw
<1>2. /\ Moved(s, z, raw) \in Seq(Cells) /\ Len(Moved(s, z, raw)) = n
      /\ \A i \in 1..n : Moved(s, z, raw)[i] = IF i <= z THEN s[i] ELSE raw[i]
    BY <1>1, MovedCells
<1> QED BY <1>1, <1>2 DEF Reallocated, raw

\* What they leave behind.
LEMMA LeftoverCells ==
    ASSUME NEW s \in Seq(Cells), NEW z \in Nat, z <= Len(s)
    PROVE  /\ Leftover(s, z) \in Seq(Cells) /\ Len(Leftover(s, z)) = Len(s)
           /\ \A i \in 1..Len(s) : Leftover(s, z)[i] = IF i <= z THEN Raw ELSE s[i]
<1> DEFINE t == Taken(s, 0, z)
<1>1. /\ t \in Seq(Cells) /\ Len(t) = Len(s)
      /\ \A i \in 1..Len(s) : t[i] = IF NothrowMove /\ 0 < i /\ i <= z THEN Husk ELSE s[i]
    BY TakenCells
<1> HIDE DEF t
<1>2. /\ destroy(t, 0, z) \in Seq(Cells) /\ Len(destroy(t, 0, z)) = Len(s)
      /\ \A i \in 1..Len(s) : destroy(t, 0, z)[i] = IF 0 < i /\ i <= z THEN Raw ELSE t[i]
    BY <1>1, DestroyCells
<1>3. \A i \in 1..Len(s) : 0 < i
    OBVIOUS
<1> QED BY <1>1, <1>2, <1>3 DEF Leftover, t

LEMMA ObjectsInCells ==
    ASSUME NEW s \in Seq(Cells)
    PROVE  /\ ObjectsIn(s) \subseteq Objects
           /\ \A x \in ObjectsIn(s) : \E i \in 1..Len(s) : s[i] = x /\ x # Raw
<1>1. DOMAIN s = 1..Len(s) /\ \A i \in 1..Len(s) : s[i] \in Cells
    OBVIOUS
<1> QED BY <1>1, CellFacts DEF ObjectsIn

-----------------------------------------------------------------------------
(* insert *)

LEMMA SmallerOf ==
    ASSUME NEW a \in Nat, NEW b \in Nat
    PROVE  Smaller(a, b) \in Nat /\ Smaller(a, b) <= a /\ Smaller(a, b) <= b
           /\ (a < b => Smaller(a, b) = a) /\ (~(a < b) => Smaller(a, b) = b)
BY DEF Smaller

\* d is s with the cells after from, up to z, moved n cells along.
IsDisplaced(d, s, z, from, n) ==
    /\ d \in Seq(Cells) /\ Len(d) = Len(s)
    /\ \A i \in 1..Len(s) :
          d[i] = IF from + n < i /\ i <= z + n THEN s[i - n]
                 ELSE IF NothrowMove /\ from < i /\ i <= z THEN Husk ELSE s[i]

LEMMA DisplacedCells ==
    ASSUME NEW s \in Seq(Cells), NEW z \in Nat, NEW pos \in 0..z, NEW n \in Nat, z + n <= Len(s),
           NEW from, from = IF n < z - pos THEN z - n ELSE pos
    PROVE  IsDisplaced(Displaced(s, z, pos, n), s, z, from, n)
<1>1. Len(s) \in Nat /\ from \in Nat /\ from <= z /\ z <= Len(s) /\ from + n \in Nat
    OBVIOUS
<1> DEFINE taken == Taken(s, from, z)
           part == Slice(s, from, z)
<1>2. Displaced(s, z, pos, n) = Put(taken, from + n, part)
    BY DEF Displaced
<1>3. /\ taken \in Seq(Cells) /\ Len(taken) = Len(s)
      /\ \A i \in 1..Len(s) : taken[i] = IF NothrowMove /\ from < i /\ i <= z THEN Husk ELSE s[i]
    BY <1>1, TakenCells
<1>4. part \in Seq(Cells) /\ Len(part) = z - from /\ \A i \in 1..(z - from) : part[i] = s[from + i]
    <2>1. from \in Nat /\ z \in Nat /\ from <= z /\ z <= Len(s)
        BY <1>1
    <2> QED BY <2>1, SliceCells
<1> HIDE DEF taken, part
<1>5. /\ Put(taken, from + n, part) \in Seq(Cells) /\ Len(Put(taken, from + n, part)) = Len(s)
      /\ \A i \in 1..Len(s) :
            Put(taken, from + n, part)[i] =
               IF from + n < i /\ i <= from + n + Len(part) THEN part[i - (from + n)] ELSE taken[i]
    BY <1>1, <1>3, <1>4, PutCells
<1>6. ASSUME NEW i \in 1..Len(s), from + n < i, i <= z + n
      PROVE  part[i - (from + n)] = s[i - n]
    <2>1. i - (from + n) \in 1..(z - from) /\ from + (i - (from + n)) = i - n
        BY <1>1, <1>6
    <2> QED BY <1>4, <2>1
<1>7. from + n + Len(part) = z + n
    BY <1>1, <1>4
<1> QED BY <1>2, <1>3, <1>5, <1>6, <1>7 DEF IsDisplaced

LEMMA ShiftedCells ==
    ASSUME NEW s \in Seq(Cells), NEW z \in Nat, NEW pos \in 0..z, NEW n \in Nat, z + n <= Len(s),
           n < z - pos
    PROVE  /\ Shifted(s, z, pos, n) \in Seq(Cells)
           /\ Len(Shifted(s, z, pos, n)) = Len(s)
           /\ \A i \in 1..Len(s) :
                 Shifted(s, z, pos, n)[i] =
                    IF pos + n < i /\ i <= z THEN s[i - n]
                    ELSE IF NothrowMove /\ pos < i /\ i <= z - n THEN Husk ELSE s[i]
<1>1. /\ Len(s) \in Nat /\ pos \in Nat /\ z - n \in Nat /\ pos <= z - n /\ z - n <= Len(s)
      /\ pos + n \in Nat
    OBVIOUS
<1> DEFINE taken == Taken(s, pos, z - n)
           part == Slice(s, pos, z - n)
<1>2. Shifted(s, z, pos, n) = Put(taken, pos + n, part)
    BY DEF Shifted
<1>3. /\ taken \in Seq(Cells) /\ Len(taken) = Len(s)
      /\ \A i \in 1..Len(s) :
            taken[i] = IF NothrowMove /\ pos < i /\ i <= z - n THEN Husk ELSE s[i]
    BY <1>1, TakenCells
<1>4. /\ part \in Seq(Cells) /\ Len(part) = (z - n) - pos
      /\ \A i \in 1..((z - n) - pos) : part[i] = s[pos + i]
    BY <1>1, SliceCells
<1> HIDE DEF taken, part
<1>5. /\ Put(taken, pos + n, part) \in Seq(Cells) /\ Len(Put(taken, pos + n, part)) = Len(s)
      /\ \A i \in 1..Len(s) :
            Put(taken, pos + n, part)[i] =
               IF pos + n < i /\ i <= pos + n + Len(part) THEN part[i - (pos + n)] ELSE taken[i]
    <2> DEFINE at == pos + n
    <2>1. taken \in Seq(Cells) /\ part \in Seq(Cells) /\ at \in Nat /\ Len(taken) = Len(s)
        BY <1>1, <1>3, <1>4
    <2> HIDE DEF at
    <2>2. /\ Put(taken, at, part) \in Seq(Cells) /\ Len(Put(taken, at, part)) = Len(taken)
          /\ \A i \in 1..Len(taken) :
                Put(taken, at, part)[i] =
                   IF at < i /\ i <= at + Len(part) THEN part[i - at] ELSE taken[i]
        BY <2>1, PutCells
    <2> QED BY <2>1, <2>2 DEF at
<1>6. ASSUME NEW i \in 1..Len(s), pos + n < i, i <= z
      PROVE  part[i - (pos + n)] = s[i - n]
    <2>1. i - (pos + n) \in 1..((z - n) - pos) /\ pos + (i - (pos + n)) = i - n
        BY <1>1, <1>6
    <2> QED BY <1>4, <2>1
<1>7. pos + n + Len(part) = z
    BY <1>1, <1>4
<1> QED BY <1>2, <1>3, <1>5, <1>6, <1>7

LEMMA WithTailCells ==
    ASSUME NEW s \in Seq(Cells), NEW z \in Nat, NEW pos \in 0..z, NEW items \in Seq(Cells)
    PROVE  /\ WithTail(s, z, pos, items) \in Seq(Cells)
           /\ Len(WithTail(s, z, pos, items)) = Len(s)
           /\ \A i \in 1..Len(s) :
                 WithTail(s, z, pos, items)[i] =
                    IF z < i /\ i <= pos + Len(items) THEN items[i - pos] ELSE s[i]
<1> DEFINE n == Len(items)
           head == Smaller(n, z - pos)
           part == Slice(items, head, n)
<1>1. Len(s) \in Nat /\ n \in Nat /\ pos \in Nat /\ z - pos \in Nat
    OBVIOUS
<1>2. /\ head \in Nat /\ head <= n /\ head <= z - pos
      /\ (n < z - pos => head = n) /\ (~(n < z - pos) => head = z - pos)
    BY <1>1, SmallerOf
<1> HIDE DEF head
<1>3. WithTail(s, z, pos, items) = Put(s, z, part)
    BY DEF WithTail, head
<1>4. part \in Seq(Cells) /\ Len(part) = n - head /\ \A i \in 1..(n - head) : part[i] = items[head + i]
    <2>1. items \in Seq(Cells) /\ head \in Nat /\ n \in Nat /\ head <= n /\ n <= Len(items)
        BY <1>1, <1>2
    <2> HIDE DEF n
    <2> QED BY <2>1, SliceCells
<1> HIDE DEF part
<1>5. /\ Put(s, z, part) \in Seq(Cells) /\ Len(Put(s, z, part)) = Len(s)
      /\ \A i \in 1..Len(s) :
            Put(s, z, part)[i] = IF z < i /\ i <= z + Len(part) THEN part[i - z] ELSE s[i]
    BY <1>4, PutCells
<1> HIDE DEF n
<1>6. ASSUME NEW i \in 1..Len(s)
      PROVE  z < i /\ i <= z + Len(part) <=> z < i /\ i <= pos + n
    BY <1>1, <1>2, <1>4
<1>7. ASSUME NEW i \in 1..Len(s), z < i, i <= pos + n
      PROVE  part[i - z] = items[i - pos]
    <2>1. head = z - pos
        BY <1>1, <1>2, <1>7
    <2>2. i - z \in 1..(n - head) /\ head + (i - z) = i - pos
        BY <1>1, <1>7, <2>1
    <2> QED BY <1>4, <2>2
<1> QED BY <1>3, <1>5, <1>6, <1>7 DEF n

\* j of the items assigned from pos on
LEMMA AssignedCells ==
    ASSUME NEW s \in Seq(Cells), NEW pos \in Nat, NEW items \in Seq(Cells), NEW j \in 0..Len(items)
    PROVE  /\ Put(s, pos, Slice(items, 0, j)) \in Seq(Cells)
           /\ Len(Put(s, pos, Slice(items, 0, j))) = Len(s)
           /\ \A i \in 1..Len(s) :
                 Put(s, pos, Slice(items, 0, j))[i] =
                    IF pos < i /\ i <= pos + j THEN items[i - pos] ELSE s[i]
<1> DEFINE part == Slice(items, 0, j)
<1>1. j \in Nat /\ j <= Len(items) /\ Len(s) \in Nat
    OBVIOUS
<1>2. part \in Seq(Cells) /\ Len(part) = j /\ \A i \in 1..j : part[i] = items[i]
    BY <1>1, FrontCells
<1> HIDE DEF part
<1>3. /\ Put(s, pos, part) \in Seq(Cells) /\ Len(Put(s, pos, part)) = Len(s)
      /\ \A i \in 1..Len(s) :
            Put(s, pos, part)[i] = IF pos < i /\ i <= pos + Len(part) THEN part[i - pos] ELSE s[i]
    BY <1>2, PutCells
<1>4. \A i \in 1..Len(s) : pos < i /\ i <= pos + j => i - pos \in 1..j
    BY <1>1
<1> QED BY <1>2, <1>3, <1>4 DEF part

\* After the five steps of insert, whether the range is shorter than what comes after
\* pos or not: the elements before pos, the range, and the elements from pos.
LEMMA InsertedCells ==
    ASSUME NEW s \in Seq(Cells), NEW z \in Nat, NEW pos \in 0..z, NEW items \in Seq(Cells),
           z + Len(items) <= Len(s)
    PROVE  /\ Inserted(s, z, pos, items) \in Seq(Cells)
           /\ Len(Inserted(s, z, pos, items)) = Len(s)
           /\ \A i \in 1..Len(s) :
                 Inserted(s, z, pos, items)[i] =
                    IF i <= pos THEN s[i]
                    ELSE IF i <= pos + Len(items) THEN items[i - pos]
                    ELSE IF i <= z + Len(items) THEN s[i - Len(items)]
                    ELSE s[i]
<1> DEFINE n == Len(items)
           c == Len(s)
           d == Displaced(s, z, pos, n)
           h == Shifted(d, z, pos, n)
           t == WithTail(h, z, pos, items)
           head == Smaller(n, z - pos)
           r == WithHead(t, z, pos, items)
<1>1. n \in Nat /\ c \in Nat /\ pos \in Nat /\ pos <= z /\ z + n <= c /\ z - pos \in Nat
    OBVIOUS
<1>2. Inserted(s, z, pos, items) = r
    BY DEF Inserted
<1>3. /\ head \in Nat /\ head <= n /\ head <= z - pos
      /\ (n < z - pos => head = n) /\ (~(n < z - pos) => head = z - pos)
    BY <1>1, SmallerOf
<1> HIDE DEF head
<1>4. /\ t \in Seq(Cells) /\ Len(t) = c
      /\ \A i \in 1..c : t[i] = IF z < i /\ i <= pos + n THEN items[i - pos] ELSE h[i]
      /\ h \in Seq(Cells) /\ Len(h) = c
      /\ \A i \in 1..c : ~(pos < i /\ i <= pos + n) =>
            h[i] = IF pos + n < i /\ i <= z + n THEN s[i - n] ELSE s[i]
    <2>1. CASE n < z - pos
        <3>1. /\ d \in Seq(Cells) /\ Len(d) = c
              /\ \A i \in 1..c :
                    d[i] = IF (z - n) + n < i /\ i <= z + n THEN s[i - n]
                           ELSE IF NothrowMove /\ z - n < i /\ i <= z THEN Husk ELSE s[i]
            <4>1. z - n = IF n < z - pos THEN z - n ELSE pos
                BY <2>1
            <4>2. n \in Nat /\ z + n <= Len(s) /\ c = Len(s)
                BY <1>1
            <4> HIDE DEF n, c, t, r
            <4>3. IsDisplaced(d, s, z, z - n, n)
                BY <4>1, <4>2, DisplacedCells
            <4> QED BY <4>2, <4>3 DEF IsDisplaced
        <3> HIDE DEF d
        <3>2. /\ h \in Seq(Cells) /\ Len(h) = c
              /\ \A i \in 1..c :
                    h[i] = IF pos + n < i /\ i <= z THEN d[i - n]
                           ELSE IF NothrowMove /\ pos < i /\ i <= z - n THEN Husk ELSE d[i]
            BY <1>1, <2>1, <3>1, ShiftedCells
        <3> HIDE DEF h, n, c
        <3>3. ASSUME NEW i \in 1..c, pos + n < i, i <= z
              PROVE  d[i - n] = s[i - n]
            <4>1. i - n \in 1..c /\ ~((z - n) + n < i - n) /\ ~(z - n < i - n)
                BY <1>1, <2>1, <3>3
            <4> QED BY <3>1, <4>1
        <3>4. ASSUME NEW i \in 1..c, ~(pos < i /\ i <= pos + n)
              PROVE  h[i] = IF pos + n < i /\ i <= z + n THEN s[i - n] ELSE s[i]
            <4>1. CASE i <= pos
                <5>1. /\ ~(pos + n < i) /\ ~(pos < i) /\ ~((z - n) + n < i) /\ ~(z - n < i)
                    BY <1>1, <2>1, <4>1
                <5> QED BY <3>1, <3>2, <5>1
            <4>2. CASE pos + n < i /\ i <= z
                <5>1. i <= z + n
                    BY <1>1, <4>2
                <5> QED BY <3>2, <3>3, <4>2, <5>1
            <4>3. CASE z < i
                <5>1. ~(i <= z) /\ ~(i <= z - n) /\ pos + n < i /\ (z - n) + n < i
                    BY <1>1, <2>1, <4>3
                <5> QED BY <3>1, <3>2, <5>1
            <4> QED BY <1>1, <3>4, <4>1, <4>2, <4>3
        <3>5. /\ t \in Seq(Cells) /\ Len(t) = c
              /\ \A i \in 1..c : t[i] = IF z < i /\ i <= pos + n THEN items[i - pos] ELSE h[i]
            <4>1. h \in Seq(Cells) /\ z \in Nat /\ pos \in 0..z /\ items \in Seq(Cells)
                BY <3>2
            <4>2. /\ t \in Seq(Cells) /\ Len(t) = Len(h)
                  /\ \A i \in 1..Len(h) : t[i] = IF z < i /\ i <= pos + n THEN items[i - pos] ELSE h[i]
                BY <4>1, WithTailCells DEF n
            <4> QED BY <3>2, <4>2
        <3> QED BY <3>2, <3>4, <3>5
    <2>2. CASE ~(n < z - pos)
        <3>1. /\ d \in Seq(Cells) /\ Len(d) = c
              /\ \A i \in 1..c :
                    d[i] = IF pos + n < i /\ i <= z + n THEN s[i - n]
                           ELSE IF NothrowMove /\ pos < i /\ i <= z THEN Husk ELSE s[i]
            <4>1. pos = IF n < z - pos THEN z - n ELSE pos
                BY <2>2
            <4>2. n \in Nat /\ z + n <= Len(s) /\ c = Len(s)
                BY <1>1
            <4> HIDE DEF n, c, t, r
            <4>3. IsDisplaced(d, s, z, pos, n)
                BY <4>1, <4>2, DisplacedCells
            <4> QED BY <4>2, <4>3 DEF IsDisplaced
        <3> HIDE DEF d
        <3>2. h = d
            BY <2>2 DEF Shifted
        <3> HIDE DEF h, n, c
        <3>3. ASSUME NEW i \in 1..c, ~(pos < i /\ i <= pos + n)
              PROVE  h[i] = IF pos + n < i /\ i <= z + n THEN s[i - n] ELSE s[i]
            <4>1. CASE i <= pos
                <5>1. ~(pos + n < i) /\ ~(pos < i)
                    BY <1>1, <4>1
                <5> QED BY <3>1, <3>2, <5>1
            <4>2. CASE pos + n < i
                <5>1. ~(i <= z)
                    BY <1>1, <2>2, <4>2
                <5> QED BY <3>1, <3>2, <4>2, <5>1
            <4> QED BY <1>1, <3>3, <4>1, <4>2
        <3>4. /\ t \in Seq(Cells) /\ Len(t) = c
              /\ \A i \in 1..c : t[i] = IF z < i /\ i <= pos + n THEN items[i - pos] ELSE h[i]
            <4>1. h \in Seq(Cells) /\ z \in Nat /\ pos \in 0..z /\ items \in Seq(Cells)
                BY <3>1, <3>2
            <4>2. /\ t \in Seq(Cells) /\ Len(t) = Len(h)
                  /\ \A i \in 1..Len(h) : t[i] = IF z < i /\ i <= pos + n THEN items[i - pos] ELSE h[i]
                BY <4>1, WithTailCells DEF n
            <4> QED BY <3>1, <3>2, <4>2
        <3> QED BY <3>1, <3>2, <3>3, <3>4
    <2> QED BY <2>1, <2>2
<1> HIDE DEF h, t, n, c
<1>5. /\ r \in Seq(Cells) /\ Len(r) = c
      /\ \A i \in 1..c : r[i] = IF pos < i /\ i <= pos + head THEN items[i - pos] ELSE t[i]
    <2>1. r = Put(t, pos, Slice(items, 0, head))
        BY DEF WithHead, head, n
    <2>2. head \in 0..n
        BY <1>1, <1>3
    <2>3. /\ Put(t, pos, Slice(items, 0, head)) \in Seq(Cells)
          /\ Len(Put(t, pos, Slice(items, 0, head))) = Len(t)
          /\ \A i \in 1..Len(t) :
                Put(t, pos, Slice(items, 0, head))[i] =
                   IF pos < i /\ i <= pos + head THEN items[i - pos] ELSE t[i]
        <3>1. t \in Seq(Cells) /\ pos \in Nat /\ head \in 0..Len(items)
            BY <1>1, <1>4, <2>2 DEF n
        <3> QED BY <3>1, AssignedCells
    <2> QED BY <1>4, <2>1, <2>3
<1> HIDE DEF r
<1>6. ASSUME NEW i \in 1..c
      PROVE  r[i] = IF i <= pos THEN s[i]
                    ELSE IF i <= pos + n THEN items[i - pos]
                    ELSE IF i <= z + n THEN s[i - n] ELSE s[i]
    <2>1. CASE i <= pos
        <3>1. ~(pos < i) /\ ~(z < i) /\ ~(pos + n < i)
            BY <1>1, <2>1
        <3> QED BY <1>4, <1>5, <2>1, <3>1
    <2>2. CASE pos < i /\ i <= pos + n /\ i <= pos + head
        <3>1. ~(i <= pos)
            BY <1>1, <2>2
        <3> QED BY <1>5, <2>2, <3>1
    <2>3. CASE pos < i /\ i <= pos + n /\ ~(i <= pos + head)
        <3>1. ~(i <= pos) /\ z < i
            BY <1>1, <1>3, <2>3
        <3> QED BY <1>4, <1>5, <2>3, <3>1
    <2>4. CASE pos + n < i
        <3>1. ~(i <= pos) /\ ~(i <= pos + n) /\ ~(i <= pos + head) /\ pos < i
            BY <1>1, <1>3, <2>4
        <3> QED BY <1>4, <1>5, <2>4, <3>1
    <2> QED BY <1>1, <2>1, <2>2, <2>3, <2>4
<1> QED BY <1>2, <1>5, <1>6 DEF c, n

\* r is s with n items put behind the first pos of its z elements.
IsInserted(r, s, z, pos, items, n) ==
    /\ r \in Seq(Cells) /\ Len(r) = Len(s)
    /\ \A i \in 1..Len(s) :
          r[i] = IF i <= pos THEN s[i] ELSE IF i <= pos + n THEN items[i - pos]
                 ELSE IF i <= z + n THEN s[i - n] ELSE s[i]

LEMMA InsertResult ==
    ASSUME NEW s \in Seq(Cells), NEW z \in Nat, NEW pos \in 0..z, NEW items \in Seq(Cells),
           NEW n, n = Len(items), z + n <= Len(s)
    PROVE  IsInserted(Inserted(s, z, pos, items), s, z, pos, items, n)
BY InsertedCells DEF IsInserted

-----------------------------------------------------------------------------
(* The vectors *)

Sizes == 0..MaxSize
Capacities == 0..(2 * MaxSize - 2)

\* Each vector has the storage it believes in, and no more elements than cells.
Shape ==
    /\ kind \in Kinds
    /\ storage \in [Vectors -> Seq(Cells)]
    /\ size \in [Vectors -> Sizes]
    /\ capacity \in [Vectors -> Capacities]
    /\ \A v \in Vectors : Len(storage[v]) = capacity[v] /\ size[v] <= capacity[v]

Ending == spilled \subseteq Objects /\ thrown \in BOOLEAN /\ propagated \in BOOLEAN

\* The first n cells hold objects and no other cell does.
FilledTo(s, n) == \A i \in 1..Len(s) : s[i] # Raw <=> i <= n

\* What the cells beyond the first n hold has been stranded there already.
Kept(s, n) == \A i \in 1..Len(s) : i > n /\ s[i] # Raw => s[i] \in Stranded

\* The first n cells hold objects.
Intact(s, n) == \A i \in 1..n : s[i] # Raw

LEMMA BoundFacts == MaxSize \in Nat /\ MaxSize > 1 /\ Sizes \subseteq Nat /\ Capacities \subseteq Nat
BY VectorAssumption DEF Sizes, Capacities

LEMMA RoomBound ==
    ASSUME NEW v
    PROVE  Room(v) \in Int /\ Room(v) <= MaxSize
<1> DEFINE P == (Vectors \ {v}) \X (1..MaxSize)
           used == {p \in P : p[2] <= size[p[1]]}
<1>1. IsFiniteSet(Vectors \ {v})
    BY VectorAssumption, FS_Subset
<1>2. IsFiniteSet(1..MaxSize)
    BY BoundFacts, FS_Interval
<1>3. IsFiniteSet(P)
    BY <1>1, <1>2, FS_Product
<1>4. IsFiniteSet(used)
    <2>1. used \subseteq P
        OBVIOUS
    <2> HIDE DEF P, used
    <2> QED BY <1>3, <2>1, FS_Subset
<1>5. Cardinality(used) \in Nat
    <2> HIDE DEF used
    <2> QED BY <1>4, FS_CardinalityType
<1>6. Room(v) = MaxSize - Cardinality(used)
    BY DEF Room
<1> HIDE DEF used
<1> QED BY <1>5, <1>6, BoundFacts

LEMMA VectorFacts ==
    ASSUME Shape, NEW v \in Vectors
    PROVE  /\ storage[v] \in Seq(Cells) /\ Len(storage[v]) = capacity[v]
           /\ size[v] \in Nat /\ size[v] <= MaxSize /\ size[v] <= capacity[v]
           /\ capacity[v] \in Nat /\ capacity[v] <= 2 * MaxSize - 2
           /\ capacity[v] \in Capacities /\ size[v] \in Sizes
<1>1. size[v] \in Sizes /\ capacity[v] \in Capacities /\ storage[v] \in Seq(Cells)
    BY DEF Shape
<1>2. Len(storage[v]) = capacity[v] /\ size[v] <= capacity[v]
    BY DEF Shape
<1> QED BY <1>1, <1>2, BoundFacts DEF Sizes, Capacities

LEMMA ElementCells ==
    ASSUME Shape, NEW v \in Vectors
    PROVE  /\ elements(v) \in Seq(Cells) /\ Len(elements(v)) = size[v]
           /\ \A i \in 1..size[v] : elements(v)[i] = storage[v][i]
BY VectorFacts, FrontCells DEF elements

LEMMA IntactCells ==
    ASSUME NEW s \in Seq(Cells), NEW n \in Nat, n <= Len(s)
    PROVE  Raw \notin ToSet(Slice(s, 0, n)) <=> Intact(s, n)
<1>1. /\ Slice(s, 0, n) \in Seq(Cells) /\ Len(Slice(s, 0, n)) = n
      /\ \A i \in 1..n : Slice(s, 0, n)[i] = s[i]
    BY FrontCells
<1>2. DOMAIN Slice(s, 0, n) = 1..n
    BY <1>1
<1> QED BY <1>1, <1>2 DEF ToSet, Intact

LEMMA Survival ==
    ASSUME Shape
    PROVE  ElementsSurvive <=> \A v \in Vectors : Intact(storage[v], size[v])
BY VectorFacts, IntactCells DEF ElementsSurvive, elements

LEMMA SurvivalNext ==
    ASSUME Shape'
    PROVE  ElementsSurvive' <=> \A v \in Vectors : Intact(storage'[v], size'[v])
<1>1. ASSUME NEW v \in Vectors
      PROVE  /\ storage'[v] \in Seq(Cells) /\ size'[v] \in Nat /\ size'[v] <= Len(storage'[v])
    BY BoundFacts DEF Shape
<1> QED BY <1>1, IntactCells DEF ElementsSurvive, elements

LEMMA FilledIsIntact ==
    ASSUME NEW s \in Seq(Cells), NEW n \in Nat, n <= Len(s), FilledTo(s, n)
    PROVE  Intact(s, n)
BY DEF FilledTo, Intact

LEMMA ExactIsFilled ==
    ASSUME Shape
    PROVE  ElementsExactly <=> (~MayThrow => \A v \in Vectors : FilledTo(storage[v], size[v]))
<1>1. \A v \in Vectors : Len(storage[v]) = capacity[v] /\ size[v] <= capacity[v]
    BY DEF Shape
<1> QED BY <1>1 DEF ElementsExactly, FilledTo

LEMMA ExactIsFilledNext ==
    ASSUME Shape', kind' = kind
    PROVE  ElementsExactly' <=> (~MayThrow => \A v \in Vectors : FilledTo(storage'[v], size'[v]))
<1>1. \A v \in Vectors : Len(storage'[v]) = capacity'[v] /\ size'[v] <= capacity'[v]
    BY DEF Shape
<1>2. MayThrow' <=> MayThrow
    BY DEF MayThrow
<1> QED BY <1>1, <1>2 DEF ElementsExactly, FilledTo

LEMMA KeptNow ==
    ASSUME Shape, NEW v \in Vectors
    PROVE  Kept(storage[v], size[v])
<1>1. Len(storage[v]) = capacity[v] /\ size[v] \in Nat /\ capacity[v] \in Nat
    BY VectorFacts
<1>2. \A i \in 1..Len(storage[v]) : i > size[v] => i \in (size[v] + 1)..capacity[v]
    BY <1>1
<1>3. \A i \in (size[v] + 1)..capacity[v] : storage[v][i] # Raw => storage[v][i] \in Stranded
    <2> DEFINE beyond(w) == {storage[w][i] : i \in (size[w] + 1)..capacity[w]}
    <2>1. Stranded = (UNION {beyond(w) : w \in Vectors}) \ {Raw}
        BY DEF Stranded
    <2>2. \A i \in (size[v] + 1)..capacity[v] : storage[v][i] \in beyond(v)
        OBVIOUS
    <2> HIDE DEF beyond
    <2>3. \A x \in beyond(v) : x \in UNION {beyond(w) : w \in Vectors}
        OBVIOUS
    <2>4. \A x \in beyond(v) : x # Raw => x \in Stranded
        BY <2>1, <2>3
    <2> QED BY <2>2, <2>4
<1> QED BY <1>2, <1>3 DEF Kept

LEMMA KeptNext ==
    ASSUME Shape', \A v \in Vectors : Kept(storage'[v], size'[v])
    PROVE  Stranded' \subseteq Stranded
<1>1. ASSUME NEW v \in Vectors, NEW i \in (size'[v] + 1)..capacity'[v], storage'[v][i] # Raw
      PROVE  storage'[v][i] \in Stranded
    <2>1. Len(storage'[v]) = capacity'[v] /\ size'[v] \in Nat /\ capacity'[v] \in Nat
        BY BoundFacts DEF Shape
    <2>2. i \in 1..Len(storage'[v]) /\ i > size'[v]
        BY <2>1
    <2> QED BY <1>1, <2>2 DEF Kept
<1> SUFFICES ASSUME NEW x \in Stranded'
             PROVE  x \in Stranded
    OBVIOUS
<1> DEFINE beyond(v) == {storage'[v][i] : i \in (size'[v] + 1)..capacity'[v]}
<1>2. Stranded' = (UNION {beyond(v) : v \in Vectors}) \ {Raw}
    BY DEF Stranded
<1>3. PICK v \in Vectors : x \in beyond(v)
    <2> HIDE DEF beyond
    <2> QED BY <1>2
<1>4. PICK i \in (size'[v] + 1)..capacity'[v] : x = storage'[v][i]
    BY <1>3
<1>5. x # Raw
    <2> HIDE DEF beyond
    <2> QED BY <1>2
<1> HIDE DEF beyond
<1> QED BY <1>1, <1>4, <1>5

LEMMA KeptCells ==
    ASSUME NEW s \in Seq(Cells), \A i \in 1..Len(s) : s[i] # Raw => s[i] \in Stranded
    PROVE  ObjectsIn(s) \subseteq Stranded
<1>1. DOMAIN s = 1..Len(s)
    OBVIOUS
<1> QED BY <1>1 DEF ObjectsIn

\* What a vector's new storage changes.
LEMMA Installed ==
    ASSUME Shape, NEW v \in Vectors, NEW s \in Seq(Cells), NEW n \in Sizes, n <= Len(s),
           Len(s) \in Capacities, Install(v, s, Len(s), n), kind' = kind
    PROVE  /\ Shape'
           /\ storage'[v] = s /\ size'[v] = n /\ capacity'[v] = Len(s)
           /\ \A w \in Vectors \ {v} :
                 storage'[w] = storage[w] /\ size'[w] = size[w] /\ capacity'[w] = capacity[w]
           /\ ElementsExactly /\ (~MayThrow => FilledTo(s, n)) => ElementsExactly'
           /\ ElementsSurvive /\ Intact(s, n) => ElementsSurvive'
           /\ Kept(s, n) => Stranded' \subseteq Stranded
<1>1. /\ storage'[v] = s /\ size'[v] = n /\ capacity'[v] = Len(s)
      /\ \A w \in Vectors \ {v} :
            storage'[w] = storage[w] /\ size'[w] = size[w] /\ capacity'[w] = capacity[w]
    BY DEF Shape, Install
<1>2. Shape'
    <2>1. /\ storage' \in [Vectors -> Seq(Cells)] /\ size' \in [Vectors -> Sizes]
          /\ capacity' \in [Vectors -> Capacities] /\ kind' \in Kinds
        BY DEF Shape, Install
    <2>2. \A w \in Vectors : Len(storage'[w]) = capacity'[w] /\ size'[w] <= capacity'[w]
        BY <1>1 DEF Shape
    <2> QED BY <2>1, <2>2 DEF Shape
<1>3. ASSUME ElementsExactly, ~MayThrow => FilledTo(s, n)
      PROVE  ElementsExactly'
    <2>1. ~MayThrow => \A w \in Vectors : FilledTo(storage'[w], size'[w])
        BY <1>1, <1>3, ExactIsFilled
    <2> QED BY <1>2, <2>1, ExactIsFilledNext
<1>4. ASSUME ElementsSurvive, Intact(s, n)
      PROVE  ElementsSurvive'
    <2>1. \A w \in Vectors : Intact(storage'[w], size'[w])
        BY <1>1, <1>4, Survival
    <2> QED BY <1>2, <2>1, SurvivalNext
<1>5. ASSUME Kept(s, n)
      PROVE  Stranded' \subseteq Stranded
    <2>1. \A w \in Vectors : Kept(storage'[w], size'[w])
        BY <1>1, <1>5, KeptNow
    <2> QED BY <1>2, <2>1, KeptNext
<1> QED BY <1>1, <1>2, <1>3, <1>4, <1>5

LEMMA NothingInstalled ==
    ASSUME Shape, UNCHANGED <<storage, size, capacity>>, kind' = kind
    PROVE  /\ Shape' /\ (ElementsExactly => ElementsExactly') /\ (ElementsSurvive => ElementsSurvive')
<1>1. Shape'
    BY DEF Shape
<1>2. MayThrow' <=> MayThrow
    BY DEF MayThrow
<1> QED BY <1>1, <1>2 DEF ElementsExactly, ElementsSurvive, elements

LEMMA EndsFacts ==
    ASSUME NEW throw \in BOOLEAN, NEW out \in BOOLEAN, NEW c, Ends(throw, out, c)
    PROVE  /\ ElementsSurvive /\ kind' = kind /\ thrown' = throw /\ propagated' = out /\ call' = c
           /\ thrown' \in BOOLEAN /\ propagated' \in BOOLEAN
BY DEF Ends

-----------------------------------------------------------------------------
(* What a call leaves *)

Inv == Shape /\ Ending /\ ElementsExactly

\* All that is claimed about a call but what it does to the elements.
Outcome ==
    /\ Shape' /\ Ending' /\ ElementsExactly'
    /\ NothrowMove => spilled' \subseteq {Husk} \cup Stranded
    /\ Stranded' \subseteq Stranded \/ propagated'
    /\ propagated' => ElementsSurvive'

LEMMA FilledNow ==
    ASSUME Inv, ~MayThrow, NEW v \in Vectors
    PROVE  FilledTo(storage[v], size[v])
BY ExactIsFilled DEF Inv

\* A call that returns.
LEMMA Returned ==
    ASSUME Shape', ElementsExactly', spilled' \subseteq Objects,
           NothrowMove => spilled' \subseteq {Husk} \cup Stranded, Stranded' \subseteq Stranded,
           NEW c, Returns(c)
    PROVE  Outcome
BY EndsFacts DEF Outcome, Ending, Returns

\* A call that throws.
LEMMA Thrown ==
    ASSUME Shape', ElementsExactly', spilled' \subseteq Objects, Throws, ElementsSurvive',
           NothrowMove => spilled' \subseteq {Husk} \cup Stranded
    PROVE  Outcome
BY EndsFacts DEF Outcome, Ending, Throws

LEMMA ReturnsFacts ==
    ASSUME NEW c, Returns(c)
    PROVE  ElementsSurvive /\ kind' = kind /\ thrown' = FALSE /\ propagated' = FALSE /\ call' = c
BY EndsFacts DEF Returns

LEMMA ThrowsFacts ==
    ASSUME Throws
    PROVE  ElementsSurvive /\ kind' = kind /\ thrown' = TRUE /\ propagated' = TRUE /\ MayThrow
BY EndsFacts DEF Throws

LEMMA SpilledObjects ==
    ASSUME NEW s \in Seq(Cells)
    PROVE  ObjectsIn(s) \subseteq Objects
BY ObjectsInCells

LEMMA DiscardSpills ==
    ASSUME Inv, NEW v \in Vectors, Discard(v)
    PROVE  spilled' \subseteq Objects /\ spilled' \subseteq Stranded
<1> DEFINE s == destroy(storage[v], 0, size[v])
<1>1. /\ storage[v] \in Seq(Cells) /\ Len(storage[v]) \in Nat /\ size[v] \in Nat
      /\ size[v] <= Len(storage[v])
    BY VectorFacts DEF Inv
<1>2. /\ s \in Seq(Cells) /\ Len(s) = Len(storage[v])
      /\ \A i \in 1..Len(storage[v]) : s[i] = IF 0 < i /\ i <= size[v] THEN Raw ELSE storage[v][i]
    BY <1>1, DestroyCells
<1>3. spilled' = ObjectsIn(s)
    BY DEF Discard, Deallocate
<1> HIDE DEF s
<1>4. \A i \in 1..Len(s) : s[i] # Raw => s[i] \in Stranded
    BY <1>1, <1>2, KeptNow DEF Inv, Kept
<1> QED BY <1>2, <1>3, <1>4, SpilledObjects, KeptCells

-----------------------------------------------------------------------------
(* Constructors and assignment *)

LEMMA WithinCapacities ==
    ASSUME NEW n \in Nat, n <= MaxSize
    PROVE  n \in Sizes /\ n \in Capacities
BY BoundFacts DEF Sizes, Capacities

LEMMA ConstructOutcome ==
    ASSUME Inv, NEW v \in Vectors, Construct(v)
    PROVE  Outcome
<1>1. PICK n \in 0..Room(v) : \E xs \in [1..n -> Values] :
          Install(v, Fresh(n, xs), n, n) /\ Returns([op |-> "assign", v |-> v, s |-> xs])
    BY DEF Construct
<1>2. PICK xs \in [1..n -> Values] :
          Install(v, Fresh(n, xs), n, n) /\ Returns([op |-> "assign", v |-> v, s |-> xs])
    BY <1>1
<1>3. n \in Nat /\ n <= MaxSize
    BY RoomBound, BoundFacts
<1>4. xs \in Seq(Cells) /\ Len(xs) = n /\ \A i \in 1..n : xs[i] # Raw
    BY <1>3, CellFacts
<1>5. /\ Fresh(n, xs) \in Seq(Cells) /\ Len(Fresh(n, xs)) = n
      /\ \A i \in 1..n : Fresh(n, xs)[i] = xs[i]
    BY <1>3, <1>4, FreshCells
<1>6. FilledTo(Fresh(n, xs), n) /\ Kept(Fresh(n, xs), n)
    BY <1>3, <1>4, <1>5 DEF FilledTo, Kept
<1>7. kind' = kind
    BY <1>2, ReturnsFacts
<1>8. Shape' /\ ElementsExactly' /\ Stranded' \subseteq Stranded
    BY <1>2, <1>3, <1>5, <1>6, <1>7, WithinCapacities, Installed DEF Inv
<1>9. spilled' \subseteq Objects /\ spilled' \subseteq Stranded
    BY DiscardSpills DEF Construct
<1> QED BY <1>2, <1>8, <1>9, Returned

LEMMA CopyConstructOutcome ==
    ASSUME Inv, NEW v \in Vectors, NEW w \in Vectors, CopyConstruct(v, w)
    PROVE  Outcome
<1> DEFINE s == Fresh(capacity[w], elements(w))
           n == size[w]
<1>1. /\ capacity[w] \in Nat /\ capacity[w] \in Capacities /\ n \in Nat /\ n \in Sizes
      /\ n <= capacity[w] /\ storage[w] \in Seq(Cells) /\ Len(storage[w]) = capacity[w]
    BY VectorFacts DEF Inv
<1>2. /\ elements(w) \in Seq(Cells) /\ Len(elements(w)) = n
      /\ \A i \in 1..n : elements(w)[i] = storage[w][i]
    BY ElementCells DEF Inv
<1>3. /\ s \in Seq(Cells) /\ Len(s) = capacity[w]
      /\ \A i \in 1..capacity[w] : s[i] = IF i <= n THEN elements(w)[i] ELSE Raw
    BY <1>1, <1>2, FreshCells
<1> HIDE DEF s, n
<1>4. ASSUME ~MayThrow
      PROVE  FilledTo(s, n)
    <2>1. FilledTo(storage[w], n)
        BY <1>4, FilledNow DEF n
    <2> QED BY <1>1, <1>2, <1>3, <2>1 DEF FilledTo
<1>5. Kept(s, n)
    BY <1>1, <1>3 DEF Kept
<1>6. /\ Install(v, s, Len(s), n) /\ Discard(v)
      /\ Returns([op |-> "copy", v |-> v, w |-> w])
    BY <1>3 DEF CopyConstruct, s, n
<1>7. kind' = kind
    BY <1>6, ReturnsFacts
<1>8. Shape' /\ ElementsExactly' /\ Stranded' \subseteq Stranded
    BY <1>1, <1>3, <1>4, <1>6, <1>7, <1>5, Installed DEF Inv
<1>9. spilled' \subseteq Objects /\ spilled' \subseteq Stranded
    BY <1>6, DiscardSpills
<1> QED BY <1>6, <1>8, <1>9, Returned

LEMMA NoCells == <<>> \in Seq(Cells) /\ Len(<<>>) = 0 /\ 0 \in Sizes /\ 0 \in Capacities
BY BoundFacts, WithinCapacities

LEMMA ConstructThrowsOutcome ==
    ASSUME Inv, NEW v \in Vectors, ConstructThrows(v)
    PROVE  Outcome
<1> DEFINE s == <<>>
           n == 0
<1>1. s \in Seq(Cells) /\ n \in Sizes /\ n <= Len(s) /\ Len(s) \in Capacities
    BY NoCells
<1>2. Throws /\ Discard(v) /\ Install(v, s, Len(s), n)
    BY NoCells DEF ConstructThrows
<1>3. FilledTo(s, n) /\ Intact(s, n)
    BY NoCells DEF FilledTo, Intact
<1> HIDE DEF s, n
<1>4. kind' = kind /\ ElementsSurvive /\ Shape /\ ElementsExactly
    BY <1>2, ThrowsFacts DEF Inv
<1>5. Shape' /\ ElementsExactly' /\ ElementsSurvive'
    BY <1>1, <1>2, <1>3, <1>4, Installed
<1>6. spilled' \subseteq Objects /\ spilled' \subseteq Stranded
    BY <1>2, DiscardSpills
<1> QED BY <1>2, <1>5, <1>6, Thrown

LEMMA MoveConstructOutcome ==
    ASSUME Inv, NEW v \in Vectors, NEW w \in Vectors, MoveConstruct(v, w)
    PROVE  Outcome
<1>1. /\ storage' \in [Vectors -> Seq(Cells)] /\ size' \in [Vectors -> Sizes]
      /\ capacity' \in [Vectors -> Capacities]
    BY NoCells DEF MoveConstruct, Inv, Shape
<1>2. /\ storage'[v] = storage[w] /\ size'[v] = size[w] /\ capacity'[v] = capacity[w]
      /\ storage'[w] = <<>> /\ size'[w] = 0 /\ capacity'[w] = 0
      /\ \A x \in Vectors \ {v, w} :
            storage'[x] = storage[x] /\ size'[x] = size[x] /\ capacity'[x] = capacity[x]
    BY DEF MoveConstruct, Inv, Shape
<1>3. Discard(v) /\ Returns([op |-> "move", v |-> v, w |-> w])
    BY DEF MoveConstruct
<1>4. kind' = kind
    BY <1>3, ReturnsFacts
<1>5. Shape'
    <2>1. \A x \in Vectors : Len(storage'[x]) = capacity'[x] /\ size'[x] <= capacity'[x]
        BY <1>2, NoCells DEF Inv, Shape
    <2> QED BY <1>1, <1>4, <2>1 DEF Inv, Shape
<1>6. ElementsExactly'
    <2>1. FilledTo(<<>>, 0)
        BY NoCells DEF FilledTo
    <2>2. ~MayThrow => \A x \in Vectors : FilledTo(storage'[x], size'[x])
        BY <1>2, <2>1, FilledNow
    <2> QED BY <1>4, <1>5, <2>2, ExactIsFilledNext
<1>7. spilled' \subseteq Objects /\ spilled' \subseteq Stranded
    BY <1>3, DiscardSpills
<1>8. Stranded' \subseteq Stranded
    <2>1. Kept(<<>>, 0)
        BY NoCells DEF Kept
    <2>2. \A x \in Vectors : Kept(storage'[x], size'[x])
        BY <1>2, <2>1, KeptNow DEF Inv
    <2> QED BY <1>5, <2>2, KeptNext
<1> QED BY <1>3, <1>5, <1>6, <1>7, <1>8, Returned

LEMMA swapOutcome ==
    ASSUME Inv, NEW v \in Vectors, NEW w \in Vectors, swap(v, w)
    PROVE  Outcome
<1>1. /\ storage' \in [Vectors -> Seq(Cells)] /\ size' \in [Vectors -> Sizes]
      /\ capacity' \in [Vectors -> Capacities]
    BY DEF swap, Inv, Shape
<1>2. /\ storage'[v] = storage[w] /\ size'[v] = size[w] /\ capacity'[v] = capacity[w]
      /\ storage'[w] = storage[v] /\ size'[w] = size[v] /\ capacity'[w] = capacity[v]
      /\ \A x \in Vectors \ {v, w} :
            storage'[x] = storage[x] /\ size'[x] = size[x] /\ capacity'[x] = capacity[x]
    BY DEF swap, Inv, Shape
<1>3. spilled' = {} /\ Returns([op |-> "swap", v |-> v, w |-> w])
    BY DEF swap
<1>4. kind' = kind
    BY <1>3, ReturnsFacts
<1>5. Shape'
    <2>1. \A x \in Vectors : Len(storage'[x]) = capacity'[x] /\ size'[x] <= capacity'[x]
        BY <1>2 DEF Inv, Shape
    <2> QED BY <1>1, <1>4, <2>1 DEF Inv, Shape
<1>6. ElementsExactly'
    <2>1. ~MayThrow => \A x \in Vectors : FilledTo(storage'[x], size'[x])
        BY <1>2, FilledNow
    <2> QED BY <1>4, <1>5, <2>1, ExactIsFilledNext
<1>7. Stranded' \subseteq Stranded
    <2>1. \A x \in Vectors : Kept(storage'[x], size'[x])
        BY <1>2, KeptNow DEF Inv
    <2> QED BY <1>5, <2>1, KeptNext
<1> QED BY <1>3, <1>5, <1>6, <1>7, Returned

LEMMA NothingDoneOutcome ==
    ASSUME Inv, NEW v \in Vectors, NothingDone(v)
    PROVE  Outcome
<1>1. Throws /\ UNCHANGED <<storage, size, capacity>> /\ spilled' = {}
    BY DEF NothingDone
<1>2. kind' = kind /\ ElementsSurvive
    BY <1>1, ThrowsFacts
<1>3. Shape' /\ ElementsExactly' /\ ElementsSurvive'
    BY <1>1, <1>2, NothingInstalled DEF Inv
<1> QED BY <1>1, <1>3, Thrown

-----------------------------------------------------------------------------
(* push_back *)

\* An argument of push_back is an object of T.
LEMMA ArgumentFacts ==
    ASSUME Inv, ElementsSurvive, NEW v \in Vectors, NEW x \in Arguments(v)
    PROVE  x \in Objects /\ x \in Cells /\ x # Raw
<1>1. ASSUME NEW i \in 1..size[v]
      PROVE  elements(v)[i] \in Cells /\ elements(v)[i] # Raw
    <2>1. storage[v][i] # Raw
        BY Survival DEF Inv, Intact
    <2>2. elements(v)[i] = storage[v][i] /\ elements(v) \in Seq(Cells) /\ i \in 1..Len(elements(v))
        BY ElementCells DEF Inv
    <2> QED BY <2>1, <2>2
<1>2. x \in Cells /\ x # Raw
    BY <1>1, CellFacts DEF Arguments
<1> QED BY <1>2, CellFacts

LEMMA OneCell ==
    ASSUME NEW x \in Cells
    PROVE  <<x>> \in Seq(Cells) /\ Len(<<x>>) = 1 /\ <<x>>[1] = x
OBVIOUS

\* The capacity of the slow path holds one more, within the bound.
LEMMA GrownCapacity ==
    ASSUME NEW c \in Nat, c < MaxSize
    PROVE  /\ new_capacity(c) \in Nat /\ c + 1 <= new_capacity(c)
           /\ new_capacity(c) \in Capacities /\ c + 1 \in Sizes
BY BoundFacts DEF new_capacity, Capacities, Sizes

LEMMA FastPathCells ==
    ASSUME Inv, NEW v \in Vectors, NEW x \in Cells, x # Raw, ~is_full(v)
    PROVE  LET s == Put(storage[v], size[v], <<x>>)
           IN  /\ s \in Seq(Cells) /\ Len(s) = capacity[v] /\ size[v] + 1 <= capacity[v]
               /\ \A i \in 1..capacity[v] : s[i] = IF i = size[v] + 1 THEN x ELSE storage[v][i]
<1> DEFINE s == Put(storage[v], size[v], <<x>>)
           xs == <<x>>
<1>1. xs \in Seq(Cells) /\ Len(xs) = 1 /\ xs[1] = x
    BY OneCell
<1>2. /\ storage[v] \in Seq(Cells) /\ Len(storage[v]) = capacity[v] /\ capacity[v] \in Nat
      /\ size[v] \in Nat /\ size[v] <= capacity[v] /\ size[v] # capacity[v]
    BY VectorFacts DEF Inv, is_full
<1> HIDE DEF xs
<1>3. /\ Put(storage[v], size[v], xs) \in Seq(Cells)
      /\ Len(Put(storage[v], size[v], xs)) = Len(storage[v])
      /\ \A i \in 1..Len(storage[v]) :
            Put(storage[v], size[v], xs)[i] =
               IF size[v] < i /\ i <= size[v] + Len(xs) THEN xs[i - size[v]] ELSE storage[v][i]
    BY <1>1, <1>2, PutCells
<1>4. s = Put(storage[v], size[v], xs)
    BY DEF xs
<1> HIDE DEF s
<1>5. ASSUME NEW i \in 1..capacity[v]
      PROVE  s[i] = IF i = size[v] + 1 THEN x ELSE storage[v][i]
    <2>1. size[v] < i /\ i <= size[v] + Len(xs) <=> i = size[v] + 1
        BY <1>1, <1>2
    <2>2. i = size[v] + 1 => i - size[v] = 1
        BY <1>2
    <2> QED BY <1>1, <1>2, <1>3, <1>4, <2>1, <2>2
<1>6. s \in Seq(Cells) /\ Len(s) = capacity[v] /\ size[v] + 1 <= capacity[v]
    BY <1>2, <1>3, <1>4
<1> QED BY <1>5, <1>6 DEF s

\* The slow path: the new element first, and then the old ones in front of it.
LEMMA SlowPathCells ==
    ASSUME Inv, NEW v \in Vectors, NEW x \in Cells, x # Raw, size[v] < MaxSize, is_full(v)
    PROVE  LET s == Moved(storage[v], size[v], WithNewElement(v, x))
               c == new_capacity(capacity[v])
           IN  /\ s \in Seq(Cells) /\ Len(s) = c /\ c \in Nat /\ size[v] + 1 <= c
               /\ \A i \in 1..c :
                     s[i] = IF i <= size[v] THEN storage[v][i]
                            ELSE IF i = size[v] + 1 THEN x ELSE Raw
<1> DEFINE c == new_capacity(capacity[v])
           z == size[v]
           raw == allocate_helper(c)
           new == WithNewElement(v, x)
           s == Moved(storage[v], z, new)
           xs == <<x>>
<1>1. xs \in Seq(Cells) /\ Len(xs) = 1 /\ xs[1] = x
    BY OneCell
<1>2. new = Put(raw, z, xs)
    BY DEF WithNewElement
<1> HIDE DEF xs
<1>3. /\ storage[v] \in Seq(Cells) /\ Len(storage[v]) = z /\ z = capacity[v] /\ z \in Nat
    BY VectorFacts DEF Inv, is_full
<1>4. c \in Nat /\ z + 1 <= c
    BY <1>3, GrownCapacity
<1> HIDE DEF c, z
<1>5. raw \in Seq(Cells) /\ Len(raw) = c /\ \A i \in 1..c : raw[i] = Raw
    BY <1>4, AllocateCells
<1> HIDE DEF raw, new
<1>6. /\ new \in Seq(Cells) /\ Len(new) = c
      /\ \A i \in 1..c : new[i] = IF z < i /\ i <= z + Len(xs) THEN xs[i - z] ELSE raw[i]
    BY <1>1, <1>2, <1>3, <1>5, PutCells
<1>7. ASSUME NEW i \in 1..c
      PROVE  new[i] = IF i = z + 1 THEN x ELSE Raw
    <2>1. z < i /\ i <= z + Len(xs) <=> i = z + 1
        BY <1>1, <1>3, <1>4
    <2>2. i = z + 1 => i - z = 1
        BY <1>3
    <2> QED BY <1>1, <1>5, <1>6, <2>1, <2>2
<1>8. /\ s \in Seq(Cells) /\ Len(s) = c
      /\ \A i \in 1..c : s[i] = IF i <= z THEN storage[v][i] ELSE new[i]
    <2>1. z <= Len(new) /\ z <= Len(storage[v])
        BY <1>3, <1>4, <1>6
    <2> QED BY <1>3, <1>6, <2>1, MovedCells
<1> HIDE DEF s
<1>9. \A i \in 1..c : s[i] = IF i <= z THEN storage[v][i] ELSE IF i = z + 1 THEN x ELSE Raw
    BY <1>7, <1>8
<1> QED BY <1>4, <1>8, <1>9 DEF s, c, z, new

LEMMA FastPathOutcome ==
    ASSUME Inv, NEW v \in Vectors, NEW x \in Arguments(v), size[v] < Room(v), ~is_full(v),
           push_back_fast_path(v, x)
    PROVE  Outcome
<1> DEFINE s == Put(storage[v], size[v], <<x>>)
           n == size[v] + 1
<1>1. Returns([op |-> "push", v |-> v, x |-> x]) /\ Install(v, s, capacity[v], n)
    BY DEF push_back_fast_path
<1>2. kind' = kind /\ ElementsSurvive
    BY <1>1, ReturnsFacts
<1>3. x \in Cells /\ x # Raw
    BY <1>2, ArgumentFacts
<1>4. /\ storage[v] \in Seq(Cells) /\ Len(storage[v]) = capacity[v] /\ capacity[v] \in Capacities
      /\ size[v] \in Nat /\ capacity[v] \in Nat
    BY VectorFacts DEF Inv
<1>5. /\ s \in Seq(Cells) /\ Len(s) = capacity[v] /\ n <= capacity[v]
      /\ \A i \in 1..capacity[v] : s[i] = IF i = n THEN x ELSE storage[v][i]
    BY <1>3, FastPathCells
<1>6. n \in Sizes
    BY <1>4, RoomBound, BoundFacts DEF Sizes
<1> HIDE DEF s
<1>7. ASSUME ~MayThrow
      PROVE  FilledTo(s, n)
    <2>1. FilledTo(storage[v], size[v])
        BY <1>7, FilledNow
    <2> QED BY <1>3, <1>4, <1>5, <2>1 DEF FilledTo
<1>8. Kept(storage[v], size[v])
    BY KeptNow DEF Inv
<1>9. Kept(s, n)
    BY <1>4, <1>5, <1>8 DEF Kept
<1>10. Shape' /\ ElementsExactly' /\ Stranded' \subseteq Stranded
    <2> HIDE DEF n
    <2> QED BY <1>1, <1>2, <1>4, <1>5, <1>6, <1>7, <1>9, Installed DEF Inv
<1> DEFINE gap == Slice(storage[v], size[v], n)
<1>11. gap \in Seq(Cells) /\ Len(gap) = 1 /\ gap[1] = storage[v][n]
    <2>1. size[v] <= n /\ n <= Len(storage[v]) /\ n - size[v] = 1 /\ n \in Nat
        BY <1>4, <1>5
    <2>2. /\ gap \in Seq(Cells) /\ Len(gap) = n - size[v]
          /\ \A i \in 1..(n - size[v]) : gap[i] = storage[v][size[v] + i]
        BY <1>4, <2>1, SliceCells
    <2>3. 1 \in 1..(n - size[v]) /\ size[v] + 1 = n
        BY <2>1
    <2> QED BY <2>1, <2>2, <2>3
<1>12. spilled' = ObjectsIn(gap)
    BY DEF push_back_fast_path
<1> HIDE DEF gap
<1>13. spilled' \subseteq Stranded
    <2>1. n \in 1..Len(storage[v]) /\ n > size[v]
        BY <1>4, <1>5
    <2>2. \A i \in 1..Len(gap) : gap[i] # Raw => gap[i] \in Stranded
        BY <1>11, <1>8, <2>1 DEF Kept
    <2> QED BY <1>11, <1>12, <2>2, KeptCells
<1> QED BY <1>1, <1>10, <1>11, <1>12, <1>13, SpilledObjects, Returned

LEMMA SlowPathOutcome ==
    ASSUME Inv, NEW v \in Vectors, NEW x \in Arguments(v), size[v] < Room(v), is_full(v),
           push_back_slow_path(v, x)
    PROVE  Outcome
<1> DEFINE s == Moved(storage[v], size[v], WithNewElement(v, x))
           n == size[v] + 1
           c == new_capacity(capacity[v])
<1>1. Returns([op |-> "push", v |-> v, x |-> x]) /\ Install(v, s, c, n)
    BY DEF push_back_slow_path
<1>2. kind' = kind /\ ElementsSurvive
    BY <1>1, ReturnsFacts
<1>3. x \in Cells /\ x # Raw
    BY <1>2, ArgumentFacts
<1>4. /\ storage[v] \in Seq(Cells) /\ Len(storage[v]) = capacity[v]
      /\ size[v] \in Nat /\ size[v] = capacity[v]
    BY VectorFacts DEF Inv, is_full
<1>5. size[v] < MaxSize
    BY <1>4, RoomBound, BoundFacts
<1>6. /\ s \in Seq(Cells) /\ Len(s) = c /\ n <= c /\ c \in Nat
      /\ \A i \in 1..c :
            s[i] = IF i <= size[v] THEN storage[v][i] ELSE IF i = n THEN x ELSE Raw
    BY <1>3, <1>5, SlowPathCells
<1>7. n \in Sizes /\ c \in Capacities
    BY <1>4, <1>5, GrownCapacity
<1> HIDE DEF s, c
<1>8. ASSUME ~MayThrow
      PROVE  FilledTo(s, n)
    <2>1. FilledTo(storage[v], size[v])
        BY <1>8, FilledNow
    <2> QED BY <1>3, <1>4, <1>6, <2>1 DEF FilledTo
<1>9. Kept(s, n)
    BY <1>4, <1>6 DEF Kept
<1>10. Shape' /\ ElementsExactly' /\ Stranded' \subseteq Stranded
    <2> HIDE DEF n
    <2> QED BY <1>1, <1>2, <1>6, <1>7, <1>8, <1>9, Installed DEF Inv
<1> DEFINE old == Taken(storage[v], 0, size[v])
<1>11. /\ old \in Seq(Cells) /\ Len(old) = size[v]
       /\ NothrowMove => \A i \in 1..size[v] : old[i] = Husk
    <2>1. /\ old \in Seq(Cells) /\ Len(old) = Len(storage[v])
          /\ \A i \in 1..Len(storage[v]) :
                old[i] = IF NothrowMove /\ 0 < i /\ i <= size[v] THEN Husk ELSE storage[v][i]
        BY <1>4, TakenCells
    <2> QED BY <1>4, <2>1
<1>12. spilled' = ObjectsIn(old)
    BY DEF push_back_slow_path, Deallocate
<1> HIDE DEF old
<1>13. NothrowMove => spilled' \subseteq {Husk}
    BY <1>11, <1>12, ObjectsInCells
<1> QED BY <1>1, <1>10, <1>11, <1>12, <1>13, SpilledObjects, Returned

LEMMA CopyOldStorageThrowsOutcome ==
    ASSUME Inv, NEW v \in Vectors, NEW x \in Arguments(v), size[v] < Room(v), is_full(v),
           CopyOldStorageThrows(v, x)
    PROVE  Outcome
<1>1. MayThrow /\ ~NothrowMove
    BY DEF CopyOldStorageThrows
<1>2. /\ storage[v] \in Seq(Cells) /\ Len(storage[v]) = capacity[v]
      /\ size[v] \in Nat /\ size[v] = capacity[v]
    BY VectorFacts DEF Inv, is_full
<1>3. CASE /\ Install(v, allocate_helper(new_capacity(capacity[v])),
                     new_capacity(capacity[v]), size[v] + 1)
           /\ Deallocate(storage[v])
           /\ Swallows(TRUE, [op |-> "push", v |-> v, x |-> x])
    <2> DEFINE c == new_capacity(capacity[v])
               n == size[v] + 1
               s == allocate_helper(c)
    <2>1. size[v] < MaxSize
        BY <1>2, RoomBound, BoundFacts
    <2>2. n \in Sizes /\ c \in Capacities /\ n <= c /\ c \in Nat
        BY <1>2, <2>1, GrownCapacity
    <2>3. s \in Seq(Cells) /\ Len(s) = c /\ \A i \in 1..c : s[i] = Raw
        BY <2>2, AllocateCells
    <2>4. kind' = kind /\ propagated' = FALSE /\ thrown' = TRUE
        BY <1>3, EndsFacts DEF Swallows
    <2>5. Install(v, s, c, n)
        BY <1>3
    <2> HIDE DEF c, s, n
    <2>6. Kept(s, n)
        BY <2>3 DEF Kept
    <2>7. Shape' /\ ElementsExactly' /\ Stranded' \subseteq Stranded
        BY <1>1, <2>2, <2>3, <2>4, <2>5, <2>6, Installed DEF Inv
    <2>8. spilled' \subseteq Objects
        BY <1>2, <1>3, SpilledObjects DEF Deallocate
    <2> QED BY <1>1, <2>4, <2>7, <2>8 DEF Outcome, Ending
<1>4. CASE UNCHANGED <<storage, size, capacity>> /\ spilled' = {x} /\ Throws
    <2>1. kind' = kind /\ ElementsSurvive
        BY <1>4, ThrowsFacts
    <2>2. Shape' /\ ElementsExactly' /\ ElementsSurvive'
        BY <1>4, <2>1, NothingInstalled DEF Inv
    <2>3. spilled' \subseteq Objects
        BY <1>4, <2>1, ArgumentFacts
    <2> QED BY <1>1, <1>4, <2>2, <2>3, Thrown
<1> QED BY <1>3, <1>4 DEF CopyOldStorageThrows

LEMMA push_backOutcome ==
    ASSUME Inv, NEW v \in Vectors, NEW x \in Arguments(v), push_back(v, x)
    PROVE  Outcome
<1>1. size[v] < Room(v)
    BY DEF push_back
<1>2. CASE is_full(v)
    BY <1>1, <1>2, SlowPathOutcome, CopyOldStorageThrowsOutcome DEF push_back
<1>3. CASE ~is_full(v)
    BY <1>1, <1>3, FastPathOutcome DEF push_back
<1> QED BY <1>2, <1>3

-----------------------------------------------------------------------------
(* The size and the capacity *)

\* reserve keeps the elements, and what it leaves behind it has destroyed.
LEMMA ReservedCells ==
    ASSUME Inv, NEW v \in Vectors, NEW n \in Nat, n <= MaxSize
    PROVE  /\ Reserved(v, n) \in Seq(Cells) /\ Len(Reserved(v, n)) = CapacityReserved(v, n)
           /\ CapacityReserved(v, n) \in Capacities /\ CapacityReserved(v, n) \in Nat
           /\ n <= CapacityReserved(v, n) /\ size[v] <= CapacityReserved(v, n)
           /\ \A i \in 1..size[v] : Reserved(v, n)[i] = storage[v][i]
           /\ ~MayThrow => FilledTo(Reserved(v, n), size[v])
           /\ Kept(Reserved(v, n), size[v])
           /\ SpilledByReserve(v, n) \subseteq Objects
           /\ SpilledByReserve(v, n) \subseteq Stranded
<1>1. /\ storage[v] \in Seq(Cells) /\ Len(storage[v]) = capacity[v] /\ capacity[v] \in Capacities
      /\ size[v] \in Nat /\ capacity[v] \in Nat /\ size[v] <= capacity[v]
    BY VectorFacts DEF Inv
<1>2. Kept(storage[v], size[v])
    BY KeptNow DEF Inv
<1>3. CASE n <= capacity[v]
    <2>1. /\ Reserved(v, n) = storage[v] /\ CapacityReserved(v, n) = capacity[v]
          /\ SpilledByReserve(v, n) = {}
        BY <1>3 DEF Reserved, CapacityReserved, SpilledByReserve
    <2>2. ~MayThrow => FilledTo(storage[v], size[v])
        BY FilledNow
    <2> QED BY <1>1, <1>3, <1>2, <2>1, <2>2
<1>4. CASE ~(n <= capacity[v])
    <2> DEFINE s == Reallocated(storage[v], size[v], n)
               old == Leftover(storage[v], size[v])
    <2>1. /\ Reserved(v, n) = s /\ CapacityReserved(v, n) = n
          /\ SpilledByReserve(v, n) = ObjectsIn(old)
        BY <1>4 DEF Reserved, CapacityReserved, SpilledByReserve
    <2>2. size[v] <= n /\ size[v] <= Len(storage[v])
        BY <1>1, <1>4
    <2>3. /\ s \in Seq(Cells) /\ Len(s) = n
          /\ \A i \in 1..n : s[i] = IF i <= size[v] THEN storage[v][i] ELSE Raw
        <3> DEFINE mem == storage[v]
                   z == size[v]
        <3>1. mem \in Seq(Cells) /\ z \in Nat /\ z <= n /\ z <= Len(mem)
            BY <1>1, <2>2
        <3> HIDE DEF mem, z
        <3>2. /\ Reallocated(mem, z, n) \in Seq(Cells) /\ Len(Reallocated(mem, z, n)) = n
              /\ \A i \in 1..n : Reallocated(mem, z, n)[i] = IF i <= z THEN mem[i] ELSE Raw
            BY <3>1, ReallocatedCells
        <3> QED BY <3>2 DEF mem, z
    <2>4. /\ old \in Seq(Cells) /\ Len(old) = Len(storage[v])
          /\ \A i \in 1..Len(storage[v]) : old[i] = IF i <= size[v] THEN Raw ELSE storage[v][i]
        BY <1>1, <2>2, LeftoverCells
    <2> HIDE DEF s, old
    <2>5. ASSUME ~MayThrow
          PROVE  FilledTo(s, size[v])
        <3>1. FilledTo(storage[v], size[v])
            BY <2>5, FilledNow
        <3> QED BY <1>1, <2>2, <2>3, <3>1 DEF FilledTo
    <2>6. n \in Capacities
        BY WithinCapacities
    <2>7. \A i \in 1..size[v] : s[i] = storage[v][i]
        BY <1>1, <2>2, <2>3
    <2>8. ObjectsIn(old) \subseteq Objects
        BY <2>4, SpilledObjects
    <2>9. Kept(s, size[v])
        BY <1>1, <2>3 DEF Kept
    <2>10. ObjectsIn(old) \subseteq Stranded
        <3>1. \A i \in 1..Len(old) : old[i] # Raw => old[i] \in Stranded
            BY <1>1, <1>2, <2>4 DEF Kept
        <3> QED BY <2>4, <3>1, KeptCells
    <2> QED BY <2>1, <2>2, <2>3, <2>5, <2>6, <2>7, <2>8, <2>9, <2>10
<1> QED BY <1>3, <1>4

LEMMA pop_backOutcome ==
    ASSUME Inv, NEW v \in Vectors, pop_back(v)
    PROVE  Outcome
<1> DEFINE n == size[v] - 1
           s == destroy(storage[v], n, size[v])
<1>1. /\ storage[v] \in Seq(Cells) /\ Len(storage[v]) = capacity[v] /\ capacity[v] \in Capacities
      /\ size[v] \in Nat /\ capacity[v] \in Nat /\ size[v] <= capacity[v] /\ size[v] <= MaxSize
    BY VectorFacts DEF Inv
<1>2. n \in Nat /\ n < size[v] /\ n \in Sizes
    BY <1>1, BoundFacts DEF pop_back, Sizes
<1>3. /\ s \in Seq(Cells) /\ Len(s) = capacity[v]
      /\ \A i \in 1..capacity[v] : s[i] = IF n < i /\ i <= size[v] THEN Raw ELSE storage[v][i]
    BY <1>1, <1>2, DestroyCells
<1>4. Install(v, s, Len(s), n) /\ spilled' = {} /\ Returns([op |-> "pop", v |-> v])
    BY <1>3 DEF pop_back
<1> HIDE DEF s
<1>5. ASSUME ~MayThrow
      PROVE  FilledTo(s, n)
    <2>1. FilledTo(storage[v], size[v])
        BY <1>5, FilledNow
    <2> QED BY <1>1, <1>2, <1>3, <2>1 DEF FilledTo
<1>6. Kept(s, n)
    <2>1. Kept(storage[v], size[v])
        BY KeptNow DEF Inv
    <2> QED BY <1>1, <1>2, <1>3, <2>1 DEF Kept
<1>7. kind' = kind
    BY <1>4, ReturnsFacts
<1>8. n <= Len(s) /\ Len(s) \in Capacities
    BY <1>1, <1>2, <1>3
<1> HIDE DEF n
<1>9. Shape' /\ ElementsExactly' /\ Stranded' \subseteq Stranded
    BY <1>2, <1>3, <1>4, <1>5, <1>7, <1>8, <1>6, Installed DEF Inv
<1> QED BY <1>4, <1>9, Returned

LEMMA shrink_to_fitOutcome ==
    ASSUME Inv, NEW v \in Vectors, shrink_to_fit(v)
    PROVE  Outcome
<1> DEFINE n == size[v]
           s == Reallocated(storage[v], n, n)
           old == Leftover(storage[v], n)
<1>1. /\ storage[v] \in Seq(Cells) /\ Len(storage[v]) = capacity[v]
      /\ n \in Nat /\ n \in Sizes /\ capacity[v] \in Nat /\ n <= capacity[v] /\ n <= MaxSize
    BY VectorFacts DEF Inv
<1>2. n \in Capacities
    BY <1>1, WithinCapacities
<1>3. Install(v, s, n, n) /\ spilled' = ObjectsIn(old) /\ Returns([op |-> "storage"])
    BY DEF shrink_to_fit, Deallocate
<1> HIDE DEF n
<1>4. /\ s \in Seq(Cells) /\ Len(s) = n
      /\ \A i \in 1..n : s[i] = IF i <= n THEN storage[v][i] ELSE Raw
    <2>1. storage[v] \in Seq(Cells) /\ n \in Nat /\ n <= Len(storage[v]) /\ n <= n
        BY <1>1
    <2> QED BY <2>1, ReallocatedCells
<1>5. /\ old \in Seq(Cells) /\ Len(old) = Len(storage[v])
      /\ \A i \in 1..Len(storage[v]) : old[i] = IF i <= n THEN Raw ELSE storage[v][i]
    BY <1>1, LeftoverCells
<1> HIDE DEF s, old
<1>6. ASSUME ~MayThrow
      PROVE  FilledTo(s, n)
    <2>1. FilledTo(storage[v], n)
        BY <1>6, FilledNow DEF n
    <2> QED BY <1>1, <1>4, <2>1 DEF FilledTo
<1>7. Kept(s, n)
    BY <1>1, <1>4 DEF Kept
<1>8. ObjectsIn(old) \subseteq Stranded
    <2>1. Kept(storage[v], n)
        BY KeptNow DEF Inv, n
    <2>2. \A i \in 1..Len(old) : old[i] # Raw => old[i] \in Stranded
        BY <1>1, <1>5, <2>1 DEF Kept
    <2> QED BY <1>5, <2>2, KeptCells
<1>9. kind' = kind
    BY <1>3, ReturnsFacts
<1>10. Shape' /\ ElementsExactly' /\ Stranded' \subseteq Stranded
    BY <1>1, <1>2, <1>3, <1>4, <1>6, <1>9, <1>7, Installed DEF Inv
<1>11. spilled' \subseteq Objects /\ spilled' \subseteq Stranded
    BY <1>3, <1>5, <1>8, SpilledObjects
<1> QED BY <1>3, <1>10, <1>11, Returned

LEMMA reserveOutcome ==
    ASSUME Inv, NEW v \in Vectors, NEW n \in 0..Room(v), reserve(v, n)
    PROVE  Outcome
<1> DEFINE s == Reserved(v, n)
           c == CapacityReserved(v, n)
           z == size[v]
<1>1. n \in Nat /\ n <= MaxSize
    BY RoomBound, BoundFacts
<1>2. z \in Nat /\ z \in Sizes
    BY VectorFacts DEF Inv
<1>3. /\ s \in Seq(Cells) /\ Len(s) = c /\ c \in Capacities /\ z <= c
      /\ (~MayThrow => FilledTo(s, z)) /\ Kept(s, z)
      /\ SpilledByReserve(v, n) \subseteq Objects /\ SpilledByReserve(v, n) \subseteq Stranded
    BY <1>1, ReservedCells
<1>4. /\ Install(v, s, c, z) /\ spilled' = SpilledByReserve(v, n)
      /\ Returns([op |-> "storage"])
    BY DEF reserve
<1> HIDE DEF s, c, z
<1>5. kind' = kind
    BY <1>4, ReturnsFacts
<1>6. Shape' /\ ElementsExactly' /\ Stranded' \subseteq Stranded
    BY <1>2, <1>3, <1>4, <1>5, Installed DEF Inv
<1> QED BY <1>3, <1>4, <1>6, Returned

\* resize to more elements puts defaults behind the old ones.
LEMMA DefaultedCells ==
    ASSUME Inv, NEW v \in Vectors, NEW n \in Nat, n <= MaxSize, size[v] < n
    PROVE  LET s == Put(Reserved(v, n), size[v], [i \in 1..(n - size[v]) |-> Default])
           IN  /\ s \in Seq(Cells) /\ Len(s) = CapacityReserved(v, n)
               /\ \A i \in 1..Len(s) :
                     s[i] = IF size[v] < i /\ i <= n THEN Default ELSE Reserved(v, n)[i]
<1> DEFINE r == Reserved(v, n)
           z == size[v]
           xs == [i \in 1..(n - z) |-> Default]
           s == Put(r, z, xs)
<1>1. z \in Nat
    BY VectorFacts DEF Inv
<1>2. r \in Seq(Cells) /\ Len(r) = CapacityReserved(v, n) /\ Len(r) \in Nat
    BY ReservedCells
<1> HIDE DEF z, r
<1>3. z < n
    BY DEF z
<1>4. n - z \in Nat
    BY <1>1, <1>3
<1>5. xs \in Seq(Cells) /\ Len(xs) = n - z /\ \A i \in 1..(n - z) : xs[i] = Default
    <2>1. xs \in [1..(n - z) -> Cells]
        BY CellFacts
    <2> QED BY <1>4, <2>1, SeqOfCells
<1> HIDE DEF xs
<1>6. /\ s \in Seq(Cells) /\ Len(s) = Len(r)
      /\ \A i \in 1..Len(r) : s[i] = IF z < i /\ i <= z + Len(xs) THEN xs[i - z] ELSE r[i]
    BY <1>1, <1>2, <1>5, PutCells
<1> HIDE DEF s
<1>7. ASSUME NEW i \in 1..Len(s)
      PROVE  s[i] = IF z < i /\ i <= n THEN Default ELSE r[i]
    <2>1. i <= z + Len(xs) <=> i <= n
        BY <1>1, <1>2, <1>4, <1>5, <1>6
    <2>2. z < i /\ i <= n => i - z \in 1..(n - z)
        BY <1>1, <1>2, <1>6
    <2> QED BY <1>5, <1>6, <2>1, <2>2
<1> QED BY <1>2, <1>6, <1>7 DEF s, xs, z, r

LEMMA resizeOutcome ==
    ASSUME Inv, NEW v \in Vectors, NEW n \in 0..Room(v), resize(v, n)
    PROVE  Outcome
<1>1. n \in Nat /\ n <= MaxSize /\ n \in Sizes
    <2>1. n \in Nat /\ n <= MaxSize
        BY RoomBound, BoundFacts
    <2> QED BY <2>1, WithinCapacities
<1>2. /\ storage[v] \in Seq(Cells) /\ Len(storage[v]) = capacity[v] /\ capacity[v] \in Capacities
      /\ size[v] \in Nat /\ capacity[v] \in Nat /\ size[v] <= capacity[v]
    BY VectorFacts DEF Inv
<1>3. kind' = kind /\ Returns([op |-> "resize", v |-> v, n |-> n])
    BY ReturnsFacts DEF resize
<1>4. CASE n <= size[v]
    <2> DEFINE s == destroy(storage[v], n, size[v])
    <2>1. /\ s \in Seq(Cells) /\ Len(s) = capacity[v]
          /\ \A i \in 1..capacity[v] : s[i] = IF n < i /\ i <= size[v] THEN Raw ELSE storage[v][i]
        <3> DEFINE mem == storage[v]
                   z == size[v]
        <3>1. mem \in Seq(Cells) /\ z \in Nat /\ n \in Nat /\ Len(mem) = capacity[v]
            BY <1>1, <1>2
        <3> HIDE DEF mem, z
        <3>2. /\ destroy(mem, n, z) \in Seq(Cells) /\ Len(destroy(mem, n, z)) = Len(mem)
              /\ \A i \in 1..Len(mem) :
                    destroy(mem, n, z)[i] = IF n < i /\ i <= z THEN Raw ELSE mem[i]
            BY <3>1, DestroyCells
        <3> QED BY <3>1, <3>2 DEF mem, z
    <2>2. Install(v, s, Len(s), n) /\ spilled' = {}
        BY <1>4, <2>1 DEF resize
    <2> HIDE DEF s
    <2>3. ASSUME ~MayThrow
          PROVE  FilledTo(s, n)
        <3>1. FilledTo(storage[v], size[v])
            BY <2>3, FilledNow
        <3> QED BY <1>1, <1>2, <1>4, <2>1, <3>1 DEF FilledTo
    <2>4. n <= Len(s) /\ Len(s) \in Capacities
        BY <1>1, <1>2, <1>4, <2>1
    <2>5. Kept(s, n)
        <3>1. Kept(storage[v], size[v])
            BY KeptNow DEF Inv
        <3> QED BY <1>1, <1>2, <1>4, <2>1, <3>1 DEF Kept
    <2>6. Shape' /\ ElementsExactly' /\ Stranded' \subseteq Stranded
        BY <1>1, <1>3, <2>1, <2>2, <2>3, <2>4, <2>5, Installed DEF Inv
    <2> QED BY <1>3, <2>2, <2>6, Returned
<1>5. CASE ~(n <= size[v])
    <2> DEFINE r == Reserved(v, n)
               s == Put(r, size[v], [i \in 1..(n - size[v]) |-> Default])
               gap == Slice(r, size[v], n)
               c == CapacityReserved(v, n)
    <2>1. /\ r \in Seq(Cells) /\ Len(r) = c /\ c \in Capacities /\ n <= c /\ c \in Nat
          /\ (~MayThrow => FilledTo(r, size[v])) /\ Kept(r, size[v])
          /\ SpilledByReserve(v, n) \subseteq Objects /\ SpilledByReserve(v, n) \subseteq Stranded
        BY <1>1, ReservedCells
    <2>2. size[v] < n
        BY <1>1, <1>2, <1>5
    <2>3. /\ s \in Seq(Cells) /\ Len(s) = c
          /\ \A i \in 1..Len(s) : s[i] = IF size[v] < i /\ i <= n THEN Default ELSE r[i]
        BY <1>1, <2>2, DefaultedCells
    <2>4. /\ Install(v, s, c, n)
          /\ spilled' = SpilledByReserve(v, n) \cup ObjectsIn(gap)
        BY <1>5 DEF resize
    <2> HIDE DEF r, s, c
    <2>5. /\ gap \in Seq(Cells) /\ Len(gap) = n - size[v]
          /\ \A i \in 1..(n - size[v]) : gap[i] = r[size[v] + i]
        <3> DEFINE z == size[v]
        <3>1. r \in Seq(Cells) /\ z \in Nat /\ n \in Nat /\ z <= n /\ n <= Len(r)
            BY <1>1, <1>2, <2>1, <2>2
        <3> HIDE DEF z
        <3>2. /\ Slice(r, z, n) \in Seq(Cells) /\ Len(Slice(r, z, n)) = n - z
              /\ \A i \in 1..(n - z) : Slice(r, z, n)[i] = r[z + i]
            BY <3>1, SliceCells
        <3> QED BY <3>2 DEF z
    <2> HIDE DEF gap
    <2>6. ASSUME ~MayThrow
          PROVE  FilledTo(s, n)
        <3>1. FilledTo(r, size[v]) /\ Default # Raw
            BY <2>1, <2>6, CellFacts
        <3> QED BY <1>1, <1>2, <2>1, <2>2, <2>3, <3>1 DEF FilledTo
    <2>7. Kept(s, n)
        BY <1>1, <1>2, <2>1, <2>2, <2>3 DEF Kept
    <2>8. ObjectsIn(gap) \subseteq Stranded
        <3>1. \A i \in 1..(n - size[v]) : size[v] + i \in 1..Len(r) /\ size[v] + i > size[v]
            BY <1>1, <1>2, <2>1, <2>2
        <3>2. \A i \in 1..Len(gap) : gap[i] # Raw => gap[i] \in Stranded
            BY <2>1, <2>5, <3>1 DEF Kept
        <3> QED BY <2>5, <3>2, KeptCells
    <2>9. Shape' /\ ElementsExactly' /\ Stranded' \subseteq Stranded
        BY <1>1, <1>3, <2>1, <2>3, <2>4, <2>6, <2>7, Installed DEF Inv
    <2>10. spilled' \subseteq Objects /\ spilled' \subseteq Stranded
        BY <2>1, <2>4, <2>5, <2>8, SpilledObjects
    <2> QED BY <1>3, <2>9, <2>10, Returned
<1> QED BY <1>4, <1>5

LEMMA ResizeThrowsOutcome ==
    ASSUME Inv, NEW v \in Vectors, NEW n \in 0..Room(v), ResizeThrows(v, n)
    PROVE  Outcome
<1> DEFINE s == Reserved(v, n)
           c == CapacityReserved(v, n)
           z == size[v]
<1>1. n \in Nat /\ n <= MaxSize
    BY RoomBound, BoundFacts
<1>2. z \in Nat /\ z \in Sizes
    BY VectorFacts DEF Inv
<1>3. /\ s \in Seq(Cells) /\ Len(s) = c /\ c \in Capacities /\ z <= c
      /\ \A i \in 1..z : s[i] = storage[v][i]
      /\ (~MayThrow => FilledTo(s, z)) /\ SpilledByReserve(v, n) \subseteq Objects
      /\ SpilledByReserve(v, n) \subseteq Stranded
    BY <1>1, ReservedCells
<1>4. Install(v, s, c, z) /\ spilled' = SpilledByReserve(v, n) /\ Throws
    BY DEF ResizeThrows
<1>5. kind' = kind /\ ElementsSurvive
    BY <1>4, ThrowsFacts
<1>6. Intact(s, z)
    <2>1. Intact(storage[v], z)
        BY <1>5, Survival DEF Inv
    <2> HIDE DEF s, z
    <2> QED BY <1>3, <2>1 DEF Intact
<1> HIDE DEF s, c, z
<1>7. Shape' /\ ElementsExactly' /\ ElementsSurvive'
    BY <1>2, <1>3, <1>4, <1>5, <1>6, Installed DEF Inv
<1> QED BY <1>3, <1>4, <1>7, Thrown

-----------------------------------------------------------------------------
(* insert's outcome *)

\* The range to insert, and how many elements it has.
LEMMA RangeCells ==
    ASSUME Inv, NEW w \in Vectors, NEW l \in 0..size[w], NEW f \in 0..l
    PROVE  /\ l - f \in Nat /\ l \in Nat /\ f \in Nat /\ f <= l
           /\ Slice(storage[w], f, l) \in Seq(Cells) /\ Len(Slice(storage[w], f, l)) = l - f
           /\ \A i \in 1..(l - f) : Slice(storage[w], f, l)[i] = storage[w][f + i]
           /\ ElementsSurvive => Intact(Slice(storage[w], f, l), l - f)
<1>1. /\ storage[w] \in Seq(Cells) /\ size[w] \in Nat /\ size[w] <= Len(storage[w])
      /\ Len(storage[w]) \in Nat
    BY VectorFacts DEF Inv
<1>2. l \in Nat /\ f \in Nat /\ f <= l /\ l <= size[w] /\ l <= Len(storage[w]) /\ l - f \in Nat
    BY <1>1
<1>3. /\ Slice(storage[w], f, l) \in Seq(Cells) /\ Len(Slice(storage[w], f, l)) = l - f
      /\ \A i \in 1..(l - f) : Slice(storage[w], f, l)[i] = storage[w][f + i]
    BY <1>1, <1>2, SliceCells
<1>4. ASSUME ElementsSurvive
      PROVE  Intact(Slice(storage[w], f, l), l - f)
    <2>1. Intact(storage[w], size[w])
        BY <1>4, Survival DEF Inv
    <2>2. \A i \in 1..(l - f) : f + i \in 1..size[w]
        BY <1>1, <1>2
    <2> QED BY <1>3, <2>1, <2>2 DEF Intact
<1> QED BY <1>2, <1>3, <1>4

\* The temporary holds the range, or, if its copies may throw, the range with raw memory
\* in front.
LEMMA TempCells ==
    ASSUME NEW v, NEW w, NEW range \in Seq(Cells), NEW items \in temp(v, w, range)
    PROVE  /\ items \in Seq(Cells) /\ Len(items) = Len(range)
           /\ ~MayThrow => items = range
<1>1. CASE items = range
    BY <1>1
<1>2. CASE items # range
    <2>1. MayThrow /\ \E c \in GrewAt(Len(range)) :
              items = [i \in DOMAIN range |-> IF i <= c + 1 THEN Raw ELSE range[i]]
        BY <1>2 DEF temp
    <2>2. PICK c : items = [i \in DOMAIN range |-> IF i <= c + 1 THEN Raw ELSE range[i]]
        BY <2>1
    <2>3. DOMAIN range = 1..Len(range) /\ Len(range) \in Nat /\ \A i \in 1..Len(range) : range[i] \in Cells
        OBVIOUS
    <2>4. items \in [1..Len(range) -> Cells]
        BY <2>2, <2>3, CellFacts
    <2>5. items \in Seq(Cells) /\ Len(items) = Len(range)
        BY <2>3, <2>4, SeqOfCells
    <2> QED BY <2>1, <2>5
<1> QED BY <1>1, <1>2

LEMMA TempSpills ==
    ASSUME NEW v, NEW w, NEW range \in Seq(Cells), Intact(range, Len(range))
    PROVE  /\ SpilledByTemp(v, w, range) \subseteq Objects
           /\ NothrowMove => SpilledByTemp(v, w, range) \subseteq {Husk}
<1>1. DOMAIN range = 1..Len(range) /\ \A i \in 1..Len(range) : range[i] \in Objects
    BY CellFacts DEF Intact
<1>2. CASE v # w
    BY <1>2 DEF SpilledByTemp
<1>3. CASE v = w
    <2> DEFINE Old == {j \in DOMAIN range : \E c \in GrewAt(Len(range)) : j <= c}
    <2>1. SpilledByTemp(v, w, range) = {IF NothrowMove THEN Husk ELSE range[i] : i \in Old}
        BY <1>3 DEF SpilledByTemp
    <2>2. \A i \in Old : i \in 1..Len(range)
        BY <1>1
    <2> HIDE DEF Old
    <2> QED BY <1>1, <2>1, <2>2, CellFacts
<1> QED BY <1>2, <1>3

\* What insert builds over in the cells behind the elements was stranded there.
LEMMA BuiltOverCells ==
    ASSUME Inv, NEW v \in Vectors, NEW n \in Nat, size[v] + n <= MaxSize
    PROVE  BuiltOver(v, n) \subseteq Objects /\ BuiltOver(v, n) \subseteq Stranded
<1> DEFINE z == size[v]
           s == Reserved(v, z + n)
           gap == Slice(s, z, z + n)
<1>1. z \in Nat /\ z + n \in Nat
    BY VectorFacts DEF Inv
<1>2. s \in Seq(Cells) /\ z + n <= Len(s) /\ Kept(s, z)
    BY <1>1, ReservedCells
<1>3. BuiltOver(v, n) = ObjectsIn(gap)
    BY DEF BuiltOver
<1> HIDE DEF z, s
<1>4. /\ gap \in Seq(Cells) /\ Len(gap) = (z + n) - z
      /\ \A i \in 1..((z + n) - z) : gap[i] = s[z + i]
    <2> DEFINE to == z + n
    <2>1. to \in Nat /\ z <= to /\ to <= Len(s)
        BY <1>1, <1>2
    <2> HIDE DEF to
    <2>2. /\ Slice(s, z, to) \in Seq(Cells) /\ Len(Slice(s, z, to)) = to - z
          /\ \A i \in 1..(to - z) : Slice(s, z, to)[i] = s[z + i]
        BY <1>1, <1>2, <2>1, SliceCells
    <2> QED BY <2>2 DEF to
<1> HIDE DEF gap
<1>5. \A i \in 1..Len(gap) : gap[i] # Raw => gap[i] \in Stranded
    <2>1. \A i \in 1..((z + n) - z) : z + i \in 1..Len(s) /\ z + i > z
        BY <1>1, <1>2
    <2> QED BY <1>2, <1>4, <2>1 DEF Kept
<1> QED BY <1>3, <1>4, <1>5, KeptCells, SpilledObjects

\* The vector the range comes from may have husks for elements of the range.
LEMMA RangeAfterCells ==
    ASSUME Inv, NEW v \in Vectors, NEW w \in Vectors, NEW pos \in 0..size[v],
           NEW l \in 0..size[w], NEW f \in 0..l
    PROVE  LET tail == (l - f) - Smaller(l - f, size[v] - pos)
               s == RangeAfter(w, l, tail)
           IN  /\ s \in Seq(Cells) /\ Len(s) = Len(storage[w])
               /\ FilledTo(storage[w], size[w]) => FilledTo(s, size[w])
               /\ Intact(storage[w], size[w]) => Intact(s, size[w])
               /\ Kept(s, size[w])
<1> DEFINE n == l - f
           tail == n - Smaller(n, size[v] - pos)
           s == RangeAfter(w, l, tail)
<1>1. n \in Nat /\ l \in Nat /\ n <= l
    BY RangeCells
<1>2. /\ storage[w] \in Seq(Cells) /\ Len(storage[w]) \in Nat
      /\ size[w] \in Nat /\ l <= size[w] /\ size[w] <= Len(storage[w])
      /\ size[v] \in Nat /\ pos \in Nat /\ pos <= size[v]
    BY VectorFacts DEF Inv
<1> HIDE DEF n
<1>3. tail \in Nat /\ l - tail \in Nat
    <2>1. size[v] - pos \in Nat
        BY <1>2
    <2>2. Smaller(n, size[v] - pos) \in Nat /\ Smaller(n, size[v] - pos) <= n
        BY <1>1, <2>1, SmallerOf
    <2> QED BY <1>1, <2>2 DEF tail
<1> HIDE DEF tail
<1>4. /\ s \in Seq(Cells) /\ Len(s) = Len(storage[w])
      /\ \A i \in 1..Len(storage[w]) :
            s[i] = IF NothrowMove /\ l - tail < i /\ i <= l THEN Husk ELSE storage[w][i]
    BY <1>1, <1>2, <1>3, TakenCells DEF RangeAfter
<1> HIDE DEF s
<1>5. \A i \in 1..Len(storage[w]) : i > size[w] => ~(i <= l) /\ s[i] = storage[w][i]
    BY <1>1, <1>2, <1>4
<1>6. \A i \in 1..Len(storage[w]) : i <= size[w] => s[i] = storage[w][i] \/ s[i] # Raw
    BY <1>4, CellFacts
<1>7. FilledTo(storage[w], size[w]) => FilledTo(s, size[w])
    BY <1>2, <1>4, <1>5, <1>6 DEF FilledTo
<1>8. Intact(storage[w], size[w]) => Intact(s, size[w])
    BY <1>2, <1>6 DEF Intact
<1>9. Kept(s, size[w])
    BY <1>4, <1>5, KeptNow DEF Inv, Kept
<1> QED BY <1>4, <1>7, <1>8, <1>9 DEF s, tail, n

LEMMA InsertOutcome ==
    ASSUME Inv, NEW v \in Vectors, NEW w \in Vectors, NEW pos \in 0..size[v],
           NEW l \in 0..size[w], NEW f \in 0..l, insert(v, pos, w, f, l)
    PROVE  Outcome
<1> DEFINE n == l - f
           range == Slice(storage[w], f, l)
           z == size[v]
           tail == n - Smaller(n, z - pos)
           s == Reserved(v, z + n)
           c == CapacityReserved(v, z + n)
<1>1. PICK items \in temp(v, w, range) :
        /\ storage' = [x \in Vectors |->
                IF x = v THEN Inserted(s, z, pos, items)
                ELSE IF x = w THEN RangeAfter(w, l, tail) ELSE storage[x]]
        /\ Swallows(items # range, [op |-> "insert", v |-> v, pos |-> pos,
                                     w |-> w, f |-> f, l |-> l])
    BY DEF insert
<1>2. /\ z + n <= Room(v)
      /\ size' = [size EXCEPT ![v] = z + n] /\ capacity' = [capacity EXCEPT ![v] = c]
      /\ spilled' = SpilledByReserve(v, z + n) \cup SpilledByTemp(v, w, range) \cup BuiltOver(v, n)
    BY DEF insert
<1>3. /\ n \in Nat /\ l \in Nat /\ range \in Seq(Cells) /\ Len(range) = n
      /\ (ElementsSurvive => Intact(range, n))
    BY RangeCells
<1>4. /\ ElementsSurvive /\ kind' = kind /\ propagated' = FALSE /\ thrown' \in BOOLEAN
    BY <1>1, EndsFacts DEF Swallows
<1>5. items \in Seq(Cells) /\ Len(items) = n /\ (~MayThrow => items = range)
    BY <1>1, <1>3, TempCells
<1>6. z \in Nat /\ pos \in Nat /\ pos <= z /\ storage[w] \in Seq(Cells) /\ size[w] \in Nat /\ l <= size[w]
    BY VectorFacts DEF Inv
<1> HIDE DEF n, z, range
<1>7. z + n \in Nat /\ z + n <= MaxSize /\ z + n \in Sizes
    <2>1. z + n \in Nat /\ z + n <= MaxSize
        BY <1>2, <1>3, <1>6, RoomBound, BoundFacts
    <2> QED BY <2>1, WithinCapacities
<1>8. /\ s \in Seq(Cells) /\ Len(s) = c /\ c \in Capacities /\ c \in Nat /\ z + n <= c
      /\ (~MayThrow => FilledTo(s, z)) /\ Kept(s, z)
      /\ SpilledByReserve(v, z + n) \subseteq Objects
      /\ SpilledByReserve(v, z + n) \subseteq Stranded
    BY <1>7, ReservedCells DEF z
<1>9. BuiltOver(v, n) \subseteq Objects /\ BuiltOver(v, n) \subseteq Stranded
    BY <1>3, <1>7, BuiltOverCells DEF z
<1>10. /\ RangeAfter(w, l, tail) \in Seq(Cells) /\ Len(RangeAfter(w, l, tail)) = Len(storage[w])
       /\ FilledTo(storage[w], size[w]) => FilledTo(RangeAfter(w, l, tail), size[w])
       /\ Kept(RangeAfter(w, l, tail), size[w])
    BY RangeAfterCells DEF n, z
<1> DEFINE r == Inserted(s, z, pos, items)
<1> HIDE DEF s, c, tail
<1>11. /\ r \in Seq(Cells) /\ Len(r) = c
      /\ \A i \in 1..c :
            r[i] = IF i <= pos THEN s[i] ELSE IF i <= pos + n THEN items[i - pos]
                   ELSE IF i <= z + n THEN s[i - n] ELSE s[i]
    <2>1. /\ s \in Seq(Cells) /\ z \in Nat /\ pos \in 0..z /\ items \in Seq(Cells)
          /\ z + Len(items) <= Len(s)
        BY <1>5, <1>6, <1>8
    <2>2. n = Len(items) /\ z + n <= Len(s)
        BY <1>5, <1>8
    <2>3. IsInserted(r, s, z, pos, items, n)
        BY <2>1, <2>2, InsertResult
    <2> HIDE DEF r
    <2> QED BY <1>8, <2>3 DEF IsInserted
<1> HIDE DEF r
<1>12. ASSUME ~MayThrow
       PROVE  FilledTo(r, z + n)
    <2>1. FilledTo(s, z) /\ Intact(items, n)
        BY <1>3, <1>4, <1>5, <1>8, <1>12
    <2>2. ASSUME NEW i \in 1..c
          PROVE  r[i] # Raw <=> i <= z + n
        <3>1. CASE i <= pos
            <4>1. i <= z + n /\ s[i] # Raw
                BY <1>3, <1>6, <1>8, <2>1, <3>1 DEF FilledTo
            <4> QED BY <1>11, <3>1, <4>1
        <3>2. CASE ~(i <= pos) /\ i <= pos + n
            <4>1. i <= z + n /\ i - pos \in 1..n
                BY <1>3, <1>6, <1>8, <3>2
            <4>2. r[i] = items[i - pos]
                BY <1>11, <3>2
            <4> QED BY <2>1, <4>1, <4>2 DEF Intact
        <3>3. CASE ~(i <= pos + n) /\ i <= z + n
            <4>1. ~(i <= pos) /\ i - n \in 1..Len(s) /\ i - n <= z
                BY <1>3, <1>6, <1>8, <3>3
            <4>2. r[i] = s[i - n]
                BY <1>11, <3>3, <4>1
            <4> QED BY <2>1, <3>3, <4>1, <4>2 DEF FilledTo
        <3>4. CASE ~(i <= z + n)
            <4>1. ~(i <= pos) /\ ~(i <= pos + n) /\ ~(i <= z) /\ i \in 1..Len(s)
                BY <1>3, <1>6, <1>8, <3>4
            <4>2. r[i] = s[i]
                BY <1>11, <3>4, <4>1
            <4> QED BY <2>1, <3>4, <4>1, <4>2 DEF FilledTo
        <3> QED BY <3>1, <3>2, <3>3, <3>4
    <2> QED BY <1>11, <2>2 DEF FilledTo
<1>13. /\ storage'[v] = r /\ size'[v] = z + n /\ capacity'[v] = c
       /\ \A x \in Vectors \ {v} : size'[x] = size[x] /\ capacity'[x] = capacity[x]
       /\ \A x \in Vectors \ {v} : storage'[x] = IF x = w THEN RangeAfter(w, l, tail) ELSE storage[x]
    <2>1. size \in [Vectors -> Sizes] /\ capacity \in [Vectors -> Capacities]
        BY DEF Inv, Shape
    <2>2. \A x \in Vectors :
             storage'[x] = IF x = v THEN r ELSE IF x = w THEN RangeAfter(w, l, tail) ELSE storage[x]
        BY <1>1 DEF r
    <2>3. size'[v] = z + n /\ \A x \in Vectors \ {v} : size'[x] = size[x]
        BY <1>2, <2>1
    <2>4. capacity'[v] = c /\ \A x \in Vectors \ {v} : capacity'[x] = capacity[x]
        BY <1>2, <2>1
    <2> QED BY <2>2, <2>3, <2>4
<1>14. Kept(r, z + n)
    <2>1. ASSUME NEW i \in 1..c, i > z + n
          PROVE  r[i] = s[i] /\ i > z /\ i \in 1..Len(s)
        <3>1. ~(i <= pos) /\ ~(i <= pos + n) /\ ~(i <= z + n) /\ i > z
            BY <1>3, <1>6, <1>8, <2>1
        <3> QED BY <1>8, <1>11, <3>1
    <2> QED BY <1>8, <1>11, <2>1 DEF Kept
<1>15. Shape'
    <2>1. \A x \in Vectors : storage'[x] \in Seq(Cells) /\ Len(storage'[x]) = capacity'[x]
        BY <1>11, <1>13, <1>10 DEF Inv, Shape
    <2>2. \A x \in Vectors : size'[x] \in Sizes /\ capacity'[x] \in Capacities /\ size'[x] <= capacity'[x]
        BY <1>7, <1>8, <1>13 DEF Inv, Shape
    <2>3. storage' \in [Vectors -> Seq(Cells)]
        BY <1>1, <2>1
    <2>4. size' \in [Vectors -> Sizes] /\ capacity' \in [Vectors -> Capacities]
        BY <1>2, <1>7, <1>8 DEF Inv, Shape
    <2> QED BY <1>4, <2>1, <2>2, <2>3, <2>4 DEF Inv, Shape
<1>16. ElementsExactly'
    <2>1. ASSUME ~MayThrow, NEW x \in Vectors
          PROVE  FilledTo(storage'[x], size'[x])
        <3>1. CASE x = v
            BY <1>12, <1>13, <2>1, <3>1
        <3>2. CASE x # v /\ x = w
            <4>1. FilledTo(storage[w], size[w])
                BY <2>1, FilledNow
            <4>2. FilledTo(RangeAfter(w, l, tail), size[w])
                BY <1>10, <4>1
            <4> QED BY <1>13, <3>2, <4>2
        <3>3. CASE x # v /\ x # w
            BY <1>13, <2>1, <3>3, FilledNow
        <3> QED BY <3>1, <3>2, <3>3
    <2> QED BY <1>4, <1>15, <2>1, ExactIsFilledNext
<1>17. /\ SpilledByTemp(v, w, range) \subseteq Objects
       /\ NothrowMove => SpilledByTemp(v, w, range) \subseteq {Husk}
    BY <1>3, <1>4, TempSpills
<1>18. spilled' \subseteq Objects /\ (NothrowMove => spilled' \subseteq {Husk} \cup Stranded)
    BY <1>2, <1>8, <1>17, <1>9
<1>19. Stranded' \subseteq Stranded
    <2>1. \A x \in Vectors : Kept(storage'[x], size'[x])
        BY <1>13, <1>10, <1>14, KeptNow DEF Inv
    <2> QED BY <1>15, <2>1, KeptNext
<1> QED BY <1>4, <1>15, <1>16, <1>18, <1>19 DEF Outcome, Ending

\* Wherever insert stops, the old elements' cells hold objects.
LEMMA CutShortCells ==
    ASSUME NEW s \in Seq(Cells), NEW z \in Nat, NEW pos \in 0..z, NEW items \in Seq(Cells),
           z + Len(items) <= Len(s), Intact(s, z), Intact(items, Len(items)),
           NEW x \in CutShort(s, z, pos, items)
    PROVE  x \in Seq(Cells) /\ Len(x) = Len(s) /\ Intact(x, z)
<1> DEFINE n == Len(items)
           c == Len(s)
           d == Displaced(s, z, pos, n)
           h == Shifted(d, z, pos, n)
           t == WithTail(h, z, pos, items)
           head == Smaller(n, z - pos)
           from == IF n < z - pos THEN z - n ELSE pos
           m == IF n < z - pos THEN z - pos - n ELSE 0
<1>1. n \in Nat /\ c \in Nat /\ pos \in Nat /\ pos <= z /\ z + n <= c /\ z - pos \in Nat
    OBVIOUS
<1>2. head \in Nat /\ head <= n
    BY <1>1, SmallerOf
<1>3. x \in {Put(t, pos, Slice(items, 0, j)) : j \in 0..(head - 1)}
          \cup {s, d} \cup {Put(d, z - j, Slice(d, z - n - j, z - n)) : j \in 1..m}
    BY DEF CutShort
<1> HIDE DEF head
<1>4. from \in Nat
    BY <1>1
<1>5. /\ d \in Seq(Cells) /\ Len(d) = c
      /\ \A i \in 1..c :
            d[i] = IF from + n < i /\ i <= z + n THEN s[i - n]
                   ELSE IF NothrowMove /\ from < i /\ i <= z THEN Husk ELSE s[i]
    <2>1. n \in Nat /\ z + n <= Len(s) /\ c = Len(s)
        BY <1>1
    <2>2. from = IF n < z - pos THEN z - n ELSE pos
        OBVIOUS
    <2> HIDE DEF n, c, t, m, from
    <2>3. IsDisplaced(d, s, z, from, n)
        BY <2>1, <2>2, DisplacedCells
    <2> QED BY <2>1, <2>3 DEF IsDisplaced
<1> HIDE DEF d, from
<1>6. Intact(d, z)
    <2>1. ASSUME NEW i \in 1..z
          PROVE  d[i] # Raw
        <3>1. i \in 1..c /\ (from + n < i => i - n \in 1..z)
            BY <1>1, <1>4
        <3> QED BY <1>5, <3>1, CellFacts DEF Intact
    <2> QED BY <2>1 DEF Intact
<1>7. h \in Seq(Cells) /\ Len(h) = c /\ Intact(h, z)
    <2>1. CASE n < z - pos
        <3>1. /\ h \in Seq(Cells) /\ Len(h) = Len(d)
              /\ \A i \in 1..Len(d) :
                    h[i] = IF pos + n < i /\ i <= z THEN d[i - n]
                           ELSE IF NothrowMove /\ pos < i /\ i <= z - n THEN Husk ELSE d[i]
            <4>1. z + n <= Len(d)
                BY <1>1, <1>5
            <4> HIDE DEF n
            <4> QED BY <1>1, <1>5, <2>1, <4>1, ShiftedCells
        <3>2. ASSUME NEW i \in 1..z
              PROVE  h[i] # Raw
            <4>1. i \in 1..c /\ (pos + n < i => i - n \in 1..z)
                BY <1>1
            <4>2. h[i] = IF pos + n < i /\ i <= z THEN d[i - n]
                         ELSE IF NothrowMove /\ pos < i /\ i <= z - n THEN Husk ELSE d[i]
                BY <1>5, <3>1, <4>1
            <4> HIDE DEF h, n
            <4> QED BY <1>6, <4>1, <4>2, CellFacts DEF Intact
        <3> QED BY <1>5, <3>1, <3>2 DEF Intact
    <2>2. CASE ~(n < z - pos)
        BY <1>5, <1>6, <2>2 DEF Shifted
    <2> QED BY <2>1, <2>2
<1> HIDE DEF h
<1>8. t \in Seq(Cells) /\ Len(t) = c /\ Intact(t, z)
    <2>1. /\ t \in Seq(Cells) /\ Len(t) = Len(h)
          /\ \A i \in 1..Len(h) : t[i] = IF z < i /\ i <= pos + n THEN items[i - pos] ELSE h[i]
        BY <1>7, WithTailCells
    <2>2. ASSUME NEW i \in 1..z
          PROVE  t[i] # Raw
        <3>1. i \in 1..Len(h) /\ ~(z < i)
            BY <1>1, <1>7
        <3> QED BY <1>7, <2>1, <3>1 DEF Intact
    <2> QED BY <1>7, <2>1, <2>2 DEF Intact
<1> HIDE DEF t
<1>9. ASSUME NEW j \in 0..m, n < z - pos
      PROVE  LET y == Put(d, z - j, Slice(d, z - n - j, z - n))
             IN  y \in Seq(Cells) /\ Len(y) = c /\ Intact(y, z)
    <2> DEFINE part == Slice(d, z - n - j, z - n)
               y == Put(d, z - j, part)
    <2>1. /\ j \in Nat /\ z - n - j \in Nat /\ z - n \in Nat /\ z - n - j <= z - n
          /\ z - n <= Len(d) /\ (z - n) - (z - n - j) = j /\ z - j \in Nat
        BY <1>1, <1>5, <1>9
    <2>2. /\ part \in Seq(Cells) /\ Len(part) = (z - n) - (z - n - j)
          /\ \A i \in 1..((z - n) - (z - n - j)) : part[i] = d[(z - n - j) + i]
        <3> DEFINE a == z - n - j
                   b == z - n
        <3>1. a \in Nat /\ b \in Nat /\ a <= b /\ b <= Len(d)
            BY <2>1
        <3> HIDE DEF a, b
        <3>2. /\ Slice(d, a, b) \in Seq(Cells) /\ Len(Slice(d, a, b)) = b - a
              /\ \A i \in 1..(b - a) : Slice(d, a, b)[i] = d[a + i]
            BY <1>5, <3>1, SliceCells
        <3> QED BY <3>2 DEF a, b
    <2> HIDE DEF part
    <2>3. Len(part) = j /\ \A i \in 1..j : part[i] = d[(z - n - j) + i]
        BY <2>1, <2>2
    <2>4. /\ y \in Seq(Cells) /\ Len(y) = Len(d)
          /\ \A i \in 1..Len(d) :
                y[i] = IF z - j < i /\ i <= (z - j) + Len(part) THEN part[i - (z - j)] ELSE d[i]
        <3> DEFINE at == z - j
        <3>1. at \in Nat
            BY <2>1
        <3> HIDE DEF at
        <3>2. /\ Put(d, at, part) \in Seq(Cells) /\ Len(Put(d, at, part)) = Len(d)
              /\ \A i \in 1..Len(d) :
                    Put(d, at, part)[i] =
                       IF at < i /\ i <= at + Len(part) THEN part[i - at] ELSE d[i]
            BY <1>5, <2>2, <3>1, PutCells
        <3> QED BY <3>2 DEF at
    <2> HIDE DEF y
    <2>5. ASSUME NEW i \in 1..z
          PROVE  y[i] # Raw
        <3>1. i \in 1..Len(d)
            BY <1>1, <1>5
        <3>2. CASE z - j < i
            <4>1. /\ i <= (z - j) + Len(part) /\ i - (z - j) \in 1..j
                  /\ (z - n - j) + (i - (z - j)) = i - n /\ i - n \in 1..z
                BY <1>1, <2>1, <2>3, <3>2
            <4>2. y[i] = d[i - n]
                BY <2>3, <2>4, <3>1, <3>2, <4>1
            <4> QED BY <1>6, <4>1, <4>2 DEF Intact
        <3>3. CASE ~(z - j < i)
            BY <1>6, <2>4, <3>1, <3>3 DEF Intact
        <3> QED BY <3>2, <3>3
    <2> QED BY <1>5, <2>4, <2>5 DEF Intact, y, part
<1>10. ASSUME NEW j \in 0..(head - 1)
       PROVE  LET y == Put(t, pos, Slice(items, 0, j))
              IN  y \in Seq(Cells) /\ Len(y) = c /\ Intact(y, z)
    <2> DEFINE y == Put(t, pos, Slice(items, 0, j))
    <2>1. j \in 0..n /\ j \in Nat
        BY <1>1, <1>2
    <2>2. /\ y \in Seq(Cells) /\ Len(y) = Len(t)
          /\ \A i \in 1..Len(t) : y[i] = IF pos < i /\ i <= pos + j THEN items[i - pos] ELSE t[i]
        BY <1>1, <1>8, <2>1, AssignedCells
    <2> HIDE DEF y
    <2>3. ASSUME NEW i \in 1..z
          PROVE  y[i] # Raw
        <3>1. i \in 1..Len(t) /\ (pos < i /\ i <= pos + j => i - pos \in 1..n)
            BY <1>1, <1>8, <2>1
        <3> QED BY <1>8, <2>2, <3>1 DEF Intact
    <2> QED BY <1>8, <2>2, <2>3 DEF Intact, y
<1>11. ASSUME NEW j \in 1..m
       PROVE  j \in 0..m /\ n < z - pos
    BY <1>1, <1>11
<1> HIDE DEF c, n, m
<1>12. CASE x \in {Put(d, z - j, Slice(d, z - n - j, z - n)) : j \in 1..m}
    BY <1>9, <1>11, <1>12 DEF c
<1>13. CASE x \in {Put(t, pos, Slice(items, 0, j)) : j \in 0..(head - 1)}
    BY <1>10, <1>13 DEF c
<1>14. CASE x \in {s, d}
    BY <1>5, <1>6, <1>14 DEF c
<1> QED BY <1>3, <1>12, <1>13, <1>14

LEMMA InsertThrowsOutcome ==
    ASSUME Inv, NEW v \in Vectors, NEW w \in Vectors, NEW pos \in 0..size[v],
           NEW l \in 0..size[w], NEW f \in 0..l, InsertThrows(v, pos, w, f, l)
    PROVE  Outcome
<1> DEFINE n == l - f
           range == Slice(storage[w], f, l)
           z == size[v]
           tail == n - Smaller(n, z - pos)
           s == Reserved(v, z + n)
           c == CapacityReserved(v, z + n)
<1>1. /\ z + n <= Room(v) /\ size' = size /\ Throws
    BY DEF InsertThrows
<1>2. ElementsSurvive /\ kind' = kind /\ MayThrow
    BY <1>1, ThrowsFacts
<1>3. /\ n \in Nat /\ range \in Seq(Cells) /\ Len(range) = n /\ Intact(range, n)
    BY <1>2, RangeCells
<1>4. z \in Nat /\ z \in Sizes /\ Intact(storage[v], z) /\ pos \in 0..z
    BY <1>2, VectorFacts, Survival DEF Inv
<1>5. /\ SpilledByTemp(v, w, range) \subseteq Objects
      /\ NothrowMove => SpilledByTemp(v, w, range) \subseteq {Husk}
    BY <1>3, TempSpills
<1>6. CASE UNCHANGED <<storage, capacity>> /\ spilled' = SpilledByTemp(v, w, range)
    <2>1. Shape' /\ ElementsExactly' /\ ElementsSurvive'
        BY <1>1, <1>2, <1>6, NothingInstalled DEF Inv
    <2> QED BY <1>1, <1>5, <1>6, <2>1, Thrown
<1>7. CASE /\ \E x \in CutShort(s, z, pos, range) :
                storage' = [y \in Vectors |->
                    IF y = v THEN x ELSE IF y = w THEN RangeAfter(w, l, tail) ELSE storage[y]]
           /\ capacity' = [capacity EXCEPT ![v] = c]
           /\ spilled' = SpilledByReserve(v, z + n) \cup SpilledByTemp(v, w, range)
                            \cup BuiltOver(v, n)
    <2>1. PICK x \in CutShort(s, z, pos, range) :
             storage' = [y \in Vectors |->
                IF y = v THEN x ELSE IF y = w THEN RangeAfter(w, l, tail) ELSE storage[y]]
        BY <1>7
    <2>2. /\ RangeAfter(w, l, tail) \in Seq(Cells)
          /\ Len(RangeAfter(w, l, tail)) = Len(storage[w])
          /\ Intact(storage[w], size[w]) => Intact(RangeAfter(w, l, tail), size[w])
        BY RangeAfterCells
    <2> HIDE DEF n, z, range, tail
    <2>3. z + n \in Nat /\ z + n <= MaxSize
        BY <1>1, <1>3, <1>4, RoomBound, BoundFacts
    <2>4. /\ s \in Seq(Cells) /\ Len(s) = c /\ c \in Capacities /\ c \in Nat /\ z + n <= c
          /\ \A i \in 1..z : s[i] = storage[v][i]
          /\ SpilledByReserve(v, z + n) \subseteq Objects
          /\ SpilledByReserve(v, z + n) \subseteq Stranded
        BY <2>3, ReservedCells DEF z
    <2>5. BuiltOver(v, n) \subseteq Objects /\ BuiltOver(v, n) \subseteq Stranded
        BY <1>3, <2>3, BuiltOverCells DEF z
    <2> HIDE DEF s, c
    <2>6. x \in Seq(Cells) /\ Len(x) = c /\ Intact(x, z)
        <3>1. Intact(s, z)
            BY <1>4, <2>4 DEF Intact
        <3> QED BY <1>3, <1>4, <2>1, <2>4, <3>1, CutShortCells
    <2>7. /\ \A y \in Vectors :
                storage'[y] = IF y = v THEN x
                              ELSE IF y = w THEN RangeAfter(w, l, tail) ELSE storage[y]
          /\ capacity'[v] = c /\ \A y \in Vectors \ {v} : capacity'[y] = capacity[y]
        BY <1>7, <2>1 DEF Inv, Shape
    <2>8. Shape'
        <3>1. \A y \in Vectors : storage'[y] \in Seq(Cells) /\ Len(storage'[y]) = capacity'[y]
            BY <2>2, <2>6, <2>7 DEF Inv, Shape
        <3>2. \A y \in Vectors : size'[y] <= capacity'[y]
            <4>1. size'[v] <= capacity'[v]
                BY <1>1, <1>3, <1>4, <2>4, <2>7 DEF z
            <4>2. \A y \in Vectors \ {v} : size'[y] <= capacity'[y]
                BY <1>1, <2>7 DEF Inv, Shape
            <4> QED BY <4>1, <4>2
        <3>3. storage' \in [Vectors -> Seq(Cells)]
            BY <2>1, <3>1
        <3>4. size' \in [Vectors -> Sizes] /\ capacity' \in [Vectors -> Capacities]
            BY <1>1, <1>7, <2>4 DEF Inv, Shape
        <3> QED BY <1>2, <3>1, <3>2, <3>3, <3>4 DEF Inv, Shape
    <2>9. ElementsExactly'
        BY <1>2, <2>8, ExactIsFilledNext
    <2>10. ElementsSurvive'
        <3>1. \A y \in Vectors : Intact(storage[y], size[y])
            BY <1>2, Survival DEF Inv
        <3>2. \A y \in Vectors : Intact(storage'[y], size'[y])
            BY <1>1, <2>2, <2>6, <2>7, <3>1 DEF z
        <3> QED BY <2>8, <3>2, SurvivalNext
    <2>11. spilled' \subseteq Objects /\ (NothrowMove => spilled' \subseteq {Husk} \cup Stranded)
        BY <1>5, <1>7, <2>4, <2>5
    <2> QED BY <1>1, <2>8, <2>9, <2>10, <2>11, Thrown
<1> QED BY <1>6, <1>7 DEF InsertThrows

-----------------------------------------------------------------------------
(* Every call *)

LEMMA NextOutcome ==
    ASSUME Inv, Next
    PROVE  Outcome
<1>1. PICK v \in Vectors :
        \/ Construct(v) \/ ConstructThrows(v) \/ NothingDone(v)
        \/ \E w \in Vectors : CopyConstruct(v, w) \/ MoveConstruct(v, w) \/ swap(v, w)
        \/ \E x \in Arguments(v) : push_back(v, x)
        \/ pop_back(v) \/ shrink_to_fit(v)
        \/ \E n \in 0..Room(v) : reserve(v, n) \/ resize(v, n) \/ ResizeThrows(v, n)
        \/ \E w \in Vectors, pos \in 0..size[v] : \E l \in 0..size[w] : \E f \in 0..l :
              insert(v, pos, w, f, l) \/ InsertThrows(v, pos, w, f, l)
    BY DEF Next
<1>2. CASE Construct(v) \/ ConstructThrows(v) \/ NothingDone(v)
    BY <1>2, ConstructOutcome, ConstructThrowsOutcome, NothingDoneOutcome
<1>3. CASE \E w \in Vectors : CopyConstruct(v, w) \/ MoveConstruct(v, w) \/ swap(v, w)
    BY <1>3, CopyConstructOutcome, MoveConstructOutcome, swapOutcome
<1>4. CASE \E x \in Arguments(v) : push_back(v, x)
    BY <1>4, push_backOutcome
<1>5. CASE pop_back(v) \/ shrink_to_fit(v)
    BY <1>5, pop_backOutcome, shrink_to_fitOutcome
<1>6. CASE \E n \in 0..Room(v) : reserve(v, n) \/ resize(v, n) \/ ResizeThrows(v, n)
    BY <1>6, reserveOutcome, resizeOutcome, ResizeThrowsOutcome
<1>7. CASE \E w \in Vectors, pos \in 0..size[v] : \E l \in 0..size[w] : \E f \in 0..l :
              insert(v, pos, w, f, l) \/ InsertThrows(v, pos, w, f, l)
    BY <1>7, InsertOutcome, InsertThrowsOutcome
<1> QED BY <1>1, <1>2, <1>3, <1>4, <1>5, <1>6, <1>7

LEMMA InitInv == Init => Inv
<1> SUFFICES ASSUME Init PROVE Inv
    OBVIOUS
<1>1. Shape
    BY NoCells DEF Init, Shape
<1>2. Ending
    BY DEF Init, Ending
<1>3. \A v \in Vectors : FilledTo(storage[v], size[v])
    BY NoCells DEF Init, FilledTo
<1> QED BY <1>1, <1>2, <1>3, ExactIsFilled DEF Inv

LEMMA NextInv ==
    ASSUME Inv, [Next]_vars
    PROVE  Inv'
<1>1. CASE Next
    BY <1>1, NextOutcome DEF Outcome, Inv
<1>2. CASE UNCHANGED vars
    <2>1. UNCHANGED <<storage, size, capacity>> /\ kind' = kind
        BY <1>2 DEF vars
    <2>2. Shape' /\ ElementsExactly'
        BY <2>1, NothingInstalled DEF Inv
    <2>3. Ending'
        BY <1>2 DEF vars, Inv, Ending
    <2> QED BY <2>2, <2>3 DEF Inv
<1> QED BY <1>1, <1>2

LEMMA Invariance == Spec => []Inv
BY InitInv, NextInv, PTL DEF Spec

-----------------------------------------------------------------------------
(* What a call does to the elements *)

Contents == [v \in Vectors |-> elements(v)]

LEMMA ElementsAre ==
    ASSUME NEW s \in Seq(Cells), NEW n \in Nat, n <= Len(s), NEW e \in Seq(Cells), Len(e) = n,
           \A i \in 1..n : s[i] = e[i]
    PROVE  Slice(s, 0, n) = e
<1>1. /\ Slice(s, 0, n) \in Seq(Cells) /\ Len(Slice(s, 0, n)) = n
      /\ \A i \in 1..n : Slice(s, 0, n)[i] = s[i]
    BY FrontCells
<1> QED BY <1>1, SeqEqual

LEMMA SameElements ==
    ASSUME NEW w, storage'[w] = storage[w], size'[w] = size[w]
    PROVE  elements(w)' = elements(w)
BY DEF elements

\* A vector gets new elements e, and the others keep theirs.
LEMMA OneBecomes ==
    ASSUME Shape, NEW v \in Vectors, NEW s \in Seq(Cells), NEW n \in Sizes, n <= Len(s),
           NEW c, Install(v, s, c, n), NEW e \in Seq(Cells), Len(e) = n, \A i \in 1..n : s[i] = e[i]
    PROVE  Promise!Become(v, e)
<1>1. /\ storage'[v] = s /\ size'[v] = n
      /\ \A w \in Vectors \ {v} : storage'[w] = storage[w] /\ size'[w] = size[w]
    BY DEF Shape, Install
<1>2. elements(v)' = e
    BY <1>1, BoundFacts, ElementsAre DEF elements
<1>3. \A w \in Vectors \ {v} : elements(w)' = elements(w)
    BY <1>1, SameElements
<1>4. Contents' = [Contents EXCEPT ![v] = e]
    BY <1>2, <1>3 DEF Contents
<1> QED BY <1>4 DEF Promise!Become, Contents

LEMMA ContentsOf ==
    ASSUME NEW v \in Vectors
    PROVE  Contents[v] = elements(v)
BY DEF Contents

LEMMA ConstructRefines ==
    ASSUME Inv, NEW v \in Vectors, Construct(v)
    PROVE  Promise!Next
<1>1. PICK n \in 0..Room(v) : \E xs \in [1..n -> Values] :
          Install(v, Fresh(n, xs), n, n) /\ Returns([op |-> "assign", v |-> v, s |-> xs])
    BY DEF Construct
<1>2. PICK xs \in [1..n -> Values] :
          Install(v, Fresh(n, xs), n, n) /\ Returns([op |-> "assign", v |-> v, s |-> xs])
    BY <1>1
<1>3. n \in Nat /\ n <= MaxSize
    BY RoomBound, BoundFacts
<1>4. xs \in Seq(Cells) /\ Len(xs) = n
    BY <1>3, CellFacts
<1>5. /\ Fresh(n, xs) \in Seq(Cells) /\ Len(Fresh(n, xs)) = n
      /\ \A i \in 1..n : Fresh(n, xs)[i] = xs[i]
    BY <1>3, <1>4, FreshCells
<1>6. n \in Sizes /\ n <= Len(Fresh(n, xs))
    BY <1>3, <1>5, WithinCapacities
<1>7. Promise!Become(v, xs)
    BY <1>2, <1>4, <1>5, <1>6, OneBecomes DEF Inv
<1>8. call' = [op |-> "assign", v |-> v, s |-> xs]
    BY <1>2, ReturnsFacts
<1>9. call'.op = "assign" /\ call'.v = v /\ call'.s = xs
    BY <1>8
<1> QED BY <1>7, <1>9 DEF Promise!Next, Promise!Assign

LEMMA CopyConstructRefines ==
    ASSUME Inv, NEW v \in Vectors, NEW w \in Vectors, CopyConstruct(v, w)
    PROVE  Promise!Next
<1> DEFINE s == Fresh(capacity[w], elements(w))
           n == size[w]
           e == elements(w)
<1>1. /\ capacity[w] \in Nat /\ n \in Nat /\ n \in Sizes /\ n <= capacity[w]
    BY VectorFacts DEF Inv
<1>2. e \in Seq(Cells) /\ Len(e) = n
    BY ElementCells DEF Inv
<1>3. /\ s \in Seq(Cells) /\ Len(s) = capacity[w]
      /\ \A i \in 1..capacity[w] : s[i] = IF i <= n THEN e[i] ELSE Raw
    BY <1>1, <1>2, FreshCells
<1>4. Install(v, s, capacity[w], n) /\ Returns([op |-> "copy", v |-> v, w |-> w])
    BY DEF CopyConstruct
<1>5. call' = [op |-> "copy", v |-> v, w |-> w]
    BY <1>4, ReturnsFacts
<1> HIDE DEF s, n, e
<1>6. n <= Len(s) /\ \A i \in 1..n : s[i] = e[i]
    BY <1>1, <1>3
<1>7. Promise!Become(v, e)
    BY <1>1, <1>2, <1>3, <1>4, <1>6, OneBecomes DEF Inv
<1>8. Promise!Copy(v, w)
    BY <1>7 DEF Promise!Copy, e
<1>9. call'.op = "copy" /\ call'.v = v /\ call'.w = w
    BY <1>5
<1> QED BY <1>8, <1>9 DEF Promise!Next

LEMMA MoveConstructRefines ==
    ASSUME Inv, NEW v \in Vectors, NEW w \in Vectors, MoveConstruct(v, w)
    PROVE  Promise!Next
<1>1. /\ v # w /\ storage'[v] = storage[w] /\ size'[v] = size[w]
      /\ storage'[w] = <<>> /\ size'[w] = 0
      /\ \A x \in Vectors \ {v, w} : storage'[x] = storage[x] /\ size'[x] = size[x]
    BY DEF MoveConstruct, Inv, Shape
<1>2. elements(v)' = elements(w)
    BY <1>1 DEF elements
<1>3. elements(w)' = <<>>
    <2>1. Slice(<<>>, 0, 0) = <<>>
        <3>1. SubSeq(<<>>, 0 + 1, 0) = <<>>
            BY SubSeqEmpty
        <3> QED BY <3>1 DEF Slice
    <2> QED BY <1>1, <2>1 DEF elements
<1>4. \A x \in Vectors \ {v, w} : elements(x)' = elements(x)
    BY <1>1, SameElements
<1>5. Contents' = [Contents EXCEPT ![v] = Contents[w], ![w] = <<>>]
    BY <1>1, <1>2, <1>3, <1>4 DEF Contents
<1>6. Promise!Move(v, w)
    BY <1>1, <1>5 DEF Promise!Move, Contents
<1>7. Returns([op |-> "move", v |-> v, w |-> w])
    BY DEF MoveConstruct
<1>8. call' = [op |-> "move", v |-> v, w |-> w]
    BY <1>7, ReturnsFacts
<1>9. call'.op = "move" /\ call'.v = v /\ call'.w = w
    BY <1>8
<1> QED BY <1>6, <1>9 DEF Promise!Next

LEMMA swapRefines ==
    ASSUME Inv, NEW v \in Vectors, NEW w \in Vectors, swap(v, w)
    PROVE  Promise!Next
<1>1. /\ storage'[v] = storage[w] /\ size'[v] = size[w]
      /\ storage'[w] = storage[v] /\ size'[w] = size[v]
      /\ \A x \in Vectors \ {v, w} : storage'[x] = storage[x] /\ size'[x] = size[x]
    BY DEF swap, Inv, Shape
<1>2. elements(v)' = elements(w) /\ elements(w)' = elements(v)
    BY <1>1 DEF elements
<1>3. \A x \in Vectors \ {v, w} : elements(x)' = elements(x)
    BY <1>1, SameElements
<1>4. Contents' = [Contents EXCEPT ![v] = Contents[w], ![w] = Contents[v]]
    BY <1>2, <1>3 DEF Contents
<1>5. Promise!Swap(v, w)
    BY <1>4 DEF Promise!Swap, Contents
<1>6. Returns([op |-> "swap", v |-> v, w |-> w])
    BY DEF swap
<1>7. call' = [op |-> "swap", v |-> v, w |-> w]
    BY <1>6, ReturnsFacts
<1>8. call'.op = "swap" /\ call'.v = v /\ call'.w = w
    BY <1>7
<1> QED BY <1>5, <1>8 DEF Promise!Next

LEMMA AppendCells ==
    ASSUME NEW e \in Seq(Cells), NEW x \in Cells
    PROVE  /\ Append(e, x) \in Seq(Cells) /\ Len(Append(e, x)) = Len(e) + 1
           /\ \A i \in 1..(Len(e) + 1) : Append(e, x)[i] = IF i <= Len(e) THEN e[i] ELSE x
OBVIOUS

\* Both paths of push_back leave the old elements and the argument behind them.
LEMMA PushRefines ==
    ASSUME Inv, NEW v \in Vectors, NEW x \in Cells, NEW s \in Seq(Cells), NEW c,
           Install(v, s, c, size[v] + 1), size[v] + 1 <= Len(s), size[v] + 1 \in Sizes,
           \A i \in 1..(size[v] + 1) : s[i] = IF i <= size[v] THEN storage[v][i] ELSE x,
           Returns([op |-> "push", v |-> v, x |-> x])
    PROVE  Promise!Next
<1> DEFINE n == size[v] + 1
           e == Append(elements(v), x)
<1>1. size[v] \in Nat
    BY VectorFacts DEF Inv
<1>2. /\ elements(v) \in Seq(Cells) /\ Len(elements(v)) = size[v]
      /\ \A i \in 1..size[v] : elements(v)[i] = storage[v][i]
    BY ElementCells DEF Inv
<1>3. /\ e \in Seq(Cells) /\ Len(e) = n
      /\ \A i \in 1..n : e[i] = IF i <= size[v] THEN elements(v)[i] ELSE x
    BY <1>2, AppendCells
<1> HIDE DEF e
<1>4. \A i \in 1..n : s[i] = e[i]
    BY <1>1, <1>2, <1>3
<1>5. Promise!Become(v, e)
    <2> HIDE DEF n
    <2> QED BY <1>3, <1>4, OneBecomes DEF Inv, n
<1>6. Promise!PushBack(v, x)
    BY <1>5 DEF Promise!PushBack, e
<1>7. call' = [op |-> "push", v |-> v, x |-> x]
    BY ReturnsFacts
<1>8. call'.op = "push" /\ call'.v = v /\ call'.x = x
    BY <1>7
<1> QED BY <1>6, <1>8 DEF Promise!Next

LEMMA push_backRefines ==
    ASSUME Inv, NEW v \in Vectors, NEW x \in Arguments(v), push_back(v, x)
    PROVE  thrown' \/ Promise!Next
<1>1. size[v] < Room(v) /\ size[v] \in Nat /\ size[v] <= capacity[v] /\ capacity[v] \in Nat
    BY VectorFacts DEF push_back, Inv
<1>2. size[v] < MaxSize /\ size[v] + 1 \in Sizes
    BY <1>1, RoomBound, BoundFacts DEF Sizes
<1>3. ElementsSurvive => x \in Cells /\ x # Raw
    BY ArgumentFacts
<1>4. CASE is_full(v) /\ push_back_slow_path(v, x)
    <2> DEFINE s == Moved(storage[v], size[v], WithNewElement(v, x))
               c == new_capacity(capacity[v])
    <2>1. Returns([op |-> "push", v |-> v, x |-> x]) /\ Install(v, s, c, size[v] + 1)
        BY <1>4 DEF push_back_slow_path
    <2>2. x \in Cells /\ x # Raw
        BY <1>3, <2>1, ReturnsFacts
    <2>3. /\ s \in Seq(Cells) /\ Len(s) = c /\ c \in Nat /\ size[v] + 1 <= c
          /\ \A i \in 1..c :
                s[i] = IF i <= size[v] THEN storage[v][i]
                       ELSE IF i = size[v] + 1 THEN x ELSE Raw
        BY <1>2, <1>4, <2>2, SlowPathCells
    <2> HIDE DEF s, c
    <2>4. \A i \in 1..(size[v] + 1) : s[i] = IF i <= size[v] THEN storage[v][i] ELSE x
        BY <1>1, <2>3
    <2> QED BY <1>2, <2>1, <2>2, <2>3, <2>4, PushRefines
<1>5. CASE is_full(v) /\ CopyOldStorageThrows(v, x)
    BY <1>5, EndsFacts, ThrowsFacts DEF CopyOldStorageThrows, Swallows
<1>6. CASE ~is_full(v) /\ push_back_fast_path(v, x)
    <2> DEFINE s == Put(storage[v], size[v], <<x>>)
    <2>1. Returns([op |-> "push", v |-> v, x |-> x]) /\ Install(v, s, capacity[v], size[v] + 1)
        BY <1>6 DEF push_back_fast_path
    <2>2. x \in Cells /\ x # Raw
        BY <1>3, <2>1, ReturnsFacts
    <2>3. /\ s \in Seq(Cells) /\ Len(s) = capacity[v] /\ size[v] + 1 <= capacity[v]
          /\ \A i \in 1..capacity[v] : s[i] = IF i = size[v] + 1 THEN x ELSE storage[v][i]
        BY <1>6, <2>2, FastPathCells
    <2> HIDE DEF s
    <2>4. \A i \in 1..(size[v] + 1) : s[i] = IF i <= size[v] THEN storage[v][i] ELSE x
        BY <1>1, <2>3
    <2> QED BY <1>2, <2>1, <2>2, <2>3, <2>4, PushRefines
<1> QED BY <1>4, <1>5, <1>6 DEF push_back

LEMMA SubSeqCells ==
    ASSUME NEW e \in Seq(Cells), NEW a \in Nat, NEW b \in Nat, a <= b, b <= Len(e)
    PROVE  /\ SubSeq(e, a + 1, b) \in Seq(Cells) /\ Len(SubSeq(e, a + 1, b)) = b - a
           /\ \A i \in 1..(b - a) : SubSeq(e, a + 1, b)[i] = e[a + i]
BY SliceCells DEF Slice

LEMMA pop_backRefines ==
    ASSUME Inv, NEW v \in Vectors, pop_back(v)
    PROVE  Promise!Next
<1> DEFINE n == size[v] - 1
           s == destroy(storage[v], n, size[v])
           e == SubSeq(elements(v), 1, Len(elements(v)) - 1)
<1>1. /\ storage[v] \in Seq(Cells) /\ Len(storage[v]) = capacity[v]
      /\ size[v] \in Nat /\ capacity[v] \in Nat /\ size[v] <= capacity[v] /\ size[v] <= MaxSize
    BY VectorFacts DEF Inv
<1>2. n \in Nat /\ n < size[v] /\ n \in Sizes
    BY <1>1, BoundFacts DEF pop_back, Sizes
<1>3. /\ s \in Seq(Cells) /\ Len(s) = capacity[v]
      /\ \A i \in 1..capacity[v] : s[i] = IF n < i /\ i <= size[v] THEN Raw ELSE storage[v][i]
    <2> DEFINE z == size[v]
    <2>1. z \in Nat /\ n \in Nat /\ n <= z /\ z <= Len(storage[v])
        BY <1>1, <1>2
    <2> HIDE DEF z, n
    <2>2. /\ destroy(storage[v], n, z) \in Seq(Cells)
          /\ Len(destroy(storage[v], n, z)) = Len(storage[v])
          /\ \A i \in 1..Len(storage[v]) :
                destroy(storage[v], n, z)[i] = IF n < i /\ i <= z THEN Raw ELSE storage[v][i]
        BY <1>1, <2>1, DestroyCells
    <2> QED BY <1>1, <2>2 DEF z
<1>4. Install(v, s, capacity[v], n) /\ Returns([op |-> "pop", v |-> v])
    BY DEF pop_back
<1>5. /\ elements(v) \in Seq(Cells) /\ Len(elements(v)) = size[v]
      /\ \A i \in 1..size[v] : elements(v)[i] = storage[v][i]
    BY ElementCells DEF Inv
<1>6. e \in Seq(Cells) /\ Len(e) = n /\ \A i \in 1..n : e[i] = elements(v)[i]
    <2>1. e = Slice(elements(v), 0, n)
        BY <1>5 DEF Slice
    <2> QED BY <1>2, <1>5, <2>1, FrontCells
<1> HIDE DEF s, e, n
<1>7. n <= Len(s) /\ \A i \in 1..n : s[i] = e[i]
    <2>1. n <= Len(s)
        BY <1>1, <1>2, <1>3
    <2>2. ASSUME NEW i \in 1..n
          PROVE  s[i] = e[i]
        <3>1. i \in 1..capacity[v] /\ i \in 1..size[v] /\ ~(n < i)
            BY <1>1, <1>2
        <3>2. s[i] = storage[v][i]
            BY <1>3, <3>1
        <3> QED BY <1>5, <1>6, <3>1, <3>2
    <2> QED BY <2>1, <2>2
<1>8. Promise!Become(v, e)
    BY <1>2, <1>3, <1>4, <1>6, <1>7, OneBecomes DEF Inv
<1>9. Promise!PopBack(v)
    BY <1>8 DEF Promise!PopBack, e
<1>10. call' = [op |-> "pop", v |-> v]
    BY <1>4, ReturnsFacts
<1>11. call'.op = "pop" /\ call'.v = v
    BY <1>10
<1> QED BY <1>9, <1>11 DEF Promise!Next

\* reserve and shrink_to_fit
LEMMA StorageRefines ==
    ASSUME Inv, NEW v \in Vectors, NEW s \in Seq(Cells), NEW c, Install(v, s, c, size[v]),
           size[v] <= Len(s), \A i \in 1..size[v] : s[i] = storage[v][i],
           Returns([op |-> "storage"])
    PROVE  Promise!Next
<1>1. size[v] \in Nat /\ size[v] \in Sizes
    BY VectorFacts DEF Inv
<1>2. /\ elements(v) \in Seq(Cells) /\ Len(elements(v)) = size[v]
      /\ \A i \in 1..size[v] : elements(v)[i] = storage[v][i]
    BY ElementCells DEF Inv
<1>3. Promise!Become(v, elements(v))
    <2>1. \A i \in 1..size[v] : s[i] = elements(v)[i]
        BY <1>2
    <2> QED BY <1>1, <1>2, <2>1, OneBecomes DEF Inv
<1>4. Contents' = Contents
    <2>1. Contents' = [Contents EXCEPT ![v] = elements(v)]
        BY <1>3 DEF Promise!Become, Contents
    <2> QED BY <2>1 DEF Contents
<1>5. call' = [op |-> "storage"]
    BY ReturnsFacts
<1>6. call'.op = "storage"
    BY <1>5
<1> QED BY <1>4, <1>6 DEF Promise!Next, Contents

LEMMA shrink_to_fitRefines ==
    ASSUME Inv, NEW v \in Vectors, shrink_to_fit(v)
    PROVE  Promise!Next
<1> DEFINE n == size[v]
           s == Reallocated(storage[v], n, n)
<1>1. n \in Nat /\ n <= Len(storage[v]) /\ n <= n /\ storage[v] \in Seq(Cells)
    BY VectorFacts DEF Inv
<1>2. Install(v, s, n, n) /\ Returns([op |-> "storage"])
    BY DEF shrink_to_fit
<1> HIDE DEF n
<1>3. /\ s \in Seq(Cells) /\ Len(s) = n
      /\ \A i \in 1..n : s[i] = IF i <= n THEN storage[v][i] ELSE Raw
    BY <1>1, ReallocatedCells
<1> HIDE DEF s
<1>4. \A i \in 1..n : s[i] = storage[v][i]
    BY <1>1, <1>3
<1>5. n <= Len(s)
    BY <1>1, <1>3
<1> QED BY <1>2, <1>3, <1>4, <1>5, StorageRefines DEF n

LEMMA reserveRefines ==
    ASSUME Inv, NEW v \in Vectors, NEW n \in 0..Room(v), reserve(v, n)
    PROVE  Promise!Next
<1> DEFINE s == Reserved(v, n)
           c == CapacityReserved(v, n)
<1>1. n \in Nat /\ n <= MaxSize
    BY RoomBound, BoundFacts
<1>2. s \in Seq(Cells) /\ size[v] <= Len(s) /\ \A i \in 1..size[v] : s[i] = storage[v][i]
    BY <1>1, ReservedCells
<1>3. Install(v, s, c, size[v]) /\ Returns([op |-> "storage"])
    BY DEF reserve
<1> HIDE DEF s, c
<1> QED BY <1>2, <1>3, StorageRefines

LEMMA resizeRefines ==
    ASSUME Inv, NEW v \in Vectors, NEW n \in 0..Room(v), resize(v, n)
    PROVE  Promise!Next
<1> DEFINE e == [i \in 1..n |-> IF i <= Len(elements(v)) THEN elements(v)[i] ELSE Default]
           z == size[v]
<1>1. n \in Nat /\ n <= MaxSize /\ n \in Sizes
    <2>1. n \in Nat /\ n <= MaxSize
        BY RoomBound, BoundFacts
    <2> QED BY <2>1, WithinCapacities
<1>2. /\ storage[v] \in Seq(Cells) /\ Len(storage[v]) = capacity[v]
      /\ z \in Nat /\ capacity[v] \in Nat /\ z <= capacity[v]
    BY VectorFacts DEF Inv
<1>3. /\ elements(v) \in Seq(Cells) /\ Len(elements(v)) = z
      /\ \A i \in 1..z : elements(v)[i] = storage[v][i]
    BY ElementCells DEF Inv
<1>4. /\ e \in Seq(Cells) /\ Len(e) = n
      /\ \A i \in 1..n : e[i] = IF i <= z THEN storage[v][i] ELSE Default
    <2> HIDE DEF z
    <2>1. \A i \in 1..z : elements(v)[i] \in Cells
        BY <1>3
    <2>2. e \in [1..n -> Cells]
        BY <1>1, <1>2, <1>3, <2>1, CellFacts
    <2>3. e \in Seq(Cells) /\ Len(e) = n
        <3> HIDE DEF e
        <3> QED BY <1>1, <2>2, SeqOfCells
    <2>4. \A i \in 1..n : e[i] = IF i <= z THEN storage[v][i] ELSE Default
        BY <1>1, <1>2, <1>3
    <2> QED BY <2>3, <2>4
<1> HIDE DEF e
<1>5. \E s \in Seq(Cells) : \E c : Install(v, s, c, n) /\ n <= Len(s) /\ \A i \in 1..n : s[i] = e[i]
    <2>1. CASE n <= z
        <3> DEFINE s == destroy(storage[v], n, z)
        <3>1. /\ s \in Seq(Cells) /\ Len(s) = capacity[v]
              /\ \A i \in 1..capacity[v] : s[i] = IF n < i /\ i <= z THEN Raw ELSE storage[v][i]
            <4> HIDE DEF z
            <4> QED BY <1>1, <1>2, DestroyCells
        <3>2. Install(v, s, capacity[v], n)
            BY <2>1 DEF resize
        <3> HIDE DEF s, z
        <3>3. n <= Len(s)
            BY <1>1, <1>2, <2>1, <3>1
        <3>4. ASSUME NEW i \in 1..n
              PROVE  s[i] = e[i]
            <4>1. i \in 1..capacity[v] /\ i <= z /\ ~(n < i)
                BY <1>1, <1>2, <2>1
            <4> QED BY <1>4, <3>1, <4>1
        <3> QED BY <3>1, <3>2, <3>3, <3>4
    <2>2. CASE ~(n <= z)
        <3> DEFINE r == Reserved(v, n)
                   s == Put(r, z, [i \in 1..(n - z) |-> Default])
                   c == CapacityReserved(v, n)
        <3>1. z < n
            BY <1>1, <1>2, <2>2
        <3>2. r \in Seq(Cells) /\ Len(r) = c /\ n <= c /\ c \in Nat /\ \A i \in 1..z : r[i] = storage[v][i]
            BY <1>1, ReservedCells
        <3>3. /\ s \in Seq(Cells) /\ Len(s) = c
              /\ \A i \in 1..Len(s) : s[i] = IF z < i /\ i <= n THEN Default ELSE r[i]
            BY <1>1, <3>1, DefaultedCells
        <3>4. Install(v, s, c, n)
            BY <2>2 DEF resize
        <3> HIDE DEF s, r, c, z
        <3>5. n <= Len(s) /\ \A i \in 1..n : s[i] = e[i]
            BY <1>1, <1>2, <1>4, <3>1, <3>2, <3>3
        <3> QED BY <3>3, <3>4, <3>5
    <2> QED BY <2>1, <2>2
<1>6. Promise!Become(v, e)
    BY <1>1, <1>4, <1>5, OneBecomes DEF Inv
<1>7. Promise!Resize(v, n)
    BY <1>6 DEF Promise!Resize, e
<1>8. Returns([op |-> "resize", v |-> v, n |-> n])
    BY DEF resize
<1>9. call' = [op |-> "resize", v |-> v, n |-> n]
    BY <1>8, ReturnsFacts
<1>10. call'.op = "resize" /\ call'.v = v /\ call'.n = n
    BY <1>9
<1> QED BY <1>7, <1>10 DEF Promise!Next

\* g put into e behind its first pos elements
LEMMA SplicedCells ==
    ASSUME NEW e \in Seq(Cells), NEW g \in Seq(Cells), NEW pos \in 0..Len(e), NEW with,
           with = SubSeq(e, 1, pos) \o g \o SubSeq(e, pos + 1, Len(e))
    PROVE  /\ with \in Seq(Cells) /\ Len(with) = Len(e) + Len(g)
           /\ \A i \in 1..(Len(e) + Len(g)) :
                 with[i] = IF i <= pos THEN e[i]
                           ELSE IF i <= pos + Len(g) THEN g[i - pos] ELSE e[i - Len(g)]
<1> DEFINE a == SubSeq(e, 1, pos)
           b == SubSeq(e, pos + 1, Len(e))
           z == Len(e)
           n == Len(g)
<1>1. z \in Nat /\ n \in Nat /\ pos \in Nat /\ pos <= z
    OBVIOUS
<1>2. a \in Seq(Cells) /\ Len(a) = pos /\ \A i \in 1..pos : a[i] = e[i]
    <2>1. a = Slice(e, 0, pos)
        BY DEF Slice
    <2> QED BY <1>1, <2>1, FrontCells
<1>3. b \in Seq(Cells) /\ Len(b) = z - pos /\ \A i \in 1..(z - pos) : b[i] = e[pos + i]
    <2> DEFINE m == Len(e)
    <2>1. pos <= m /\ m <= Len(e) /\ m \in Nat /\ pos \in Nat
        BY <1>1
    <2> HIDE DEF m
    <2>2. /\ SubSeq(e, pos + 1, m) \in Seq(Cells) /\ Len(SubSeq(e, pos + 1, m)) = m - pos
          /\ \A i \in 1..(m - pos) : SubSeq(e, pos + 1, m)[i] = e[pos + i]
        BY <2>1, SubSeqCells
    <2> QED BY <2>2 DEF m
<1> HIDE DEF a, b
<1>4. /\ (a \o g) \in Seq(Cells) /\ Len(a \o g) = pos + n
      /\ \A i \in 1..(pos + n) : (a \o g)[i] = IF i <= pos THEN a[i] ELSE g[i - pos]
    BY <1>2, ConcatProperties
<1>5. /\ ((a \o g) \o b) \in Seq(Cells) /\ Len((a \o g) \o b) = (pos + n) + (z - pos)
      /\ \A i \in 1..((pos + n) + (z - pos)) :
            ((a \o g) \o b)[i] = IF i <= pos + n THEN (a \o g)[i] ELSE b[i - (pos + n)]
    <2> DEFINE h == a \o g
    <2>1. h \in Seq(Cells) /\ b \in Seq(Cells) /\ Len(h) = pos + n /\ Len(b) = z - pos
        BY <1>3, <1>4
    <2> HIDE DEF h, z, n
    <2>2. /\ (h \o b) \in Seq(Cells) /\ Len(h \o b) = Len(h) + Len(b)
          /\ \A i \in 1..(Len(h) + Len(b)) :
                (h \o b)[i] = IF i <= Len(h) THEN h[i] ELSE b[i - Len(h)]
        BY <2>1, ConcatProperties
    <2> QED BY <2>1, <2>2 DEF h
<1>6. with = (a \o g) \o b
    BY DEF a, b
<1> HIDE DEF z, n
<1>7. (pos + n) + (z - pos) = z + n
    BY <1>1
<1>8. ASSUME NEW i \in 1..(z + n)
      PROVE  with[i] = IF i <= pos THEN e[i] ELSE IF i <= pos + n THEN g[i - pos] ELSE e[i - n]
    <2>1. CASE i <= pos
        <3>1. i <= pos + n /\ i \in 1..pos /\ i \in 1..(pos + n)
            BY <1>1, <2>1
        <3> QED BY <1>2, <1>4, <1>5, <1>6, <1>7, <2>1, <3>1
    <2>2. CASE ~(i <= pos) /\ i <= pos + n
        <3>1. i \in 1..(pos + n)
            BY <1>1, <2>2
        <3> QED BY <1>4, <1>5, <1>6, <1>7, <2>2, <3>1
    <2>3. CASE ~(i <= pos + n)
        <3>1. ~(i <= pos) /\ i - (pos + n) \in 1..(z - pos) /\ pos + (i - (pos + n)) = i - n
            BY <1>1, <2>3
        <3>2. with[i] = b[i - (pos + n)]
            BY <1>5, <1>6, <1>7, <2>3
        <3> QED BY <1>3, <2>3, <3>1, <3>2
    <2> QED BY <2>1, <2>2, <2>3
<1> QED BY <1>5, <1>6, <1>7, <1>8 DEF z, n

\* A call in which nothing threw has put the elements of the range between the others,
\* also if the range was part of them; another vector keeps its elements, except for a
\* tail of the range that was moved from.
LEMMA InsertRefines ==
    ASSUME Inv, NEW v \in Vectors, NEW w \in Vectors, NEW pos \in 0..size[v],
           NEW l \in 0..size[w], NEW f \in 0..l, insert(v, pos, w, f, l)
    PROVE  thrown' \/ Promise!Next
<1> DEFINE n == l - f
           range == Slice(storage[w], f, l)
           z == size[v]
           tail == n - Smaller(n, z - pos)
           s == Reserved(v, z + n)
           c == CapacityReserved(v, z + n)
           ev == elements(v)
           ew == elements(w)
           with == SubSeq(ev, 1, pos) \o SubSeq(ew, f + 1, l) \o SubSeq(ev, pos + 1, Len(ev))
<1>1. PICK items \in temp(v, w, range) :
        /\ storage' = [x \in Vectors |->
                IF x = v THEN Inserted(s, z, pos, items)
                ELSE IF x = w THEN RangeAfter(w, l, tail) ELSE storage[x]]
        /\ Swallows(items # range, [op |-> "insert", v |-> v, pos |-> pos,
                                     w |-> w, f |-> f, l |-> l])
    BY DEF insert
<1>2. /\ thrown' = (items # range)
      /\ call' = [op |-> "insert", v |-> v, pos |-> pos, w |-> w, f |-> f, l |-> l]
    BY <1>1 DEF Swallows, Ends
<1> SUFFICES ASSUME items = range PROVE Promise!Next
    BY <1>2
<1>3. z + n <= Room(v) /\ size' = [size EXCEPT ![v] = z + n]
    BY DEF insert
<1>4. /\ n \in Nat /\ l \in Nat /\ f \in Nat /\ f <= l /\ range \in Seq(Cells) /\ Len(range) = n
      /\ \A i \in 1..n : range[i] = storage[w][f + i]
    BY RangeCells
<1>5. /\ z \in Nat /\ pos \in Nat /\ pos <= z /\ storage[w] \in Seq(Cells)
      /\ size[w] \in Nat /\ l <= size[w] /\ size[w] <= Len(storage[w])
      /\ size \in [Vectors -> Sizes]
    BY VectorFacts DEF Inv, Shape
<1>6. /\ ev \in Seq(Cells) /\ Len(ev) = z /\ \A i \in 1..z : ev[i] = storage[v][i]
      /\ ew \in Seq(Cells) /\ Len(ew) = size[w] /\ \A i \in 1..size[w] : ew[i] = storage[w][i]
    BY ElementCells DEF Inv
<1> HIDE DEF n, z, range, ev, ew
<1>7. z + n \in Nat /\ z + n <= MaxSize
    BY <1>3, <1>4, <1>5, RoomBound, BoundFacts
<1>8. /\ s \in Seq(Cells) /\ Len(s) = c /\ c \in Nat /\ z + n <= c
      /\ \A i \in 1..z : s[i] = storage[v][i]
    BY <1>7, ReservedCells DEF z
<1> DEFINE r == Inserted(s, z, pos, range)
<1> HIDE DEF s, c, tail
<1>9. /\ r \in Seq(Cells) /\ Len(r) = c
      /\ \A i \in 1..c :
            r[i] = IF i <= pos THEN s[i] ELSE IF i <= pos + n THEN range[i - pos]
                   ELSE IF i <= z + n THEN s[i - n] ELSE s[i]
    <2>1. /\ s \in Seq(Cells) /\ z \in Nat /\ pos \in 0..z /\ range \in Seq(Cells)
          /\ z + Len(range) <= Len(s)
        BY <1>4, <1>5, <1>8
    <2>2. n = Len(range) /\ z + n <= Len(s)
        BY <1>4, <1>8
    <2>3. IsInserted(r, s, z, pos, range, n)
        BY <2>1, <2>2, InsertResult
    <2> HIDE DEF r
    <2> QED BY <1>8, <2>3 DEF IsInserted
<1>10. /\ storage'[v] = r /\ size'[v] = z + n
       /\ \A x \in Vectors \ {v} : size'[x] = size[x]
       /\ \A x \in Vectors \ {v} : storage'[x] = IF x = w THEN RangeAfter(w, l, tail) ELSE storage[x]
    <2>1. \A x \in Vectors :
             storage'[x] = IF x = v THEN r ELSE IF x = w THEN RangeAfter(w, l, tail) ELSE storage[x]
        BY <1>1 DEF r
    <2>2. size'[v] = z + n /\ \A x \in Vectors \ {v} : size'[x] = size[x]
        BY <1>3, <1>5
    <2> QED BY <2>1, <2>2
<1> HIDE DEF r
<1>11. /\ with \in Seq(Cells) /\ Len(with) = z + n
       /\ \A i \in 1..(z + n) :
             with[i] = IF i <= pos THEN ev[i] ELSE IF i <= pos + n THEN range[i - pos] ELSE ev[i - n]
    <2> DEFINE g == SubSeq(ew, f + 1, l)
    <2>1. /\ g \in Seq(Cells) /\ Len(g) = n /\ \A i \in 1..n : g[i] = ew[f + i]
        BY <1>4, <1>5, <1>6, SubSeqCells DEF n
    <2>2. \A i \in 1..n : g[i] = range[i]
        <3>1. \A i \in 1..n : f + i \in 1..size[w]
            BY <1>4, <1>5 DEF n
        <3> QED BY <1>4, <1>6, <2>1, <3>1
    <2>3. with = SubSeq(ev, 1, pos) \o g \o SubSeq(ev, pos + 1, Len(ev))
        OBVIOUS
    <2> HIDE DEF g, with
    <2>4. g = range
        BY <1>4, <2>1, <2>2, SeqEqual
    <2>5. pos \in 0..Len(ev)
        BY <1>5, <1>6
    <2>6. with = SubSeq(ev, 1, pos) \o range \o SubSeq(ev, pos + 1, Len(ev))
        BY <2>3, <2>4
    <2>7. /\ with \in Seq(Cells) /\ Len(with) = Len(ev) + Len(range)
          /\ \A i \in 1..(Len(ev) + Len(range)) :
                with[i] = IF i <= pos THEN ev[i]
                          ELSE IF i <= pos + Len(range) THEN range[i - pos] ELSE ev[i - Len(range)]
        <3>1. ev \in Seq(Cells) /\ range \in Seq(Cells)
            BY <1>4, <1>6
        <3> QED BY <2>5, <2>6, <3>1, SplicedCells, ZenonT(60)
    <2> QED BY <1>4, <1>6, <2>7
<1> HIDE DEF with
<1>12. elements(v)' = with
    <2>1. ASSUME NEW i \in 1..(z + n)
          PROVE  r[i] = with[i]
        <3>1. i \in 1..c
            BY <1>7, <1>8
        <3>2. CASE i <= pos
            <4>1. i \in 1..z
                BY <1>5, <3>2
            <4> QED BY <1>6, <1>8, <1>9, <1>11, <3>1, <3>2, <4>1
        <3>3. CASE ~(i <= pos) /\ i <= pos + n
            BY <1>9, <1>11, <3>1, <3>3
        <3>4. CASE ~(i <= pos + n)
            <4>1. i - n \in 1..z /\ ~(i <= pos) /\ i <= z + n
                BY <1>4, <1>5, <3>4
            <4>2. r[i] = s[i - n] /\ with[i] = ev[i - n]
                BY <1>9, <1>11, <3>1, <3>4, <4>1
            <4> QED BY <1>6, <1>8, <4>1, <4>2
        <3> QED BY <3>2, <3>3, <3>4
    <2>2. z + n <= Len(r)
        BY <1>8, <1>9
    <2>3. Slice(r, 0, z + n) = with
        BY <1>7, <1>9, <1>11, <2>1, <2>2, ElementsAre
    <2> QED BY <1>10, <2>3 DEF elements
<1>13. \A x \in Vectors \ {v, w} : elements(x)' = elements(x)
    BY <1>10, SameElements
<1>14. SubSeq(Contents[v], 1, pos) \o SubSeq(Contents[w], f + 1, l)
          \o SubSeq(Contents[v], pos + 1, Len(Contents[v])) = with
    BY ContentsOf DEF with, ev, ew
<1>15. Promise!Insert(v, pos, w, f, l)
    <2>1. CASE v = w
        <3>1. Contents' = [Contents EXCEPT ![v] = with]
            BY <1>12, <1>13, <2>1 DEF Contents
        <3> QED BY <1>14, <2>1, <3>1 DEF Promise!Insert, Promise!Become, Contents
    <2>2. CASE v # w
        <3> DEFINE k == IF NothrowMove THEN l - tail ELSE l
                   lost == Promise!LosesTail(ew, k, l)
        <3>1. tail \in Nat /\ tail <= n /\ l - tail \in Nat /\ l - tail \in f..l
            <4>1. Smaller(n, z - pos) \in Nat /\ Smaller(n, z - pos) <= n
                <5>1. z - pos \in Nat
                    BY <1>5
                <5> QED BY <1>4, <5>1, SmallerOf
            <4>2. tail \in Nat /\ tail <= n
                BY <1>4, <4>1 DEF tail
            <4> QED BY <1>4, <4>2 DEF n
        <3>2. k \in f..l /\ k \in Nat
            BY <1>4, <3>1
        <3>3. /\ RangeAfter(w, l, tail) \in Seq(Cells)
              /\ Len(RangeAfter(w, l, tail)) = Len(storage[w])
              /\ \A i \in 1..Len(storage[w]) :
                    RangeAfter(w, l, tail)[i] =
                       IF NothrowMove /\ l - tail < i /\ i <= l THEN Husk ELSE storage[w][i]
            BY <1>4, <1>5, <3>1, TakenCells DEF RangeAfter
        <3>4. \A i \in 1..size[w] :
                 (NothrowMove /\ l - tail < i /\ i <= l) <=> i \in (k + 1)..l
            BY <1>4, <3>1
        <3>5. \A i \in 1..size[w] :
                 RangeAfter(w, l, tail)[i] = IF i \in (k + 1)..l THEN Husk ELSE ew[i]
            <4> HIDE DEF k
            <4>1. \A i \in 1..size[w] : i \in 1..Len(storage[w])
                BY <1>5
            <4> QED BY <1>6, <3>3, <3>4, <4>1
        <3> HIDE DEF k
        <3>6. /\ lost \in Seq(Cells) /\ Len(lost) = size[w]
              /\ \A i \in 1..size[w] : lost[i] = IF i \in (k + 1)..l THEN Husk ELSE ew[i]
            <4>1. DOMAIN ew = 1..size[w] /\ \A i \in 1..size[w] : ew[i] \in Cells
                BY <1>5, <1>6
            <4>2. lost = [i \in 1..size[w] |-> IF i \in (k + 1)..l THEN Husk ELSE ew[i]]
                BY <4>1 DEF Promise!LosesTail
            <4>3. Husk \in Cells
                BY CellFacts
            <4> HIDE DEF lost
            <4>4. lost \in [1..size[w] -> Cells]
                BY <4>1, <4>2, <4>3
            <4> QED BY <1>5, <4>2, <4>4, SeqOfCells
        <3> HIDE DEF lost
        <3>7. elements(w)' = lost
            <4>1. \A i \in 1..size[w] : RangeAfter(w, l, tail)[i] = lost[i]
                BY <3>5, <3>6
            <4>2. Slice(RangeAfter(w, l, tail), 0, size[w]) = lost
                <5>1. size[w] <= Len(RangeAfter(w, l, tail))
                    BY <1>5, <3>3
                <5> QED BY <1>5, <3>3, <3>6, <4>1, <5>1, ElementsAre
            <4> QED BY <1>10, <2>2, <4>2 DEF elements
        <3>8. Contents' = [Contents EXCEPT ![v] = with, ![w] = lost]
            BY <1>12, <1>13, <2>2, <3>7 DEF Contents
        <3>9. lost = Promise!LosesTail(Contents[w], k, l)
            BY ContentsOf DEF lost, ew
        <3>10. Contents' = [Contents EXCEPT ![v] = with, ![w] = Promise!LosesTail(@, k, l)]
            BY <2>2, <3>8, <3>9 DEF Contents
        <3> QED BY <1>14, <2>2, <3>2, <3>10 DEF Promise!Insert, Contents
    <2> QED BY <2>1, <2>2
<1>16. /\ call'.op = "insert" /\ call'.v = v /\ call'.pos = pos
       /\ call'.w = w /\ call'.f = f /\ call'.l = l
    BY <1>2
<1> QED BY <1>15, <1>16 DEF Promise!Next

LEMMA NextRefines ==
    ASSUME Inv, Next
    PROVE  thrown' \/ Promise!Next
<1>1. PICK v \in Vectors :
        \/ Construct(v) \/ ConstructThrows(v) \/ NothingDone(v)
        \/ \E w \in Vectors : CopyConstruct(v, w) \/ MoveConstruct(v, w) \/ swap(v, w)
        \/ \E x \in Arguments(v) : push_back(v, x)
        \/ pop_back(v) \/ shrink_to_fit(v)
        \/ \E n \in 0..Room(v) : reserve(v, n) \/ resize(v, n) \/ ResizeThrows(v, n)
        \/ \E w \in Vectors, pos \in 0..size[v] : \E l \in 0..size[w] : \E f \in 0..l :
              insert(v, pos, w, f, l) \/ InsertThrows(v, pos, w, f, l)
    BY DEF Next
<1>2. CASE Construct(v)
    BY <1>2, ConstructRefines
<1>3. CASE ConstructThrows(v) \/ NothingDone(v)
    BY <1>3, ThrowsFacts DEF ConstructThrows, NothingDone
<1>4. CASE \E w \in Vectors : CopyConstruct(v, w) \/ MoveConstruct(v, w) \/ swap(v, w)
    BY <1>4, CopyConstructRefines, MoveConstructRefines, swapRefines
<1>5. CASE \E x \in Arguments(v) : push_back(v, x)
    BY <1>5, push_backRefines
<1>6. CASE pop_back(v) \/ shrink_to_fit(v)
    BY <1>6, pop_backRefines, shrink_to_fitRefines
<1>7. CASE \E n \in 0..Room(v) : reserve(v, n) \/ resize(v, n) \/ ResizeThrows(v, n)
    <2>1. ASSUME NEW n \in 0..Room(v), ResizeThrows(v, n)
          PROVE  thrown'
        BY <2>1, ThrowsFacts DEF ResizeThrows
    <2> QED BY <1>7, <2>1, reserveRefines, resizeRefines
<1>8. CASE \E w \in Vectors, pos \in 0..size[v] : \E l \in 0..size[w] : \E f \in 0..l :
              insert(v, pos, w, f, l) \/ InsertThrows(v, pos, w, f, l)
    <2>1. ASSUME NEW w \in Vectors, NEW pos \in 0..size[v], NEW l \in 0..size[w], NEW f \in 0..l,
                 InsertThrows(v, pos, w, f, l)
          PROVE  thrown'
        BY <2>1, ThrowsFacts DEF InsertThrows
    <2> QED BY <1>8, <2>1, InsertRefines
<1> QED BY <1>1, <1>2, <1>3, <1>4, <1>5, <1>6, <1>7, <1>8

LEMMA InitRefines == Init => Promise!Init
<1>1. ASSUME Init, NEW v \in Vectors
      PROVE  elements(v) = <<>>
    <2>1. SubSeq(<<>>, 0 + 1, 0) = <<>>
        BY SubSeqEmpty
    <2> QED BY <1>1, <2>1 DEF Init, elements, Slice
<1> QED BY <1>1 DEF Promise!Init


-----------------------------------------------------------------------------
(* The theorems *)

\* For every bound on the elements, doubling keeps the capacities within twice the bound
\* less two, and every storage is a sequence of cells of that length.
THEOREM TypeCorrect == Spec => []TypeOK
<1>1. ASSUME Inv
      PROVE  TypeOK
    <2>1. ASSUME NEW v \in Vectors
          PROVE  storage[v] \in BoundedSeq(Cells, 2 * MaxSize - 2)
        <3>1. /\ storage[v] \in Seq(Cells) /\ Len(storage[v]) = capacity[v]
              /\ capacity[v] \in 0..(2 * MaxSize - 2)
            BY <1>1, VectorFacts DEF Inv, Capacities
        <3>2. storage[v] \in [1..capacity[v] -> Cells]
            BY <3>1
        <3> QED BY <3>1, <3>2 DEF BoundedSeq, SeqOf
    <2>2. storage \in [Vectors -> BoundedSeq(Cells, 2 * MaxSize - 2)]
        BY <1>1, <2>1 DEF Inv, Shape
    <2> QED BY <1>1, <2>2 DEF Inv, Shape, Ending, TypeOK, Sizes, Capacities
<1> QED BY <1>1, Invariance, PTL

\* Whatever vectors of whatever sizes do to each other, if nothing throws then the first
\* m_size cells hold objects, those up to m_capacity hold none, and there are as many
\* as m_capacity says.
THEOREM Exact == Spec => []ElementsExactly
BY Invariance, PTL DEF Inv

\* A type that moves without throwing, whether or not its copies throw, loses no value
\* but one stranded beyond the elements: all else that its vectors abandon in freed or
\* overwritten memory was moved from, and only a call that ends in an exception strands.
THEOREM HusksOnly == Spec => OnlyHusksSpilled
<1>1. ASSUME Inv, [Next]_vars
      PROVE  [NothrowMove => /\ spilled' \subseteq {Husk} \cup Stranded
                             /\ Stranded' \subseteq Stranded \/ propagated']_vars
    BY <1>1, NextOutcome DEF Outcome
<1> QED BY <1>1, Invariance, PTL DEF Spec, OnlyHusksSpilled

\* An exception that leaves any call, also insert in the middle of moving elements aside,
\* finds every element of every vector an object.
THEOREM IntactOnThrow == Spec => IntactAfterException
<1>1. ASSUME Inv, [Next]_vars
      PROVE  [propagated' => ElementsSurvive']_vars
    BY <1>1, NextOutcome DEF Outcome
<1> QED BY <1>1, Invariance, PTL DEF Spec, IntactAfterException

\* The vectors, with all the reallocation, relocation and shifting inside, are plain
\* sequences of elements: every call in which no constructor or assignment of T throws
\* has on them the effect its name and arguments promise, aliased calls included.
THEOREM ImplementsSequences == Spec => RefinesSequences
<1>1. ASSUME Inv, [Next]_vars
      PROVE  [thrown' \/ Promise!Next]_vars
    BY <1>1, NextRefines
<1> QED BY <1>1, InitRefines, Invariance, PTL DEF Spec, RefinesSequences
=============================================================================
