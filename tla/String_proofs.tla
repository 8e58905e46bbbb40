---------------------------- MODULE String_proofs ----------------------------
(* Theorems about String, for any strings, chars, short capacity and bound. *)
EXTENDS String, SequenceTheorems, FiniteSetTheorems, WellFoundedInduction, TLAPS

Cells == Chars \cup {Nul, Junk}
Written == Chars \cup {Nul}          \* what a text may consist of

LEMMA CellFacts ==
    /\ Written \subseteq Cells /\ Nul \in Written /\ Junk \in Cells /\ Junk \notin Written
    /\ Chars \subseteq Written /\ \A x \in Cells : x # Junk => x \in Written
BY StringAssumption DEF Cells, Written

LEMMA NumberFacts ==
    /\ ShortCapacity \in Nat /\ ShortCapacity > 2 /\ MaxSize \in Nat
    /\ SizeMax \in Nat /\ SizeMax > 2 * MaxSize + ShortCapacity
<1>1. ShortCapacity \in Nat /\ ShortCapacity % 2 = 1 /\ ShortCapacity > 1
    BY StringAssumption
<1>2. ShortCapacity # 2
    BY <1>1
<1> QED BY <1>1, <1>2, StringAssumption

-----------------------------------------------------------------------------
(* Buffers *)

LEMMA WrittenAreCells ==
    ASSUME NEW xs \in Seq(Written)
    PROVE  xs \in Seq(Cells)
BY CellFacts

LEMMA SeqOfCells ==
    ASSUME NEW n \in Nat, NEW s \in [1..n -> Cells]
    PROVE  s \in Seq(Cells) /\ Len(s) = n
OBVIOUS

LEMMA SeqOfWritten ==
    ASSUME NEW n \in Nat, NEW s \in [1..n -> Written]
    PROVE  s \in Seq(Written) /\ Len(s) = n
OBVIOUS

LEMMA BlankCells ==
    ASSUME NEW n \in Nat
    PROVE  Blank(n) \in Seq(Cells) /\ Len(Blank(n)) = n
<1>1. Blank(n) \in [1..n -> Cells]
    BY CellFacts DEF Blank
<1> QED BY <1>1, SeqOfCells

LEMMA PutCells ==
    ASSUME NEW b \in Seq(Cells), NEW at \in Nat, NEW xs \in Seq(Cells)
    PROVE  /\ Put(b, at, xs) \in Seq(Cells) /\ Len(Put(b, at, xs)) = Len(b)
           /\ \A i \in 1..Len(b) :
                 Put(b, at, xs)[i] = IF at < i /\ i <= at + Len(xs) THEN xs[i - at] ELSE b[i]
<1>1. /\ Len(b) \in Nat /\ Len(xs) \in Nat
      /\ DOMAIN b = 1..Len(b) /\ DOMAIN xs = 1..Len(xs)
    OBVIOUS
<1>2. \A i \in 1..Len(b) : i - at \in DOMAIN xs <=> at < i /\ i <= at + Len(xs)
    BY <1>1
<1>3. \A i \in 1..Len(b) : b[i] \in Cells
    OBVIOUS
<1>4. \A j \in DOMAIN xs : xs[j] \in Cells
    OBVIOUS
<1>5. Put(b, at, xs) \in [1..Len(b) -> Cells]
    BY <1>1, <1>3, <1>4 DEF Put
<1>6. Put(b, at, xs) \in Seq(Cells) /\ Len(Put(b, at, xs)) = Len(b)
    BY <1>1, <1>5, SeqOfCells
<1> QED BY <1>1, <1>2, <1>6 DEF Put

LEMMA SliceOf ==
    ASSUME NEW C, NEW s \in Seq(C), NEW f \in Nat, NEW t \in Nat, f <= t, t <= Len(s)
    PROVE  /\ Slice(s, f, t) \in Seq(C) /\ Len(Slice(s, f, t)) = t - f
           /\ \A i \in 1..(t - f) : Slice(s, f, t)[i] = s[f + i]
<1>1. Len(s) \in Nat /\ \A i \in (f + 1)..t : s[i] \in C
    OBVIOUS
<1>2. /\ SubSeq(s, f + 1, t) \in Seq(C)
      /\ Len(SubSeq(s, f + 1, t)) = IF f + 1 <= t THEN t - (f + 1) + 1 ELSE 0
      /\ \A i \in 1..(t - (f + 1) + 1) : SubSeq(s, f + 1, t)[i] = s[(f + 1) + i - 1]
    BY <1>1, SubSeqProperties
<1>3. \A i \in 1..(t - f) : (f + 1) + i - 1 = f + i
    OBVIOUS
<1>4. t - (f + 1) + 1 = t - f
    OBVIOUS
<1> QED BY <1>2, <1>3, <1>4 DEF Slice

LEMMA SliceCells ==
    ASSUME NEW s \in Seq(Cells), NEW f \in Nat, NEW t \in Nat, f <= t, t <= Len(s)
    PROVE  /\ Slice(s, f, t) \in Seq(Cells) /\ Len(Slice(s, f, t)) = t - f
           /\ \A i \in 1..(t - f) : Slice(s, f, t)[i] = s[f + i]
BY SliceOf

LEMMA FrontCells ==
    ASSUME NEW s \in Seq(Cells), NEW n \in Nat, n <= Len(s)
    PROVE  /\ Slice(s, 0, n) \in Seq(Cells) /\ Len(Slice(s, 0, n)) = n
           /\ \A i \in 1..n : Slice(s, 0, n)[i] = s[i]
<1>1. 0 \in Nat /\ 0 <= n /\ n - 0 = n
    OBVIOUS
<1>2. /\ Slice(s, 0, n) \in Seq(Cells) /\ Len(Slice(s, 0, n)) = n - 0
      /\ \A i \in 1..(n - 0) : Slice(s, 0, n)[i] = s[0 + i]
    BY <1>1, SliceCells
<1>3. \A i \in 1..n : 0 + i = i
    OBVIOUS
<1> QED BY <1>1, <1>2, <1>3

LEMMA TerminatedCells ==
    ASSUME NEW xs \in Seq(Written)
    PROVE  /\ Terminated(xs) \in Seq(Cells) /\ Len(Terminated(xs)) = Len(xs) + 1
           /\ Terminated(xs)[Len(xs) + 1] = Nul
           /\ \A i \in 1..Len(xs) : Terminated(xs)[i] = xs[i]
<1>1. xs \in Seq(Cells) /\ Nul \in Cells
    BY CellFacts
<1> QED BY <1>1 DEF Terminated

\* A buffer that begins with xs and a terminator.
Starts(b, xs) ==
    /\ b \in Seq(Cells) /\ Len(xs) < Len(b)
    /\ b[Len(xs) + 1] = Nul
    /\ \A i \in 1..Len(xs) : b[i] = xs[i]

LEMMA TextWritten ==
    ASSUME NEW b \in Seq(Cells), NEW xs \in Seq(Written)
    PROVE  /\ Put(b, 0, Terminated(xs)) \in Seq(Cells)
           /\ Len(Put(b, 0, Terminated(xs))) = Len(b)
           /\ Len(xs) < Len(b) => Starts(Put(b, 0, Terminated(xs)), xs)
<1> DEFINE e == Terminated(xs)
           y == Put(b, 0, e)
<1>1. /\ e \in Seq(Cells) /\ Len(e) = Len(xs) + 1 /\ e[Len(xs) + 1] = Nul
      /\ \A i \in 1..Len(xs) : e[i] = xs[i]
    BY TerminatedCells
<1> HIDE DEF e
<1>2. /\ y \in Seq(Cells) /\ Len(y) = Len(b)
      /\ \A i \in 1..Len(b) : y[i] = IF 0 < i /\ i <= 0 + Len(e) THEN e[i - 0] ELSE b[i]
    BY <1>1, PutCells
<1> HIDE DEF y
<1>3. ASSUME Len(xs) < Len(b)
      PROVE  Starts(y, xs)
    <2>1. \A i \in 1..(Len(xs) + 1) :
             i \in 1..Len(b) /\ 0 < i /\ i <= 0 + Len(e) /\ i - 0 = i
        BY <1>1, <1>3
    <2>2. \A i \in 1..(Len(xs) + 1) : y[i] = e[i]
        BY <1>2, <2>1
    <2>3. y[Len(xs) + 1] = Nul /\ \A i \in 1..Len(xs) : y[i] = xs[i]
        BY <1>1, <2>2
    <2> QED BY <1>2, <1>3, <2>3 DEF Starts
<1> QED BY <1>2, <1>3 DEF e, y

-----------------------------------------------------------------------------
(* Strings *)

Records == [form : {"short", "long"}, buffer : Seq(Cells), size : Nat]

\* A short string has the short buffer, a long one an even buffer.
Shaped(r) ==
    /\ r \in Records
    /\ is_short_string(r) => Len(r.buffer) = ShortCapacity
    /\ ~is_short_string(r) => Len(r.buffer) % 2 = 0

\* There is room for a terminator, or no buffer at all, and the text is written.
Sound(r) ==
    /\ r.size < Len(r.buffer) \/ (r.size = 0 /\ r.buffer = <<>>)
    /\ \A i \in 1..r.size : r.buffer[i] # Junk

Holds(r, xs) == r.size = Len(xs) /\ Starts(r.buffer, xs)

LEMMA RecordFacts ==
    ASSUME NEW r \in Records
    PROVE  r.buffer \in Seq(Cells) /\ r.size \in Nat /\ Len(r.buffer) \in Nat
BY DEF Records

\* r with another buffer and size, written in either order.
Changed(r, b, n) == [r EXCEPT !.buffer = b, !.size = n]
ChangedSizeFirst(r, b, n) == [r EXCEPT !.size = n, !.buffer = b]

LEMMA ChangedFacts ==
    ASSUME NEW r \in Records, NEW b \in Seq(Cells), NEW n \in Nat
    PROVE  /\ Changed(r, b, n).buffer = b /\ Changed(r, b, n).size = n
           /\ Shaped(r) /\ Len(b) = Len(r.buffer) => Shaped(Changed(r, b, n))
BY DEF Changed, Records, Shaped, is_short_string

LEMMA ChangedSizeFirstFacts ==
    ASSUME NEW r \in Records, NEW b \in Seq(Cells), NEW n \in Nat
    PROVE  /\ ChangedSizeFirst(r, b, n).buffer = b /\ ChangedSizeFirst(r, b, n).size = n
           /\ Shaped(r) /\ Len(b) = Len(r.buffer) => Shaped(ChangedSizeFirst(r, b, n))
BY DEF ChangedSizeFirst, Records, Shaped, is_short_string

LEMMA RewrittenFacts ==
    ASSUME NEW r \in Records, NEW b \in Seq(Cells)
    PROVE  LET q == [r EXCEPT !.buffer = b]
           IN  /\ q \in Records /\ q.buffer = b /\ q.size = r.size /\ q.form = r.form
               /\ Shaped(r) /\ Len(b) = Len(r.buffer) => Shaped(q)
BY DEF Records, Shaped, is_short_string

LEMMA ShortFacts ==
    ASSUME NEW b \in Seq(Cells), NEW n \in Nat, Len(b) = ShortCapacity
    PROVE  Shaped(Short(b, n)) /\ Short(b, n).buffer = b /\ Short(b, n).size = n
BY DEF Short, Shaped, Records, is_short_string

LEMMA LongFacts ==
    ASSUME NEW b \in Seq(Cells), NEW n \in Nat, Len(b) % 2 = 0
    PROVE  Shaped(Long(b, n)) /\ Long(b, n).buffer = b /\ Long(b, n).size = n
BY DEF Long, Shaped, Records, is_short_string

LEMMA TextFacts ==
    ASSUME NEW r \in Records, Sound(r)
    PROVE  /\ text(r) \in Seq(Written) /\ Len(text(r)) = r.size /\ r.size <= Len(r.buffer)
           /\ \A i \in 1..r.size : text(r)[i] = r.buffer[i]
<1> DEFINE e == text(r)
<1>1. r.buffer \in Seq(Cells) /\ r.size \in Nat /\ r.size <= Len(r.buffer)
    BY RecordFacts DEF Sound
<1>2. e \in Seq(Cells) /\ Len(e) = r.size /\ \A i \in 1..r.size : e[i] = r.buffer[i]
    BY <1>1, FrontCells DEF text
<1> HIDE DEF e
<1>3. \A i \in 1..r.size : e[i] \in Cells /\ e[i] # Junk
    BY <1>2 DEF Sound
<1>4. e \in [1..r.size -> Written]
    BY <1>2, <1>3, CellFacts
<1> QED BY <1>1, <1>2, <1>4, SeqOfWritten DEF e

LEMMA HeldText ==
    ASSUME NEW r \in Records, NEW xs \in Seq(Written), Holds(r, xs)
    PROVE  Sound(r) /\ Ended(r) /\ text(r) = xs
<1>1. /\ r.size = Len(xs) /\ Len(xs) < Len(r.buffer) /\ r.buffer[r.size + 1] = Nul
      /\ \A i \in 1..r.size : r.buffer[i] = xs[i]
    BY DEF Holds, Starts
<1>2. \A i \in 1..r.size : r.buffer[i] # Junk
    BY <1>1, CellFacts
<1>3. Sound(r)
    BY <1>1, <1>2 DEF Sound
<1>4. text(r) = xs
    <2>1. text(r) \in Seq(Written) /\ Len(text(r)) = r.size /\ \A i \in 1..r.size : text(r)[i] = r.buffer[i]
        BY <1>3, TextFacts
    <2> QED BY <1>1, <2>1, SeqEqual
<1>5. Junk \notin ToSet(xs)
    BY CellFacts DEF ToSet
<1> QED BY <1>1, <1>3, <1>4, <1>5 DEF Ended

-----------------------------------------------------------------------------
(* Constructors, copies and moves *)

LEMMA EvenFacts ==
    ASSUME NEW n \in Nat
    PROVE  Even(n) \in Nat /\ n <= Even(n) /\ Even(n) % 2 = 0
BY DEF Even

LEMMA NoChars ==
    /\ <<>> \in Seq(Written) /\ <<>> \in Seq(Cells) /\ Len(<<>>) = 0
    /\ Terminated(<<>>) = <<Nul>>
BY DEF Terminated

LEMMA NulCells == <<Nul>> \in Seq(Cells) /\ Len(<<Nul>>) = 1 /\ <<Nul>>[1] = Nul
BY CellFacts

LEMMA EmptyHolds ==
    /\ Shaped(Empty) /\ Holds(Empty, <<>>)
    /\ Empty.buffer \in Seq(Cells) /\ Len(Empty.buffer) = ShortCapacity /\ is_short_string(Empty)
<1> DEFINE b == Put(Blank(ShortCapacity), 0, <<Nul>>)
<1>1. Blank(ShortCapacity) \in Seq(Cells) /\ Len(Blank(ShortCapacity)) = ShortCapacity
    BY NumberFacts, BlankCells
<1>2. b \in Seq(Cells) /\ Len(b) = ShortCapacity /\ Starts(b, <<>>)
    <2>1. Len(<<>>) < Len(Blank(ShortCapacity))
        BY <1>1, NumberFacts, NoChars
    <2> QED BY <1>1, <2>1, NoChars, TextWritten
<1> HIDE DEF b
<1>3. Empty = Short(b, 0)
    BY DEF Empty, b
<1>4. Shaped(Short(b, 0)) /\ Short(b, 0).buffer = b /\ Short(b, 0).size = 0
    BY <1>2, ShortFacts
<1> QED BY <1>2, <1>3, <1>4, NoChars DEF Holds, is_short_string, Short

LEMMA LiteralHolds ==
    ASSUME NEW xs \in Seq(Chars)
    PROVE  Shaped(FromLiteral(xs)) /\ Holds(FromLiteral(xs), xs)
<1>1. xs \in Seq(Written) /\ Len(xs) \in Nat
    BY CellFacts
<1>2. CASE Len(xs) > 0 /\ Len(xs) < ShortCapacity
    <2> DEFINE b == Put(Empty.buffer, 0, Terminated(xs))
    <2>1. b \in Seq(Cells) /\ Len(b) = ShortCapacity /\ Starts(b, xs)
        BY <1>1, <1>2, EmptyHolds, TextWritten
    <2> HIDE DEF b
    <2>2. FromLiteral(xs) = Short(b, Len(xs))
        BY <1>2 DEF FromLiteral, construct_fast_path, b
    <2> QED BY <1>1, <2>1, <2>2, ShortFacts DEF Holds
<1>3. CASE ~(Len(xs) > 0 /\ Len(xs) < ShortCapacity)
    <2> DEFINE k == Even(Len(xs) + 1)
               b == Put(Blank(k), 0, Terminated(xs))
    <2>1. k \in Nat /\ Len(xs) < k /\ k % 2 = 0
        <3>1. Len(xs) + 1 \in Nat
            BY <1>1
        <3>2. k \in Nat /\ Len(xs) + 1 <= k /\ k % 2 = 0
            BY <3>1, EvenFacts
        <3> HIDE DEF k
        <3> QED BY <1>1, <3>2
    <2> HIDE DEF k
    <2>2. Blank(k) \in Seq(Cells) /\ Len(Blank(k)) = k
        BY <2>1, BlankCells
    <2>3. b \in Seq(Cells) /\ Len(b) = k /\ Starts(b, xs)
        BY <1>1, <2>1, <2>2, TextWritten
    <2>4. FromLiteral(xs) = Long(b, Len(xs))
        BY <1>3 DEF FromLiteral, construct_slow_path, b, k
    <2> HIDE DEF b
    <2> QED BY <1>1, <2>1, <2>3, <2>4, LongFacts DEF Holds
<1> QED BY <1>2, <1>3

LEMMA CopyHolds ==
    ASSUME NEW r, Shaped(r), Sound(r)
    PROVE  /\ Shaped(CopyOf(r)) /\ CopyOf(r).size = r.size
           /\ CopyFits(r) => Holds(CopyOf(r), text(r))
           /\ CopyFits(r) <=> r.size < Len(r.buffer)
<1> DEFINE c == CopyBuffer(r)
           b == Put(c, 0, Terminated(text(r)))
<1>1. r \in Records /\ Len(r.buffer) \in Nat /\ r.size \in Nat
    BY RecordFacts DEF Shaped
<1>2. text(r) \in Seq(Written) /\ Len(text(r)) = r.size
    BY <1>1, TextFacts
<1>3. c \in Seq(Cells) /\ Len(c) = Len(r.buffer)
    <2>1. c = Blank(Len(r.buffer))
        BY DEF Shaped, CopyBuffer
    <2> QED BY <1>1, <2>1, BlankCells
<1>4. Len(Terminated(text(r))) = r.size + 1
    BY <1>2, TerminatedCells
<1> HIDE DEF c
<1>5. CopyFits(r) <=> r.size < Len(r.buffer)
    <2>1. CopyFits(r) <=> 0 + Len(Terminated(text(r))) <= Len(c)
        BY DEF CopyFits, Fits, c
    <2> QED BY <1>1, <1>3, <1>4, <2>1
<1>6. b \in Seq(Cells) /\ Len(b) = Len(r.buffer) /\ (r.size < Len(r.buffer) => Starts(b, text(r)))
    BY <1>2, <1>3, TextWritten
<1> HIDE DEF b
<1>7. CopyOf(r) = [r EXCEPT !.buffer = b]
    BY DEF CopyOf, b, c
<1>8. Shaped(CopyOf(r)) /\ CopyOf(r).size = r.size /\ CopyOf(r).buffer = b
    BY <1>1, <1>6, <1>7, RewrittenFacts
<1> QED BY <1>2, <1>5, <1>6, <1>8 DEF Holds

\* What arrives by a move, and what stays behind.
Arrives(r) == IF is_short_string(r) THEN text(r) ELSE Put(text(r), 0, <<Nul>>)

LEMMA ArrivesWritten ==
    ASSUME NEW r, Shaped(r), Sound(r)
    PROVE  /\ Arrives(r) \in Seq(Written) /\ Len(Arrives(r)) = r.size
           /\ ~is_short_string(r) =>
                 \A i \in 1..r.size : Arrives(r)[i] = IF i = 1 THEN Nul ELSE r.buffer[i]
<1>1. r \in Records /\ r.size \in Nat
    BY RecordFacts DEF Shaped
<1>2. /\ text(r) \in Seq(Written) /\ Len(text(r)) = r.size
      /\ \A i \in 1..r.size : text(r)[i] = r.buffer[i]
    BY <1>1, TextFacts
<1>3. CASE is_short_string(r)
    BY <1>2, <1>3 DEF Arrives
<1>4. CASE ~is_short_string(r)
    <2> DEFINE e == Put(text(r), 0, <<Nul>>)
    <2>1. /\ e \in Seq(Cells) /\ Len(e) = Len(text(r))
          /\ \A i \in 1..Len(text(r)) :
                e[i] = IF 0 < i /\ i <= 0 + Len(<<Nul>>) THEN <<Nul>>[i - 0] ELSE text(r)[i]
        BY <1>2, NulCells, WrittenAreCells, PutCells
    <2> HIDE DEF e
    <2>2. ASSUME NEW i \in 1..r.size
          PROVE  e[i] = IF i = 1 THEN Nul ELSE r.buffer[i]
        <3>1. 0 + Len(<<Nul>>) = 1 /\ 0 < i /\ (i <= 1 <=> i = 1) /\ i - 0 = i
            BY <1>1, NulCells
        <3> QED BY <1>2, <2>1, <3>1, NulCells
    <2>3. \A i \in 1..r.size : e[i] \in Written
        BY <1>2, <2>2, CellFacts
    <2>4. e \in [1..r.size -> Written]
        BY <1>2, <2>1, <2>3
    <2>5. e \in Seq(Written) /\ Len(e) = r.size
        BY <1>1, <2>4, SeqOfWritten
    <2> QED BY <1>4, <2>2, <2>5 DEF Arrives, e
<1> QED BY <1>3, <1>4

LEMMA MovedToHolds ==
    ASSUME NEW r, Shaped(r), Sound(r)
    PROVE  /\ Shaped(MovedTo(r)) /\ MovedTo(r).size = r.size
           /\ MoveFits(r) => Holds(MovedTo(r), Arrives(r))
           /\ MoveFits(r) <=> r.size < Len(r.buffer)
<1> DEFINE n == r.size
           c == Len(r.buffer)
<1>1. r \in Records /\ r.buffer \in Seq(Cells) /\ c \in Nat /\ n \in Nat
    BY RecordFacts DEF Shaped
<1>2. MoveFits(r) <=> n < c
    <2>1. MoveFits(r) <=> n + Len(<<Nul>>) <= c
        BY DEF MoveFits, Fits
    <2> HIDE DEF n, c
    <2> QED BY <1>1, <2>1, NulCells
<1>3. CASE is_short_string(r)
    <2>1. MovedTo(r) = CopyOf(r) /\ Arrives(r) = text(r)
        BY <1>3 DEF MovedTo, Arrives
    <2> QED BY <1>2, <2>1, CopyHolds
<1>4. CASE ~is_short_string(r)
    <2> DEFINE d == Put(r.buffer, 0, <<Nul>>)
               b == Put(d, n, <<Nul>>)
    <2>1. /\ d \in Seq(Cells) /\ Len(d) = c
          /\ \A i \in 1..c : d[i] = IF 0 < i /\ i <= 0 + Len(<<Nul>>) THEN <<Nul>>[i - 0] ELSE r.buffer[i]
        <3> DEFINE mem == r.buffer
        <3>1. mem \in Seq(Cells) /\ 0 \in Nat
            BY <1>1
        <3> HIDE DEF mem
        <3>2. /\ Put(mem, 0, <<Nul>>) \in Seq(Cells) /\ Len(Put(mem, 0, <<Nul>>)) = Len(mem)
              /\ \A i \in 1..Len(mem) :
                    Put(mem, 0, <<Nul>>)[i] =
                       IF 0 < i /\ i <= 0 + Len(<<Nul>>) THEN <<Nul>>[i - 0] ELSE mem[i]
            BY <3>1, NulCells, PutCells
        <3> QED BY <3>2 DEF mem
    <2> HIDE DEF d
    <2>2. \A i \in 1..c : d[i] = IF i = 1 THEN Nul ELSE r.buffer[i]
        <3>1. \A i \in 1..c : 0 + Len(<<Nul>>) = 1 /\ 0 < i /\ (i <= 1 <=> i = 1) /\ i - 0 = i
            BY <1>1, NulCells
        <3> QED BY <2>1, <3>1, NulCells
    <2> HIDE DEF n
    <2>3. /\ b \in Seq(Cells) /\ Len(b) = Len(d)
          /\ \A i \in 1..Len(d) : b[i] = IF n < i /\ i <= n + Len(<<Nul>>) THEN <<Nul>>[i - n] ELSE d[i]
        BY <1>1, <2>1, NulCells, PutCells
    <2> HIDE DEF b
    <2>4. MovedTo(r) = [r EXCEPT !.buffer = b]
        BY <1>4 DEF MovedTo, b, d, n
    <2>5. Shaped(MovedTo(r)) /\ MovedTo(r).size = r.size /\ MovedTo(r).buffer = b
        BY <1>1, <2>1, <2>3, <2>4, RewrittenFacts
    <2>6. /\ Len(Arrives(r)) = n /\ \A i \in 1..n : Arrives(r)[i] = IF i = 1 THEN Nul ELSE r.buffer[i]
        BY <1>4, ArrivesWritten DEF n
    <2>7. ASSUME n < c
          PROVE  Starts(b, Arrives(r))
        <3> HIDE DEF c
        <3>1. \A i \in 1..n : i \in 1..c /\ ~(n < i)
            BY <1>1, <2>7
        <3>2. \A i \in 1..n : b[i] = Arrives(r)[i]
            BY <2>1, <2>2, <2>3, <2>6, <3>1
        <3>3. n + 1 \in 1..c /\ n < n + 1 /\ n + 1 <= n + Len(<<Nul>>) /\ (n + 1) - n = 1
            BY <1>1, <2>7, NulCells
        <3>4. b[n + 1] = Nul
            BY <2>1, <2>3, <3>3, NulCells
        <3> QED BY <2>1, <2>3, <2>6, <2>7, <3>2, <3>4 DEF Starts
    <2> QED BY <1>2, <2>5, <2>6, <2>7 DEF Holds, n
<1> QED BY <1>3, <1>4

LEMMA MovedFromHolds ==
    ASSUME NEW r, Shaped(r)
    PROVE  /\ Shaped(MovedFrom(r)) /\ MovedFrom(r).size = 0 /\ Sound(MovedFrom(r))
           /\ text(MovedFrom(r)) = <<>>
           /\ Ended(MovedFrom(r)) \/ MovedFrom(r).buffer = <<>>
           /\ ~is_short_string(r) => MovedFrom(r) = Long(<<>>, 0)
<1>1. r \in Records /\ r.buffer \in Seq(Cells)
    BY RecordFacts DEF Shaped
<1>2. CASE is_short_string(r)
    <2> DEFINE b == Put(r.buffer, 0, <<Nul>>)
    <2>1. Len(r.buffer) = ShortCapacity
        BY <1>2 DEF Shaped
    <2>2. b \in Seq(Cells) /\ Len(b) = ShortCapacity /\ Starts(b, <<>>)
        <3>1. Len(<<>>) < Len(r.buffer)
            BY <2>1, NumberFacts, NoChars
        <3> QED BY <1>1, <2>1, <3>1, NoChars, TextWritten
    <2>3. MovedFrom(r) = Short(b, 0)
        BY <1>2 DEF MovedFrom
    <2> HIDE DEF b
    <2>4. /\ Shaped(MovedFrom(r)) /\ MovedFrom(r).size = 0 /\ Holds(MovedFrom(r), <<>>)
        BY <2>2, <2>3, ShortFacts, NoChars DEF Holds
    <2> QED BY <1>2, <2>4, HeldText, NoChars DEF Shaped
<1>3. CASE ~is_short_string(r)
    <2>1. MovedFrom(r) = Long(<<>>, 0)
        BY <1>3 DEF MovedFrom
    <2>2. Shaped(Long(<<>>, 0)) /\ Long(<<>>, 0).buffer = <<>> /\ Long(<<>>, 0).size = 0
        <3>1. Len(<<>>) % 2 = 0 /\ 0 \in Nat
            BY NoChars
        <3> QED BY <3>1, LongFacts, NoChars
    <2>3. Sound(MovedFrom(r))
        BY <2>1, <2>2 DEF Sound
    <2>4. text(MovedFrom(r)) = <<>>
        <3>1. text(MovedFrom(r)) \in Seq(Written) /\ Len(text(MovedFrom(r))) = 0
            BY <2>1, <2>2, <2>3, TextFacts DEF Shaped
        <3> QED BY <3>1
    <2> QED BY <1>3, <2>1, <2>2, <2>3, <2>4
<1> QED BY <1>2, <1>3

-----------------------------------------------------------------------------
(* reserve and push_back *)

LEMMA CapacityFacts ==
    ASSUME NEW r, Shaped(r), Sound(r)
    PROVE  /\ capacity(r) \in Nat /\ r.size <= capacity(r)
           /\ r.buffer # <<>> => capacity(r) = Len(r.buffer) - 1 /\ r.size < Len(r.buffer)
           /\ r.buffer = <<>> => capacity(r) = SizeMax /\ r.size = 0 /\ Cramped(r)
           /\ Len(r.buffer) = 0 <=> r.buffer = <<>>
<1>1. r.buffer \in Seq(Cells) /\ r.size \in Nat /\ Len(r.buffer) \in Nat
    BY RecordFacts DEF Shaped
<1>2. Len(r.buffer) = 0 <=> r.buffer = <<>>
    BY <1>1
<1>3. r.size < Len(r.buffer) \/ (r.size = 0 /\ r.buffer = <<>>)
    BY DEF Sound
<1>4. is_short_string(r) => Len(r.buffer) = ShortCapacity
    BY DEF Shaped
<1>5. capacity(r) = IF is_short_string(r) THEN ShortCapacity - 1
                    ELSE IF r.buffer = <<>> THEN SizeMax ELSE Len(r.buffer) - 1
    BY DEF capacity
<1>6. CASE r.buffer = <<>>
    <2>1. ~is_short_string(r) /\ Len(r.buffer) = 0 /\ r.size = 0
        BY <1>1, <1>2, <1>3, <1>4, <1>6, NumberFacts
    <2>2. Cramped(r)
        BY <2>1, NumberFacts DEF Cramped
    <2> QED BY <1>2, <1>5, <1>6, <2>1, <2>2, NumberFacts
<1>7. CASE r.buffer # <<>>
    <2>1. r.size < Len(r.buffer)
        BY <1>3, <1>7
    <2>2. capacity(r) = Len(r.buffer) - 1
        BY <1>4, <1>5, <1>7
    <2> QED BY <1>1, <1>2, <1>7, <2>1, <2>2
<1> QED BY <1>6, <1>7

LEMMA UncrampedFacts ==
    ASSUME NEW r, Shaped(r), ~Cramped(r)
    PROVE  ShortCapacity <= Len(r.buffer) /\ r.buffer # <<>>
<1>1. r.buffer \in Seq(Cells) /\ Len(r.buffer) \in Nat
    BY RecordFacts DEF Shaped
<1>2. ShortCapacity <= Len(r.buffer)
    BY <1>1, NumberFacts DEF Shaped, Cramped
<1> QED BY <1>1, <1>2, NumberFacts

\* g has the text of r and no less room.
Keeps(g, r) ==
    /\ Shaped(g) /\ Sound(g) /\ g.size = r.size /\ Len(r.buffer) <= Len(g.buffer)
    /\ \A i \in 1..r.size : g.buffer[i] = r.buffer[i]

LEMMA KeepsItself ==
    ASSUME NEW r, Shaped(r), Sound(r)
    PROVE  Keeps(r, r)
<1>1. Len(r.buffer) \in Nat
    BY RecordFacts DEF Shaped
<1> QED BY <1>1 DEF Keeps

\* What reserve makes room for there is room for, and for a terminator behind it.
LEMMA ReserveKeeps ==
    ASSUME NEW r, Shaped(r), Sound(r), NEW n \in Nat, r.buffer # <<>> \/ n <= SizeMax
    PROVE  /\ Keeps(reserve(r, n), r)
           /\ reserve_needed(r, n) => n < Len(reserve(r, n).buffer)
<1>1. CASE ~reserve_needed(r, n)
    BY <1>1, KeepsItself DEF reserve
<1>2. CASE reserve_needed(r, n)
    <2> DEFINE k == Even(n + 1)
               b == Put(Blank(k), 0, text(r))
    <2>1. /\ r \in Records /\ r.buffer \in Seq(Cells) /\ r.size \in Nat /\ Len(r.buffer) \in Nat
        BY RecordFacts DEF Shaped
    <2>2. n > capacity(r) /\ capacity(r) \in Nat
        BY <1>2, CapacityFacts DEF reserve_needed
    <2>3. r.buffer # <<>>
        BY <2>2, CapacityFacts, NumberFacts
    <2>4. r.size < Len(r.buffer) /\ Len(r.buffer) <= n
        <3>1. capacity(r) = Len(r.buffer) - 1 /\ r.size < Len(r.buffer)
            BY <2>3, CapacityFacts
        <3> QED BY <2>1, <2>2, <3>1
    <2>5. k \in Nat /\ n < k /\ k % 2 = 0
        <3>1. n + 1 \in Nat
            OBVIOUS
        <3>2. k \in Nat /\ n + 1 <= k /\ k % 2 = 0
            BY <3>1, EvenFacts
        <3> HIDE DEF k
        <3> QED BY <3>2
    <2> HIDE DEF k
    <2>6. /\ text(r) \in Seq(Cells) /\ Len(text(r)) = r.size
          /\ \A i \in 1..r.size : text(r)[i] = r.buffer[i]
        BY <2>1, TextFacts, WrittenAreCells
    <2>7. Blank(k) \in Seq(Cells) /\ Len(Blank(k)) = k
        BY <2>5, BlankCells
    <2>8. /\ b \in Seq(Cells) /\ Len(b) = k
          /\ \A i \in 1..k : b[i] = IF 0 < i /\ i <= 0 + Len(text(r)) THEN text(r)[i - 0] ELSE Blank(k)[i]
        <3> DEFINE e == text(r)
                   d == Blank(k)
        <3>1. e \in Seq(Cells) /\ d \in Seq(Cells) /\ Len(d) = k /\ 0 \in Nat
            BY <2>6, <2>7
        <3> HIDE DEF e, d
        <3>2. /\ Put(d, 0, e) \in Seq(Cells) /\ Len(Put(d, 0, e)) = Len(d)
              /\ \A i \in 1..Len(d) : Put(d, 0, e)[i] = IF 0 < i /\ i <= 0 + Len(e) THEN e[i - 0] ELSE d[i]
            BY <3>1, PutCells
        <3> QED BY <3>1, <3>2 DEF e, d
    <2> HIDE DEF b
    <2>9. \A i \in 1..r.size : b[i] = r.buffer[i]
        <3>1. \A i \in 1..r.size : i \in 1..k /\ 0 < i /\ i <= 0 + Len(text(r)) /\ i - 0 = i
            BY <2>1, <2>4, <2>5, <2>6
        <3> QED BY <2>6, <2>8, <3>1
    <2>10. reserve(r, n) = Long(b, r.size)
        BY <1>2 DEF reserve, b, k
    <2>11. Shaped(Long(b, r.size)) /\ Long(b, r.size).buffer = b /\ Long(b, r.size).size = r.size
        BY <2>1, <2>5, <2>8, LongFacts
    <2>12. Sound(Long(b, r.size))
        <3>1. r.size < Len(b)
            BY <2>1, <2>4, <2>5, <2>8
        <3>2. \A i \in 1..r.size : b[i] # Junk
            BY <2>9 DEF Sound
        <3> QED BY <2>11, <3>1, <3>2 DEF Sound
    <2>13. Len(r.buffer) <= Len(b) /\ n < Len(b)
        BY <2>1, <2>4, <2>5, <2>8
    <2> QED BY <2>9, <2>10, <2>11, <2>12, <2>13 DEF Keeps
<1> QED BY <1>1, <1>2

LEMMA GrownKeeps ==
    ASSUME NEW r, Shaped(r), Sound(r)
    PROVE  /\ Keeps(Grown(r), r)
           /\ ~Cramped(r) => r.size + 2 <= Len(Grown(r).buffer)
<1> DEFINE c == capacity(r)
<1>1. /\ r.size \in Nat /\ Len(r.buffer) \in Nat /\ c \in Nat
      /\ (r.buffer # <<>> => c = Len(r.buffer) - 1 /\ r.size < Len(r.buffer))
      /\ (r.buffer = <<>> => c = SizeMax /\ r.size = 0)
    BY RecordFacts, CapacityFacts DEF Shaped
<1>2. CASE is_full(r)
    <2>1. r.size = c /\ Grown(r) = reserve(r, 2 * c)
        BY <1>2 DEF is_full, Grown
    <2>2. r.buffer # <<>>
        BY <1>1, <2>1, NumberFacts
    <2> HIDE DEF c
    <2>3. 2 * c \in Nat
        BY <1>1
    <2>4. /\ Keeps(reserve(r, 2 * c), r)
          /\ reserve_needed(r, 2 * c) => 2 * c < Len(reserve(r, 2 * c).buffer)
        BY <2>2, <2>3, ReserveKeeps
    <2>5. ASSUME ~Cramped(r)
          PROVE  r.size + 2 <= Len(reserve(r, 2 * c).buffer)
        <3>1. ShortCapacity <= Len(r.buffer)
            BY <2>5, UncrampedFacts
        <3>2. 2 * c > c /\ 2 * c >= ShortCapacity /\ c + 2 <= 2 * c + 1
            BY <1>1, <2>2, <3>1, NumberFacts
        <3>3. 2 * c < Len(reserve(r, 2 * c).buffer)
            BY <2>4, <3>2 DEF reserve_needed, c
        <3>4. Len(reserve(r, 2 * c).buffer) \in Nat
            BY <2>4, RecordFacts DEF Keeps, Shaped
        <3> QED BY <1>1, <2>1, <3>2, <3>3, <3>4
    <2> QED BY <2>1, <2>4, <2>5
<1>3. CASE ~is_full(r)
    <2>1. r.size # c /\ Grown(r) = r
        BY <1>3 DEF is_full, Grown
    <2>2. ~Cramped(r) => r.size + 2 <= Len(r.buffer)
        BY <1>1, <2>1, UncrampedFacts
    <2> QED BY <2>1, <2>2, KeepsItself
<1> QED BY <1>2, <1>3

LEMMA AppendWritten ==
    ASSUME NEW e \in Seq(Written), NEW ch \in Written
    PROVE  /\ Append(e, ch) \in Seq(Written) /\ Len(Append(e, ch)) = Len(e) + 1
           /\ Append(e, ch)[Len(e) + 1] = ch
           /\ \A i \in 1..Len(e) : Append(e, ch)[i] = e[i]
OBVIOUS

LEMMA PushHolds ==
    ASSUME NEW r, Shaped(r), Sound(r), NEW ch \in Written
    PROVE  /\ Shaped(push_back(r, ch)) /\ push_back(r, ch).size = r.size + 1
           /\ PushFits(r) => Holds(push_back(r, ch), Append(text(r), ch))
           /\ ~Cramped(r) => PushFits(r) /\ ~Cramped(push_back(r, ch))
<1> DEFINE g == Grown(r)
           n == r.size
           two == <<ch, Nul>>
           b == Put(g.buffer, n, two)
           e == Append(text(r), ch)
<1>1. /\ Keeps(g, r) /\ (~Cramped(r) => n + 2 <= Len(g.buffer))
    BY GrownKeeps
<1>2. /\ r \in Records /\ n \in Nat /\ g \in Records /\ g.buffer \in Seq(Cells) /\ Len(g.buffer) \in Nat
    BY <1>1, RecordFacts DEF Shaped, Keeps
<1>3. two \in Seq(Cells) /\ Len(two) = 2 /\ two[1] = ch /\ two[2] = Nul
    BY CellFacts
<1>4. PushFits(r) <=> n + 2 <= Len(g.buffer)
    <2>1. Len(<<Nul, Nul>>) = 2
        OBVIOUS
    <2> QED BY <2>1 DEF PushFits, Fits
<1>5. /\ text(r) \in Seq(Written) /\ Len(text(r)) = n /\ \A i \in 1..n : text(r)[i] = r.buffer[i]
    BY <1>2, TextFacts
<1>6. /\ e \in Seq(Written) /\ Len(e) = n + 1 /\ e[n + 1] = ch /\ \A i \in 1..n : e[i] = r.buffer[i]
    BY <1>5, AppendWritten
<1> HIDE DEF e, two, n
<1>7. /\ b \in Seq(Cells) /\ Len(b) = Len(g.buffer)
      /\ \A i \in 1..Len(g.buffer) :
            b[i] = IF n < i /\ i <= n + Len(two) THEN two[i - n] ELSE g.buffer[i]
    <2> DEFINE mem == g.buffer
    <2>1. mem \in Seq(Cells) /\ n \in Nat /\ two \in Seq(Cells)
        BY <1>2, <1>3
    <2> HIDE DEF mem
    <2>2. /\ Put(mem, n, two) \in Seq(Cells) /\ Len(Put(mem, n, two)) = Len(mem)
          /\ \A i \in 1..Len(mem) :
                Put(mem, n, two)[i] = IF n < i /\ i <= n + Len(two) THEN two[i - n] ELSE mem[i]
        BY <2>1, PutCells
    <2> QED BY <2>2 DEF mem
<1>8. push_back(r, ch) = Changed(g, b, n + 1)
    BY DEF push_back, Changed, n, two
<1> HIDE DEF g, b
<1>9. Shaped(push_back(r, ch)) /\ push_back(r, ch).size = n + 1 /\ push_back(r, ch).buffer = b
    <2> DEFINE m == n + 1
    <2>1. m \in Nat /\ Shaped(g) /\ b \in Seq(Cells) /\ g \in Records /\ Len(b) = Len(g.buffer)
        BY <1>1, <1>2, <1>7 DEF Keeps
    <2> HIDE DEF m
    <2>2. push_back(r, ch) = Changed(g, b, m)
        BY <1>8 DEF m
    <2>3. Shaped(push_back(r, ch)) /\ push_back(r, ch).size = m /\ push_back(r, ch).buffer = b
        BY <2>1, <2>2, ChangedFacts
    <2> QED BY <2>3 DEF m
<1>10. ASSUME n + 2 <= Len(g.buffer)
       PROVE  Starts(b, e)
    <2>1. \A i \in 1..n : i \in 1..Len(g.buffer) /\ ~(n < i)
        BY <1>2, <1>10
    <2>2. \A i \in 1..n : b[i] = e[i]
        <3>1. \A i \in 1..n : g.buffer[i] = r.buffer[i]
            BY <1>1 DEF Keeps, n
        <3> QED BY <1>6, <1>7, <2>1, <3>1
    <2>3. /\ n + 1 \in 1..Len(g.buffer) /\ n < n + 1 /\ n + 1 <= n + Len(two) /\ (n + 1) - n = 1
          /\ n + 2 \in 1..Len(g.buffer) /\ n < n + 2 /\ n + 2 <= n + Len(two) /\ (n + 2) - n = 2
        BY <1>2, <1>3, <1>10
    <2>4. b[n + 1] = ch /\ b[n + 2] = Nul
        BY <1>3, <1>7, <2>3
    <2>5. \A i \in 1..(n + 1) : b[i] = e[i]
        <3>1. \A i \in 1..(n + 1) : i \in 1..n \/ i = n + 1
            BY <1>2
        <3> QED BY <1>6, <2>2, <2>4, <3>1
    <2>6. Len(e) < Len(b) /\ Len(e) + 1 = n + 2
        BY <1>2, <1>6, <1>7, <1>10
    <2> QED BY <1>6, <1>7, <2>4, <2>5, <2>6 DEF Starts
<1>11. ASSUME ~Cramped(r)
       PROVE  ~Cramped(push_back(r, ch))
    <2>1. ShortCapacity <= Len(r.buffer) /\ Len(r.buffer) <= Len(g.buffer) /\ Len(r.buffer) \in Nat
        BY <1>1, <1>2, <1>11, UncrampedFacts, RecordFacts DEF Keeps
    <2>2. Len(push_back(r, ch).buffer) = Len(g.buffer)
        BY <1>7, <1>9
    <2> QED BY <1>2, <2>1, <2>2, NumberFacts DEF Cramped
<1> QED BY <1>1, <1>4, <1>6, <1>9, <1>10, <1>11 DEF Holds, n, e, g

LEMMA PopHolds ==
    ASSUME NEW r, Shaped(r), Sound(r), r.size > 0
    PROVE  LET e == SubSeq(text(r), 1, Len(text(r)) - 1)
           IN  /\ Shaped(pop_back(r)) /\ pop_back(r).size = r.size - 1
               /\ e \in Seq(Written) /\ Holds(pop_back(r), e)
<1> DEFINE n == r.size - 1
           b == Put(r.buffer, n, <<Nul>>)
           e == SubSeq(text(r), 1, Len(text(r)) - 1)
<1>1. r \in Records /\ r.buffer \in Seq(Cells) /\ r.size \in Nat /\ Len(r.buffer) \in Nat
    BY RecordFacts DEF Shaped
<1>2. n \in Nat /\ n < r.size /\ r.size < Len(r.buffer)
    BY <1>1 DEF Sound
<1>3. /\ text(r) \in Seq(Written) /\ Len(text(r)) = r.size
      /\ \A i \in 1..r.size : text(r)[i] = r.buffer[i]
    BY <1>1, TextFacts
<1>4. e \in Seq(Written) /\ Len(e) = n /\ \A i \in 1..n : e[i] = text(r)[i]
    <2>1. e = Slice(text(r), 0, n)
        BY <1>3 DEF Slice
    <2> HIDE DEF e, n
    <2>2. 0 \in Nat /\ 0 <= n /\ n <= Len(text(r)) /\ n - 0 = n /\ \A i \in 1..n : 0 + i = i
        BY <1>1, <1>2, <1>3
    <2>3. /\ Slice(text(r), 0, n) \in Seq(Written) /\ Len(Slice(text(r), 0, n)) = n - 0
          /\ \A i \in 1..(n - 0) : Slice(text(r), 0, n)[i] = text(r)[0 + i]
        <3> DEFINE whole == text(r)
        <3>1. whole \in Seq(Written) /\ n \in Nat /\ 0 \in Nat /\ 0 <= n /\ n <= Len(whole)
            BY <1>2, <1>3, <2>2
        <3> HIDE DEF whole
        <3>2. /\ Slice(whole, 0, n) \in Seq(Written) /\ Len(Slice(whole, 0, n)) = n - 0
              /\ \A i \in 1..(n - 0) : Slice(whole, 0, n)[i] = whole[0 + i]
            BY <3>1, SliceOf
        <3> QED BY <3>2 DEF whole
    <2> QED BY <2>1, <2>2, <2>3
<1> HIDE DEF e, n
<1>5. /\ b \in Seq(Cells) /\ Len(b) = Len(r.buffer)
      /\ \A i \in 1..Len(r.buffer) :
            b[i] = IF n < i /\ i <= n + Len(<<Nul>>) THEN <<Nul>>[i - n] ELSE r.buffer[i]
    <2> DEFINE mem == r.buffer
    <2>1. mem \in Seq(Cells) /\ n \in Nat
        BY <1>1, <1>2
    <2> HIDE DEF mem
    <2>2. /\ Put(mem, n, <<Nul>>) \in Seq(Cells) /\ Len(Put(mem, n, <<Nul>>)) = Len(mem)
          /\ \A i \in 1..Len(mem) :
                Put(mem, n, <<Nul>>)[i] = IF n < i /\ i <= n + Len(<<Nul>>) THEN <<Nul>>[i - n] ELSE mem[i]
        BY <2>1, NulCells, PutCells
    <2> QED BY <2>2 DEF mem
<1>6. pop_back(r) = ChangedSizeFirst(r, b, n)
    BY DEF pop_back, ChangedSizeFirst, n
<1> HIDE DEF b
<1>7. Shaped(pop_back(r)) /\ pop_back(r).size = n /\ pop_back(r).buffer = b
    BY <1>1, <1>2, <1>5, <1>6, ChangedSizeFirstFacts
<1>8. Starts(b, e)
    <2>1. \A i \in 1..n : i \in 1..Len(r.buffer) /\ i \in 1..r.size /\ ~(n < i)
        BY <1>1, <1>2
    <2>2. \A i \in 1..n : b[i] = e[i]
        BY <1>3, <1>4, <1>5, <2>1
    <2>3. n + 1 \in 1..Len(r.buffer) /\ n < n + 1 /\ n + 1 <= n + Len(<<Nul>>) /\ (n + 1) - n = 1
        BY <1>1, <1>2, NulCells
    <2>4. b[n + 1] = Nul
        BY <1>5, <2>3, NulCells
    <2>5. n < Len(b)
        BY <1>1, <1>2, <1>5
    <2> QED BY <1>4, <1>5, <2>2, <2>4, <2>5 DEF Starts
<1> QED BY <1>4, <1>7, <1>8 DEF Holds, e, n

-----------------------------------------------------------------------------
(* insert and erase *)

LEMMA RoomForKeeps ==
    ASSUME NEW r, Shaped(r), Sound(r), NEW n \in Nat, n <= SizeMax
    PROVE  /\ Keeps(RoomFor(r, n), r)
           /\ ~Cramped(r) => r.size + n < Len(RoomFor(r, n).buffer)
<1> DEFINE c == capacity(r)
           z == r.size
           k == c + (n - (c - z))
<1>1. /\ z \in Nat /\ Len(r.buffer) \in Nat /\ c \in Nat /\ z <= c
      /\ (r.buffer # <<>> => c = Len(r.buffer) - 1)
      /\ (r.buffer = <<>> => c = SizeMax /\ z = 0)
    BY RecordFacts, CapacityFacts DEF Shaped
<1>2. RoomFor(r, n) = IF n > c - z THEN reserve(r, k) ELSE r
    BY DEF RoomFor
<1> HIDE DEF c, z
<1>3. k = z + n /\ k \in Nat
    BY <1>1
<1> HIDE DEF k
<1>4. CASE n > c - z
    <2>1. r.buffer # <<>>
        BY <1>1, <1>4, NumberFacts
    <2>2. /\ Keeps(reserve(r, k), r)
          /\ reserve_needed(r, k) => k < Len(reserve(r, k).buffer)
        BY <1>3, <2>1, ReserveKeeps
    <2>3. ASSUME ~Cramped(r)
          PROVE  reserve_needed(r, k)
        <3>1. ShortCapacity <= Len(r.buffer)
            BY <2>3, UncrampedFacts
        <3>2. k > c /\ k >= ShortCapacity
            BY <1>1, <1>3, <1>4, <2>1, <3>1, NumberFacts
        <3> QED BY <3>2 DEF reserve_needed, c
    <2> QED BY <1>2, <1>3, <1>4, <2>2, <2>3 DEF z
<1>5. CASE ~(n > c - z)
    <2>1. ~Cramped(r) => z + n < Len(r.buffer)
        BY <1>1, <1>5, UncrampedFacts
    <2> QED BY <1>2, <1>5, <2>1, KeepsItself DEF z
<1> QED BY <1>4, <1>5

\* A buffer as it is after items were put behind its first pos chars.
IsInserted(new, old, pos, items, n, z) ==
    /\ new \in Seq(Cells) /\ Len(new) = Len(old)
    /\ z + n < Len(old) =>
          /\ new[z + n + 1] = Nul
          /\ \A i \in 1..pos : new[i] = old[i]
          /\ \A i \in (pos + 1)..(pos + n) : new[i] = items[i - pos]
          /\ \A i \in (pos + n + 1)..(z + n) : new[i] = old[i - n]

LEMMA InsertedCells ==
    ASSUME NEW old \in Seq(Cells), NEW pos \in Nat, NEW z \in Nat, pos <= z, z <= Len(old),
           NEW items \in Seq(Cells), NEW n \in Nat, n = Len(items), NEW new,
           new = Put(Put(ShiftedRight(old, pos, n, z), pos, items), z + n, <<Nul>>)
    PROVE  IsInserted(new, old, pos, items, n, z)
<1> DEFINE tail == Slice(old, pos, z)
           a == Put(old, pos + n, tail)
           b == Put(a, pos, items)
           c == Len(old)
<1>1. c \in Nat /\ pos + n \in Nat /\ z + n \in Nat
    OBVIOUS
<1>2. /\ tail \in Seq(Cells) /\ Len(tail) = z - pos
      /\ \A i \in 1..(z - pos) : tail[i] = old[pos + i]
    BY SliceCells
<1> HIDE DEF tail
<1>3. /\ a \in Seq(Cells) /\ Len(a) = c
      /\ \A i \in 1..c :
            a[i] = IF pos + n < i /\ i <= (pos + n) + Len(tail) THEN tail[i - (pos + n)] ELSE old[i]
    BY <1>1, <1>2, PutCells
<1> HIDE DEF a
<1>4. /\ b \in Seq(Cells) /\ Len(b) = c
      /\ \A i \in 1..c : b[i] = IF pos < i /\ i <= pos + Len(items) THEN items[i - pos] ELSE a[i]
    <2> HIDE DEF c
    <2>1. /\ b \in Seq(Cells) /\ Len(b) = Len(a)
          /\ \A i \in 1..Len(a) : b[i] = IF pos < i /\ i <= pos + Len(items) THEN items[i - pos] ELSE a[i]
        BY <1>3, PutCells
    <2> QED BY <1>3, <2>1
<1> HIDE DEF b
<1>5. new = Put(b, z + n, <<Nul>>)
    BY DEF b, a, tail, ShiftedRight
<1>6. /\ new \in Seq(Cells) /\ Len(new) = c
      /\ \A i \in 1..c : new[i] = IF z + n < i /\ i <= (z + n) + Len(<<Nul>>)
                                  THEN <<Nul>>[i - (z + n)] ELSE b[i]
    <2> DEFINE m == z + n
    <2>1. m \in Nat
        BY <1>1
    <2> HIDE DEF c, m
    <2>2. /\ Put(b, m, <<Nul>>) \in Seq(Cells) /\ Len(Put(b, m, <<Nul>>)) = Len(b)
          /\ \A i \in 1..Len(b) : Put(b, m, <<Nul>>)[i] =
                IF m < i /\ i <= m + Len(<<Nul>>) THEN <<Nul>>[i - m] ELSE b[i]
        BY <1>4, <2>1, NulCells, PutCells
    <2> QED BY <1>4, <1>5, <2>2 DEF m
<1>7. ASSUME z + n < c
      PROVE  /\ new[z + n + 1] = Nul
             /\ \A i \in 1..pos : new[i] = old[i]
             /\ \A i \in (pos + 1)..(pos + n) : new[i] = items[i - pos]
             /\ \A i \in (pos + n + 1)..(z + n) : new[i] = old[i - n]
    <2> HIDE DEF c
    <2>1. new[z + n + 1] = Nul
        <3>1. /\ z + n + 1 \in 1..c /\ z + n < z + n + 1 /\ z + n + 1 <= (z + n) + Len(<<Nul>>)
              /\ (z + n + 1) - (z + n) = 1
            BY <1>1, <1>7, NulCells
        <3> QED BY <1>6, <3>1, NulCells
    <2>2. ASSUME NEW i \in 1..pos
          PROVE  new[i] = old[i]
        <3>1. i \in 1..c /\ ~(z + n < i) /\ ~(pos < i) /\ ~(pos + n < i)
            BY <1>1, <1>7
        <3> QED BY <1>3, <1>4, <1>6, <3>1
    <2>3. ASSUME NEW i \in (pos + 1)..(pos + n)
          PROVE  new[i] = items[i - pos]
        <3>1. i \in 1..c /\ ~(z + n < i) /\ pos < i /\ i <= pos + Len(items)
            BY <1>1, <1>7
        <3> QED BY <1>4, <1>6, <3>1
    <2>4. ASSUME NEW i \in (pos + n + 1)..(z + n)
          PROVE  new[i] = old[i - n]
        <3>1. /\ i \in 1..c /\ ~(z + n < i) /\ ~(i <= pos + Len(items))
              /\ pos + n < i /\ i <= (pos + n) + Len(tail)
              /\ i - (pos + n) \in 1..(z - pos) /\ pos + (i - (pos + n)) = i - n
            BY <1>1, <1>2, <1>7
        <3>2. new[i] = tail[i - (pos + n)]
            BY <1>3, <1>4, <1>6, <3>1
        <3> QED BY <1>2, <3>1, <3>2
    <2> QED BY <2>1, <2>2, <2>3, <2>4
<1> QED BY <1>6, <1>7 DEF IsInserted

\* items between the first pos chars of e and the others
Spliced(e, pos, items) == SubSeq(e, 1, pos) \o items \o SubSeq(e, pos + 1, Len(e))

\* e without its chars f + 1 to l
Cut(e, f, l) == SubSeq(e, 1, f) \o SubSeq(e, l + 1, Len(e))

LEMMA JoinedWritten ==
    ASSUME NEW a \in Seq(Written), NEW b \in Seq(Written)
    PROVE  /\ a \o b \in Seq(Written) /\ Len(a \o b) = Len(a) + Len(b)
           /\ \A i \in 1..(Len(a) + Len(b)) :
                 (a \o b)[i] = IF i <= Len(a) THEN a[i] ELSE b[i - Len(a)]
BY ConcatProperties

LEMMA SliceWritten ==
    ASSUME NEW e \in Seq(Written), NEW f \in Nat, NEW l \in Nat, f <= l, l <= Len(e)
    PROVE  /\ Slice(e, f, l) \in Seq(Written) /\ Len(Slice(e, f, l)) = l - f
           /\ \A i \in 1..(l - f) : Slice(e, f, l)[i] = e[f + i]
BY SliceOf

LEMMA FrontWritten ==
    ASSUME NEW e \in Seq(Written), NEW n \in Nat, n <= Len(e)
    PROVE  /\ SubSeq(e, 1, n) \in Seq(Written) /\ Len(SubSeq(e, 1, n)) = n
           /\ \A i \in 1..n : SubSeq(e, 1, n)[i] = e[i]
<1>1. 0 \in Nat /\ 0 <= n /\ n - 0 = n /\ 0 + 1 = 1 /\ \A i \in 1..n : 0 + i = i
    OBVIOUS
<1>2. /\ Slice(e, 0, n) \in Seq(Written) /\ Len(Slice(e, 0, n)) = n - 0
      /\ \A i \in 1..(n - 0) : Slice(e, 0, n)[i] = e[0 + i]
    BY <1>1, SliceWritten
<1> QED BY <1>1, <1>2 DEF Slice

LEMMA BackWritten ==
    ASSUME NEW e \in Seq(Written), NEW n \in Nat, n <= Len(e)
    PROVE  /\ SubSeq(e, n + 1, Len(e)) \in Seq(Written) /\ Len(SubSeq(e, n + 1, Len(e))) = Len(e) - n
           /\ \A i \in 1..(Len(e) - n) : SubSeq(e, n + 1, Len(e))[i] = e[n + i]
<1> DEFINE m == Len(e)
<1>1. m \in Nat /\ n <= m /\ m <= Len(e)
    OBVIOUS
<1> HIDE DEF m
<1>2. /\ Slice(e, n, m) \in Seq(Written) /\ Len(Slice(e, n, m)) = m - n
      /\ \A i \in 1..(m - n) : Slice(e, n, m)[i] = e[n + i]
    BY <1>1, SliceWritten
<1> QED BY <1>2 DEF Slice, m

\* What s is, char by char, with the n items behind the first pos of the z chars of e.
IsSpliced(s, e, pos, items, n, z) ==
    /\ s \in Seq(Written) /\ Len(s) = z + n
    /\ \A i \in 1..pos : s[i] = e[i]
    /\ \A i \in (pos + 1)..(pos + n) : s[i] = items[i - pos]
    /\ \A i \in (pos + n + 1)..(z + n) : s[i] = e[i - n]

LEMMA SplicedWritten ==
    ASSUME NEW e \in Seq(Written), NEW pos \in Nat, pos <= Len(e), NEW items \in Seq(Written),
           NEW n \in Nat, n = Len(items), NEW z \in Nat, z = Len(e)
    PROVE  IsSpliced(Spliced(e, pos, items), e, pos, items, n, z)
<1> DEFINE a == SubSeq(e, 1, pos)
           b == SubSeq(e, pos + 1, Len(e))
           h == a \o items
           s == h \o b
<1>1. a \in Seq(Written) /\ Len(a) = pos /\ \A i \in 1..pos : a[i] = e[i]
    BY FrontWritten
<1>2. b \in Seq(Written) /\ Len(b) = z - pos /\ \A i \in 1..(z - pos) : b[i] = e[pos + i]
    BY BackWritten
<1> HIDE DEF a, b
<1>3. /\ h \in Seq(Written) /\ Len(h) = pos + n
      /\ \A i \in 1..(pos + n) : h[i] = IF i <= pos THEN a[i] ELSE items[i - pos]
    BY <1>1, JoinedWritten
<1> HIDE DEF h
<1>4. /\ s \in Seq(Written) /\ Len(s) = Len(h) + Len(b)
      /\ \A i \in 1..(Len(h) + Len(b)) : s[i] = IF i <= Len(h) THEN h[i] ELSE b[i - Len(h)]
    BY <1>2, <1>3, JoinedWritten
<1>5. Spliced(e, pos, items) = s
    BY DEF Spliced, a, b, h
<1> HIDE DEF s
<1>6. Len(h) + Len(b) = z + n
    BY <1>2, <1>3
<1>7. ASSUME NEW i \in 1..pos
      PROVE  s[i] = e[i]
    <2>1. i \in 1..(z + n) /\ i <= Len(h) /\ i \in 1..(pos + n) /\ i <= pos
        BY <1>3
    <2> QED BY <1>1, <1>3, <1>4, <1>6, <2>1
<1>8. ASSUME NEW i \in (pos + 1)..(pos + n)
      PROVE  s[i] = items[i - pos]
    <2>1. i \in 1..(z + n) /\ i <= Len(h) /\ i \in 1..(pos + n) /\ ~(i <= pos)
        BY <1>3
    <2> QED BY <1>3, <1>4, <1>6, <2>1
<1>9. ASSUME NEW i \in (pos + n + 1)..(z + n)
      PROVE  s[i] = e[i - n]
    <2>1. /\ i \in 1..(z + n) /\ ~(i <= Len(h)) /\ i - Len(h) \in 1..(z - pos)
          /\ pos + (i - Len(h)) = i - n
        BY <1>3
    <2> QED BY <1>2, <1>4, <1>6, <2>1
<1> QED BY <1>4, <1>5, <1>6, <1>7, <1>8, <1>9 DEF IsSpliced

IsCut(s, e, f, l, left) ==
    /\ s \in Seq(Written) /\ Len(s) = left
    /\ \A i \in 1..f : s[i] = e[i]
    /\ \A i \in (f + 1)..left : s[i] = e[l + (i - f)]

LEMMA CutWritten ==
    ASSUME NEW e \in Seq(Written), NEW f \in Nat, NEW l \in Nat, f <= l, l <= Len(e),
           NEW z \in Nat, z = Len(e), NEW left, left = z - (l - f)
    PROVE  IsCut(Cut(e, f, l), e, f, l, left)
<1> DEFINE a == SubSeq(e, 1, f)
           b == SubSeq(e, l + 1, Len(e))
           s == a \o b
<1>1. a \in Seq(Written) /\ Len(a) = f /\ \A i \in 1..f : a[i] = e[i]
    BY FrontWritten
<1>2. b \in Seq(Written) /\ Len(b) = z - l /\ \A i \in 1..(z - l) : b[i] = e[l + i]
    BY BackWritten
<1> HIDE DEF a, b
<1>3. /\ s \in Seq(Written) /\ Len(s) = Len(a) + Len(b)
      /\ \A i \in 1..(Len(a) + Len(b)) : s[i] = IF i <= Len(a) THEN a[i] ELSE b[i - Len(a)]
    BY <1>1, <1>2, JoinedWritten
<1>4. Cut(e, f, l) = s
    BY DEF Cut, a, b
<1> HIDE DEF s
<1>5. Len(a) + Len(b) = left
    BY <1>1, <1>2
<1>6. ASSUME NEW i \in 1..f
      PROVE  s[i] = e[i]
    <2>1. i \in 1..(left) /\ i <= Len(a)
        BY <1>1
    <2> QED BY <1>1, <1>3, <1>5, <2>1
<1>7. ASSUME NEW i \in (f + 1)..(left)
      PROVE  s[i] = e[l + (i - f)]
    <2>1. /\ i \in 1..(left) /\ ~(i <= Len(a)) /\ i - Len(a) = i - f /\ i - f \in 1..(z - l)
        BY <1>1
    <2> QED BY <1>2, <1>3, <1>5, <2>1
<1> QED BY <1>3, <1>4, <1>5, <1>6, <1>7 DEF IsCut

LEMMA InsertHolds ==
    ASSUME NEW r, Shaped(r), Sound(r), NEW pos \in Nat, pos <= r.size,
           NEW items \in Seq(Written), Len(items) <= SizeMax
    PROVE  /\ Shaped(insert(r, pos, items)) /\ insert(r, pos, items).size = r.size + Len(items)
           /\ Spliced(text(r), pos, items) \in Seq(Written)
           /\ InsertFits(r, items) => Holds(insert(r, pos, items), Spliced(text(r), pos, items))
           /\ ~Cramped(r) => InsertFits(r, items)
<1> DEFINE n == Len(items)
           z == r.size
           g == RoomFor(r, n)
           old == g.buffer
           new == Put(Put(ShiftedRight(old, pos, n, z), pos, items), z + n, <<Nul>>)
           e == text(r)
           with == Spliced(e, pos, items)
<1>1. r \in Records /\ z \in Nat /\ n \in Nat /\ n <= SizeMax /\ items \in Seq(Cells)
    BY RecordFacts, WrittenAreCells DEF Shaped
<1>2. /\ e \in Seq(Written) /\ Len(e) = z /\ \A i \in 1..z : e[i] = r.buffer[i]
    BY <1>1, TextFacts
<1>3. InsertFits(r, items) <=> z + (n + 1) <= Len(old)
    BY TerminatedCells DEF InsertFits, Fits
<1> HIDE DEF n, e
<1>4. Keeps(g, r) /\ (~Cramped(r) => z + n < Len(old))
    BY <1>1, RoomForKeeps
<1>5. /\ g \in Records /\ old \in Seq(Cells) /\ Len(old) \in Nat /\ Shaped(g)
      /\ z <= Len(old) /\ \A i \in 1..z : old[i] = r.buffer[i]
    <2>1. Shaped(g) /\ Sound(g) /\ g.size = z /\ \A i \in 1..z : old[i] = r.buffer[i]
        BY <1>4 DEF Keeps
    <2>2. g \in Records /\ old \in Seq(Cells) /\ Len(old) \in Nat
        BY <2>1, RecordFacts DEF Shaped
    <2>3. z <= Len(old)
        BY <2>1, <2>2, TextFacts
    <2> QED BY <2>1, <2>2, <2>3
<1>6. insert(r, pos, items) = Changed(g, new, z + n)
    BY DEF insert, Changed, n
<1> HIDE DEF g, old, z
<1>7. pos <= z
    BY DEF z
<1>8. /\ new \in Seq(Cells) /\ Len(new) = Len(old)
      /\ z + n < Len(old) =>
            /\ new[z + n + 1] = Nul
            /\ \A i \in 1..pos : new[i] = old[i]
            /\ \A i \in (pos + 1)..(pos + n) : new[i] = items[i - pos]
            /\ \A i \in (pos + n + 1)..(z + n) : new[i] = old[i - n]
    <2>1. n = Len(items) /\ new = Put(Put(ShiftedRight(old, pos, n, z), pos, items), z + n, <<Nul>>)
        BY DEF n
    <2> HIDE DEF new
    <2>2. IsInserted(new, old, pos, items, n, z)
        BY <1>1, <1>5, <1>7, <2>1, InsertedCells
    <2> QED BY <2>2 DEF IsInserted
<1> HIDE DEF new
<1>9. /\ with \in Seq(Written) /\ Len(with) = z + n
      /\ \A i \in 1..pos : with[i] = e[i]
      /\ \A i \in (pos + 1)..(pos + n) : with[i] = items[i - pos]
      /\ \A i \in (pos + n + 1)..(z + n) : with[i] = e[i - n]
    <2>1. n = Len(items) /\ z = Len(e) /\ pos <= Len(e)
        BY <1>2, <1>7 DEF n
    <2>2. IsSpliced(with, e, pos, items, n, z)
        BY <1>1, <1>2, <2>1, SplicedWritten
    <2> HIDE DEF with
    <2> QED BY <2>2 DEF IsSpliced
<1> HIDE DEF with
<1>10. Shaped(Changed(g, new, z + n)) /\ Changed(g, new, z + n).size = z + n
       /\ Changed(g, new, z + n).buffer = new
    <2> DEFINE m == z + n
    <2>1. m \in Nat
        BY <1>1
    <2> HIDE DEF m
    <2>2. Len(new) = Len(g.buffer)
        BY <1>8 DEF old
    <2>3. Shaped(Changed(g, new, m)) /\ Changed(g, new, m).size = m /\ Changed(g, new, m).buffer = new
        BY <1>5, <1>8, <2>1, <2>2, ChangedFacts
    <2> QED BY <2>3 DEF m
<1>11. ASSUME z + n < Len(old)
       PROVE  Starts(new, with)
    <2>1. ASSUME NEW i \in 1..pos
          PROVE  new[i] = with[i]
        <3>1. i \in 1..z
            BY <1>1, <1>7
        <3> QED BY <1>2, <1>5, <1>8, <1>9, <1>11, <3>1
    <2>2. ASSUME NEW i \in (pos + n + 1)..(z + n)
          PROVE  new[i] = with[i]
        <3>1. i - n \in 1..z
            BY <1>1, <1>7
        <3> QED BY <1>2, <1>5, <1>8, <1>9, <1>11, <3>1
    <2>3. ASSUME NEW i \in (pos + 1)..(pos + n)
          PROVE  new[i] = with[i]
        BY <1>8, <1>9, <1>11
    <2>4. \A i \in 1..(z + n) :
             i \in 1..pos \/ i \in (pos + 1)..(pos + n) \/ i \in (pos + n + 1)..(z + n)
        BY <1>1
    <2>5. \A i \in 1..(z + n) : new[i] = with[i]
        BY <2>1, <2>2, <2>3, <2>4
    <2> QED BY <1>8, <1>9, <1>11, <2>5 DEF Starts
<1>12. z + n < Len(old) <=> z + (n + 1) <= Len(old)
    BY <1>1, <1>5
<1> QED BY <1>3, <1>4, <1>6, <1>9, <1>10, <1>11, <1>12 DEF Holds, n, z, e, with

\* A buffer as it is after the chars f + 1 to l were taken out.
IsErased(new, old, f, l, left) ==
    /\ new \in Seq(Cells) /\ Len(new) = Len(old)
    /\ left < Len(old) => new[left + 1] = Nul
    /\ \A i \in 1..f : new[i] = old[i]
    /\ \A i \in (f + 1)..left : new[i] = old[l + (i - f)]

LEMMA ErasedCells ==
    ASSUME NEW old \in Seq(Cells), NEW f \in Nat, NEW l \in Nat, f <= l, NEW z \in Nat, l <= z,
           z <= Len(old), NEW left \in Nat, left = z - (l - f), NEW new,
           new = Put(Put(Put(old, f, Slice(old, l, z)), left, <<Nul>>), left + 1, Slice(old, f, l))
    PROVE  IsErased(new, old, f, l, left)
<1> DEFINE tail == Slice(old, l, z)
           gone == Slice(old, f, l)
           a == Put(old, f, tail)
           b == Put(a, left, <<Nul>>)
           c == Len(old)
<1>1. c \in Nat /\ left + 1 \in Nat /\ l <= c /\ left <= z /\ f <= left
    OBVIOUS
<1>2. tail \in Seq(Cells) /\ Len(tail) = z - l /\ \A i \in 1..(z - l) : tail[i] = old[l + i]
    BY SliceCells
<1>3. gone \in Seq(Cells) /\ Len(gone) = l - f
    BY <1>1, SliceCells
<1> HIDE DEF tail, gone
<1>4. /\ a \in Seq(Cells) /\ Len(a) = c
      /\ \A i \in 1..c : a[i] = IF f < i /\ i <= f + Len(tail) THEN tail[i - f] ELSE old[i]
    BY <1>2, PutCells
<1> HIDE DEF a
<1>5. /\ b \in Seq(Cells) /\ Len(b) = c
      /\ \A i \in 1..c : b[i] = IF left < i /\ i <= left + Len(<<Nul>>) THEN <<Nul>>[i - left] ELSE a[i]
    <2> HIDE DEF c
    <2>1. /\ b \in Seq(Cells) /\ Len(b) = Len(a)
          /\ \A i \in 1..Len(a) :
                b[i] = IF left < i /\ i <= left + Len(<<Nul>>) THEN <<Nul>>[i - left] ELSE a[i]
        BY <1>4, NulCells, PutCells
    <2> QED BY <1>4, <2>1
<1> HIDE DEF b
<1>6. new = Put(b, left + 1, gone)
    BY DEF b, a, tail, gone
<1>7. /\ new \in Seq(Cells) /\ Len(new) = c
      /\ \A i \in 1..c : new[i] = IF left + 1 < i /\ i <= (left + 1) + Len(gone)
                                  THEN gone[i - (left + 1)] ELSE b[i]
    <2> DEFINE m == left + 1
    <2>1. m \in Nat
        BY <1>1
    <2> HIDE DEF c, m
    <2>2. /\ Put(b, m, gone) \in Seq(Cells) /\ Len(Put(b, m, gone)) = Len(b)
          /\ \A i \in 1..Len(b) :
                Put(b, m, gone)[i] = IF m < i /\ i <= m + Len(gone) THEN gone[i - m] ELSE b[i]
        BY <1>3, <1>5, <2>1, PutCells
    <2> QED BY <1>5, <1>6, <2>2 DEF m
<1>8. z <= c
    OBVIOUS
<1> HIDE DEF c
<1>9. ASSUME left < c
      PROVE  new[left + 1] = Nul
    <2>1. /\ left + 1 \in 1..c /\ ~(left + 1 < left + 1) /\ left < left + 1
          /\ left + 1 <= left + Len(<<Nul>>) /\ (left + 1) - left = 1
        BY <1>1, <1>9, NulCells
    <2> QED BY <1>5, <1>7, <2>1, NulCells
<1>10. ASSUME NEW i \in 1..f
       PROVE  new[i] = old[i]
    <2>1. i \in 1..c /\ ~(left + 1 < i) /\ ~(left < i) /\ ~(f < i)
        BY <1>1, <1>8
    <2> QED BY <1>4, <1>5, <1>7, <2>1
<1>11. ASSUME NEW i \in (f + 1)..left
       PROVE  new[i] = old[l + (i - f)]
    <2>1. /\ i \in 1..c /\ ~(left + 1 < i) /\ ~(left < i) /\ f < i /\ i <= f + Len(tail)
          /\ i - f \in 1..(z - l)
        BY <1>1, <1>2, <1>8
    <2>2. new[i] = tail[i - f]
        BY <1>4, <1>5, <1>7, <2>1
    <2> QED BY <1>2, <2>1, <2>2
<1> QED BY <1>7, <1>9, <1>10, <1>11 DEF IsErased, c

LEMMA EraseHolds ==
    ASSUME NEW r, Shaped(r), Sound(r), NEW f \in Nat, NEW l \in Nat, f <= l, l <= r.size
    PROVE  /\ Shaped(erase(r, f, l)) /\ erase(r, f, l).size = r.size - (l - f)
           /\ Cut(text(r), f, l) \in Seq(Written)
           /\ EraseFits(r) => Holds(erase(r, f, l), Cut(text(r), f, l))
           /\ EraseFits(r) <=> r.size < Len(r.buffer)
<1> DEFINE old == r.buffer
           z == r.size
           left == z - (l - f)
           new == Put(Put(Put(old, f, Slice(old, l, z)), left, <<Nul>>), left + 1, Slice(old, f, l))
           e == text(r)
           without == Cut(e, f, l)
<1>1. r \in Records /\ old \in Seq(Cells) /\ Len(old) \in Nat /\ z \in Nat /\ z <= Len(old) /\ l <= z
    BY RecordFacts, TextFacts DEF Shaped
<1>2. /\ e \in Seq(Written) /\ Len(e) = z /\ \A i \in 1..z : e[i] = old[i]
    BY <1>1, TextFacts
<1>3. EraseFits(r) <=> z < Len(old)
    <2>1. EraseFits(r) <=> z + Len(<<Nul>>) <= Len(old)
        BY DEF EraseFits, Fits
    <2> HIDE DEF old, z
    <2> QED BY <1>1, <2>1, NulCells
<1>4. erase(r, f, l) = Changed(r, new, left)
    BY DEF erase, ShiftedLeft, Changed
<1> HIDE DEF old, z, e
<1>5. left \in Nat /\ f <= left /\ left <= z
    BY <1>1
<1>6. left = z - (l - f)
    OBVIOUS
<1> HIDE DEF left
<1>7. /\ new \in Seq(Cells) /\ Len(new) = Len(old)
      /\ left < Len(old) => new[left + 1] = Nul
      /\ \A i \in 1..f : new[i] = old[i]
      /\ \A i \in (f + 1)..left : new[i] = old[l + (i - f)]
    <2>1. new = Put(Put(Put(old, f, Slice(old, l, z)), left, <<Nul>>), left + 1, Slice(old, f, l))
        OBVIOUS
    <2> HIDE DEF new
    <2>2. IsErased(new, old, f, l, left)
        BY <1>1, <1>5, <1>6, <2>1, ErasedCells
    <2> QED BY <2>2 DEF IsErased
<1> HIDE DEF new
<1>8. /\ without \in Seq(Written) /\ Len(without) = left
      /\ \A i \in 1..f : without[i] = e[i]
      /\ \A i \in (f + 1)..left : without[i] = e[l + (i - f)]
    <2>1. l <= Len(e) /\ z = Len(e)
        BY <1>1, <1>2
    <2>2. IsCut(without, e, f, l, left)
        BY <1>1, <1>2, <1>6, <2>1, CutWritten
    <2> HIDE DEF without
    <2> QED BY <2>2 DEF IsCut
<1> HIDE DEF without
<1>9. Shaped(Changed(r, new, left)) /\ Changed(r, new, left).size = left
      /\ Changed(r, new, left).buffer = new
    BY <1>1, <1>5, <1>7, ChangedFacts DEF old
<1>10. ASSUME z < Len(old)
       PROVE  Starts(new, without)
    <2>1. ASSUME NEW i \in 1..f
          PROVE  new[i] = without[i]
        <3>1. i \in 1..z
            BY <1>1, <1>5
        <3> QED BY <1>2, <1>7, <1>8, <3>1
    <2>2. ASSUME NEW i \in (f + 1)..left
          PROVE  new[i] = without[i]
        <3>1. l + (i - f) \in 1..z
            BY <1>1, <1>6
        <3> QED BY <1>2, <1>7, <1>8, <3>1
    <2>3. \A i \in 1..left : i \in 1..f \/ i \in (f + 1)..left
        BY <1>5
    <2>4. \A i \in 1..left : new[i] = without[i]
        BY <2>1, <2>2, <2>3
    <2>5. left < Len(old)
        BY <1>1, <1>5, <1>10
    <2> QED BY <1>7, <1>8, <2>4, <2>5 DEF Starts
<1> QED BY <1>3, <1>4, <1>6, <1>8, <1>9, <1>10 DEF Holds, old, z, e, without

-----------------------------------------------------------------------------
(* A string made by one push_back after another: induction over the pushes, as a set *)
(* of numbers has a least one.                                                       *)

LEMMA LessThan == \A x, y \in Nat : x < y => <<x, y>> \in OpToRel(<, Nat)
BY DEF OpToRel

LEMMA Least ==
    ASSUME NEW S \in SUBSET Nat, S # {}
    PROVE  \E n \in S : \A m \in S : n <= m
<1>1. PICK n \in S : \A m \in S : ~(<<m, n>> \in OpToRel(<, Nat))
    BY NatLessThanWellFounded, WFMin, Zenon
<1>2. \A m \in S : ~(m < n)
    BY <1>1, LessThan
<1> QED BY <1>2

\* after holds the strings after the first n pushes.
Pushes(after, xs, n) ==
    after = [i \in 0..n |-> IF i = 0 THEN Empty ELSE push_back(after[i - 1], xs[i])]

LEMMA NoPush ==
    ASSUME NEW xs
    PROVE  \E after : Pushes(after, xs, 0)
<1> DEFINE after == [i \in 0..0 |-> Empty]
<1>1. \A i \in 0..0 : i = 0
    OBVIOUS
<1>2. after = [i \in 0..0 |-> IF i = 0 THEN Empty ELSE push_back(after[i - 1], xs[i])]
    BY <1>1
<1> QED BY <1>2 DEF Pushes

LEMMA OneMorePush ==
    ASSUME NEW xs, NEW n \in Nat, NEW before, Pushes(before, xs, n)
    PROVE  \E after : Pushes(after, xs, n + 1)
<1> DEFINE Pushed(i) == push_back(before[i - 1], xs[i])
           after == [i \in 0..(n + 1) |-> IF i = 0 THEN Empty ELSE Pushed(i)]
<1>1. ASSUME NEW i \in 0..n
      PROVE  after[i] = before[i]
    <2>1. i \in 0..(n + 1)
        OBVIOUS
    <2>2. before[i] = IF i = 0 THEN Empty ELSE Pushed(i)
        BY DEF Pushes
    <2> HIDE DEF Pushed
    <2> QED BY <2>1, <2>2
<1>2. ASSUME NEW i \in 0..(n + 1), i # 0
      PROVE  push_back(after[i - 1], xs[i]) = Pushed(i)
    <2>1. i - 1 \in 0..n
        BY <1>2
    <2>2. after[i - 1] = before[i - 1]
        BY <1>1, <2>1
    <2> QED BY <2>2
<1>3. after = [i \in 0..(n + 1) |-> IF i = 0 THEN Empty ELSE push_back(after[i - 1], xs[i])]
    <2> DEFINE Following(i) == push_back(after[i - 1], xs[i])
    <2>1. \A i \in 0..(n + 1) : i # 0 => Following(i) = Pushed(i)
        BY <1>2
    <2> HIDE DEF Pushed, Following
    <2>2. after = [i \in 0..(n + 1) |-> IF i = 0 THEN Empty ELSE Following(i)]
        BY <2>1
    <2> QED BY <2>2 DEF Following
<1> QED BY <1>3 DEF Pushes

LEMMA PushesExist ==
    ASSUME NEW xs, NEW n \in Nat
    PROVE  \E after : Pushes(after, xs, n)
<1> DEFINE S == {m \in Nat : ~ \E after : Pushes(after, xs, m)}
<1>1. ASSUME S # {}
      PROVE  FALSE
    <2>1. S \in SUBSET Nat
        OBVIOUS
    <2>2. PICK m \in S : \A k \in S : m <= k
        BY <1>1, <2>1, Least
    <2>3. m \in Nat /\ m # 0
        BY <2>2, NoPush
    <2>4. m - 1 \in Nat /\ (m - 1) + 1 = m /\ ~(m <= m - 1)
        BY <2>3
    <2>5. PICK before : Pushes(before, xs, m - 1)
        BY <2>2, <2>4
    <2>6. \E after : Pushes(after, xs, (m - 1) + 1)
        BY <2>4, <2>5, OneMorePush
    <2> QED BY <2>2, <2>4, <2>6
<1> QED BY <1>1

LEMMA UncrampedEmpty == ~Cramped(Empty)
BY EmptyHolds DEF Cramped

LEMMA RangeHolds ==
    ASSUME NEW xs \in Seq(Chars)
    PROVE  Shaped(FromRange(xs)) /\ Holds(FromRange(xs), xs)
<1> DEFINE z == Len(xs)
           after == CHOOSE after : Pushes(after, xs, z)
           Right(n) == /\ Shaped(after[n]) /\ ~Cramped(after[n])
                       /\ Holds(after[n], SubSeq(xs, 1, n))
           S == {n \in 0..z : ~Right(n)}
<1>1. z \in Nat /\ xs \in Seq(Written) /\ xs = SubSeq(xs, 1, z)
    BY CellFacts
<1>2. Pushes(after, xs, z)
    BY <1>1, PushesExist
<1>3. FromRange(xs) = after[z]
    BY DEF FromRange, Pushes
<1> HIDE DEF after, z
<1>4. ASSUME NEW i \in 0..z
      PROVE  after[i] = IF i = 0 THEN Empty ELSE push_back(after[i - 1], xs[i])
    BY <1>2 DEF Pushes
<1>5. Right(0)
    <2>1. after[0] = Empty
        BY <1>1, <1>4
    <2>2. SubSeq(xs, 1, 0) = <<>>
        BY <1>1
    <2> QED BY <2>1, <2>2, EmptyHolds, UncrampedEmpty
<1>6. ASSUME NEW n \in 1..z, Right(n - 1)
      PROVE  Right(n)
    <2> DEFINE r == after[n - 1]
               e == SubSeq(xs, 1, n - 1)
    <2>1. after[n] = push_back(r, xs[n])
        BY <1>1, <1>4
    <2>2. n - 1 \in Nat /\ n - 1 <= Len(xs) /\ n \in 1..Len(xs) /\ xs[n] \in Written
        BY <1>1, CellFacts DEF z
    <2>3. e \in Seq(Written)
        BY <1>1, <2>2, FrontWritten
    <2>4. Append(e, xs[n]) = SubSeq(xs, 1, n)
        BY <1>1, <2>2
    <2>5. Shaped(r) /\ ~Cramped(r) /\ Holds(r, e)
        BY <1>6
    <2> HIDE DEF r, e
    <2>6. Sound(r) /\ text(r) = e
        BY <2>3, <2>5, HeldText DEF Shaped
    <2> QED BY <2>1, <2>2, <2>4, <2>5, <2>6, PushHolds
<1>7. ASSUME S # {}
      PROVE  FALSE
    <2>1. S \in SUBSET Nat
        BY <1>1
    <2>2. PICK m \in S : \A k \in S : m <= k
        BY <1>7, <2>1, Least
    <2>3. m \in 1..z /\ m - 1 \in 0..z /\ ~(m <= m - 1)
        BY <1>1, <1>5, <2>2
    <2>4. Right(m - 1)
        BY <2>2, <2>3
    <2> QED BY <1>6, <2>2, <2>3, <2>4
<1>8. Right(z)
    BY <1>1, <1>7
<1> QED BY <1>1, <1>3, <1>8

-----------------------------------------------------------------------------
(* The invariant *)

Shape ==
    /\ str \in [Strings -> Records]
    /\ \A s \in Strings : Shaped(str[s]) /\ str[s].size <= MaxSize
    /\ overflow \in BOOLEAN

\* As long as no call wrote outside its buffers
Texted == overflow \/ \A s \in Strings : Sound(str[s])

Inv == Shape /\ Texted

LEMMA RoomBound ==
    ASSUME NEW s
    PROVE  Room(s) \in Int /\ Room(s) <= MaxSize
<1> DEFINE P == (Strings \ {s}) \X (1..MaxSize)
           used == {p \in P : p[2] <= str[p[1]].size}
<1>1. IsFiniteSet(Strings \ {s})
    BY StringAssumption, FS_Subset
<1>2. IsFiniteSet(1..MaxSize)
    BY NumberFacts, FS_Interval
<1>3. IsFiniteSet(P)
    BY <1>1, <1>2, FS_Product
<1>4. IsFiniteSet(used)
    <2>1. used \subseteq P
        OBVIOUS
    <2> HIDE DEF P, used
    <2> QED BY <1>3, <2>1, FS_Subset
<1>5. Cardinality(used) \in Nat
    <2> HIDE DEF used
    <2> QED BY <1>4, FS_CardinalityType
<1>6. Room(s) = MaxSize - Cardinality(used)
    BY DEF Room
<1> HIDE DEF used
<1> QED BY <1>5, <1>6, NumberFacts

LEMMA StringFacts ==
    ASSUME Inv, ~overflow, NEW s \in Strings
    PROVE  /\ Shaped(str[s]) /\ Sound(str[s]) /\ str[s] \in Records
           /\ str[s].size \in Nat /\ str[s].size <= MaxSize
           /\ text(str[s]) \in Seq(Written) /\ Len(text(str[s])) = str[s].size
<1>1. /\ Shaped(str[s]) /\ Sound(str[s]) /\ str[s] \in Records /\ str[s].size <= MaxSize
    BY DEF Inv, Shape, Texted
<1> QED BY <1>1, RecordFacts, TextFacts

LEMMA InitInv == Init => Inv
<1> SUFFICES ASSUME Init
             PROVE  Inv
    OBVIOUS
<1>1. Shaped(Empty) /\ Empty \in Records /\ Empty.size = 0 /\ Sound(Empty)
    <2>1. Shaped(Empty) /\ Holds(Empty, <<>>)
        BY EmptyHolds
    <2>2. Empty \in Records /\ Empty.size = 0
        BY <2>1, NoChars DEF Shaped, Holds
    <2> QED BY <2>1, <2>2, NoChars, HeldText
<1>2. \A s \in Strings : str[s] = Empty
    BY DEF Init
<1>3. str \in [Strings -> Records] /\ overflow \in BOOLEAN
    BY <1>1 DEF Init
<1> QED BY <1>1, <1>2, <1>3, NumberFacts DEF Inv, Shape, Texted

-----------------------------------------------------------------------------
(* What a call does *)

Contents == [s \in Strings |-> text(str[s])]

\* What a step may leave of a string, apart from reserve.
Proper(s) == Ended(str'[s]) \/ str'[s].buffer = <<>> \/ \E t \in Strings : str'[s] = str[t]

LEMMA InvNext ==
    ASSUME str' \in [Strings -> Records], overflow' \in BOOLEAN,
           \A s \in Strings : Shaped(str'[s]) /\ str'[s].size <= MaxSize,
           overflow' \/ \A s \in Strings : Sound(str'[s])
    PROVE  Inv'
BY DEF Inv, Shape, Texted

\* The string r that a call leaves has the text e, if the call kept within its buffers.
Leaves(r, ok, e) ==
    /\ Shaped(r) /\ r.size <= MaxSize /\ ok \in BOOLEAN /\ e \in Seq(Written)
    /\ ok => Sound(r) /\ text(r) = e
    /\ ~ok => \E t \in Strings : Cramped(str[t])

LEMMA OneBecomes ==
    ASSUME Inv, NEW s \in Strings, NEW r, NEW ok, NEW c, NEW e, Leaves(r, ok, e), Becomes(s, r, ok, c)
    PROVE  /\ Inv' /\ call' = c /\ (overflow' <=> ~ok)
           /\ overflow' => \E t \in Strings : Cramped(str[t])
           /\ ok /\ Ended(r) => \A t \in Strings : Proper(t)
           /\ overflow' \/ Texts!Become(s, e)
<1>1. /\ ~overflow /\ str' = [str EXCEPT ![s] = r] /\ overflow' = ~ok /\ call' = c
    BY DEF Becomes
<1>2. str \in [Strings -> Records] /\ \A t \in Strings : Shaped(str[t]) /\ Sound(str[t]) /\ str[t].size <= MaxSize
    BY <1>1 DEF Inv, Shape, Texted
<1>3. /\ Shaped(r) /\ r.size <= MaxSize /\ ok \in BOOLEAN /\ r \in Records
      /\ (ok => Sound(r) /\ text(r) = e) /\ (~ok => \E t \in Strings : Cramped(str[t]))
    BY DEF Leaves, Shaped
<1>4. str'[s] = r /\ \A t \in Strings \ {s} : str'[t] = str[t]
    BY <1>1, <1>2
<1>5. Inv'
    <2>1. str' \in [Strings -> Records] /\ overflow' \in BOOLEAN
        BY <1>1, <1>2, <1>3
    <2>2. \A t \in Strings : Shaped(str'[t]) /\ str'[t].size <= MaxSize
        BY <1>2, <1>3, <1>4
    <2>3. overflow' \/ \A t \in Strings : Sound(str'[t])
        BY <1>1, <1>2, <1>3, <1>4
    <2> QED BY <2>1, <2>2, <2>3, InvNext
<1>6. ASSUME Ended(r), NEW t \in Strings
      PROVE  Proper(t)
    BY <1>4, <1>6 DEF Proper
<1>7. ASSUME ok
      PROVE  Texts!Become(s, e)
    <2>1. \A t \in Strings : text(str'[t]) = IF t = s THEN e ELSE text(str[t])
        BY <1>3, <1>4, <1>7
    <2>2. Contents' = [Contents EXCEPT ![s] = e]
        BY <2>1 DEF Contents
    <2> QED BY <2>2 DEF Contents, Texts!Become
<1> QED BY <1>1, <1>3, <1>5, <1>6, <1>7

\* What every step does.
Outcome ==
    /\ Inv'
    /\ overflow' => \E t \in Strings : Cramped(str[t])
    /\ overflow' \/ call'.op = "storage" \/ \A t \in Strings : Proper(t)
    /\ MovesLong /\ ~overflow' =>
          /\ text(str'[call'.v]) = Put(text(str[call'.w]), 0, <<Nul>>)
          /\ Ended(str'[call'.v])
          /\ call'.v # call'.w => str'[call'.w] = Long(<<>>, 0)
    /\ overflow' \/ MovesLong \/ Texts!Next

\* A call that writes one text.
LEMMA HeldOutcome ==
    ASSUME Inv, NEW s \in Strings, NEW r, NEW ok, NEW c, NEW e, Becomes(s, r, ok, c),
           Shaped(r), r.size <= MaxSize, ok \in BOOLEAN, e \in Seq(Written), ok => Holds(r, e),
           ~ok => \E t \in Strings : Cramped(str[t]), c.op # "move",
           call' = c /\ Texts!Become(s, e) => Texts!Next
    PROVE  Outcome
<1>1. ASSUME ok
      PROVE  Sound(r) /\ text(r) = e /\ Ended(r)
    BY <1>1, HeldText DEF Shaped
<1>2. Leaves(r, ok, e)
    BY <1>1 DEF Leaves
<1>3. /\ Inv' /\ call' = c /\ (overflow' <=> ~ok)
      /\ overflow' => \E t \in Strings : Cramped(str[t])
      /\ ok /\ Ended(r) => \A t \in Strings : Proper(t)
      /\ overflow' \/ Texts!Become(s, e)
    BY <1>2, OneBecomes
<1>4. ~MovesLong
    BY <1>3 DEF MovesLong
<1> QED BY <1>1, <1>3, <1>4 DEF Outcome

LEMMA CharsText ==
    ASSUME NEW s \in Strings, NEW n \in 0..Room(s), NEW xs \in [1..n -> Chars]
    PROVE  xs \in Seq(Chars) /\ xs \in Seq(Written) /\ Len(xs) = n /\ n <= MaxSize
<1>1. n \in Nat /\ n <= MaxSize
    BY RoomBound, NumberFacts
<1>2. xs \in Seq(Chars) /\ Len(xs) = n
    BY <1>1
<1> QED BY <1>1, <1>2, CellFacts

LEMMA AssignedRefines ==
    ASSUME NEW s \in Strings, NEW xs, call' = Assigned(s, xs), Texts!Become(s, xs)
    PROVE  Texts!Next
<1>1. call'.op = "assign" /\ call'.v = s /\ call'.s = xs
    BY DEF Assigned
<1> QED BY <1>1 DEF Texts!Next, Texts!Assign

LEMMA ConstructOutcome ==
    ASSUME Inv, NEW s \in Strings, Construct(s)
    PROVE  Outcome
<1>1. Shaped(Empty) /\ Holds(Empty, <<>>) /\ Empty.size <= MaxSize /\ <<>> \in Seq(Written)
    BY EmptyHolds, NoChars, NumberFacts DEF Holds
<1>2. Becomes(s, Empty, TRUE, Assigned(s, <<>>))
    BY DEF Construct
<1>3. Assigned(s, <<>>).op # "move"
    BY DEF Assigned
<1>4. call' = Assigned(s, <<>>) /\ Texts!Become(s, <<>>) => Texts!Next
    BY AssignedRefines
<1> HIDE DEF Outcome
<1> QED BY <1>1, <1>2, <1>3, <1>4, HeldOutcome

LEMMA FromLiteralOutcome ==
    ASSUME Inv, NEW s \in Strings, NEW n \in 0..Room(s), NEW xs \in [1..n -> Chars],
           ConstructFromLiteral(s, xs)
    PROVE  Outcome
<1> DEFINE r == FromLiteral(xs)
           c == Assigned(s, xs)
<1>1. xs \in Seq(Written) /\ Len(xs) <= MaxSize /\ xs \in Seq(Chars)
    BY CharsText
<1>2. Shaped(r) /\ Holds(r, xs) /\ r.size <= MaxSize
    BY <1>1, LiteralHolds DEF Holds
<1>3. Becomes(s, r, TRUE, c)
    BY DEF ConstructFromLiteral
<1>4. c.op # "move"
    BY DEF Assigned
<1>5. call' = c /\ Texts!Become(s, xs) => Texts!Next
    BY AssignedRefines
<1> HIDE DEF r, c
<1> QED BY <1>1, <1>2, <1>3, <1>4, <1>5, HeldOutcome

LEMMA FromRangeOutcome ==
    ASSUME Inv, NEW s \in Strings, NEW n \in 0..Room(s), NEW xs \in [1..n -> Chars],
           ConstructFromRange(s, xs)
    PROVE  Outcome
<1> DEFINE r == FromRange(xs)
           c == Assigned(s, xs)
<1>1. xs \in Seq(Written) /\ Len(xs) <= MaxSize /\ xs \in Seq(Chars)
    BY CharsText
<1>2. Shaped(r) /\ Holds(r, xs) /\ r.size <= MaxSize
    BY <1>1, RangeHolds DEF Holds
<1>3. Becomes(s, r, TRUE, c)
    BY DEF ConstructFromRange
<1>4. c.op # "move"
    BY DEF Assigned
<1>5. call' = c /\ Texts!Become(s, xs) => Texts!Next
    BY AssignedRefines
<1> HIDE DEF r, c
<1> QED BY <1>1, <1>2, <1>3, <1>4, <1>5, HeldOutcome

LEMMA ContentsOf ==
    ASSUME NEW s \in Strings
    PROVE  Contents[s] = text(str[s])
BY DEF Contents

\* A string without room for a terminator has no buffer.
LEMMA NoTerminatorRoom ==
    ASSUME NEW r, Shaped(r), Sound(r), ~(r.size < Len(r.buffer))
    PROVE  Cramped(r) /\ r.buffer = <<>>
BY CapacityFacts DEF Sound

LEMMA CopyOutcome ==
    ASSUME Inv, NEW s \in Strings, NEW t \in Strings, Copy(s, t)
    PROVE  Outcome
<1> DEFINE r == CopyOf(str[t])
           ok == CopyFits(str[t])
           c == [op |-> "copy", v |-> s, w |-> t]
           e == text(str[t])
<1>1. Becomes(s, r, ok, c) /\ ~overflow
    BY DEF Copy, Becomes
<1>2. /\ Shaped(str[t]) /\ Sound(str[t]) /\ str[t].size <= MaxSize /\ e \in Seq(Written)
    BY <1>1, StringFacts
<1>3. /\ Shaped(r) /\ r.size = str[t].size /\ (ok => Holds(r, e))
      /\ ok <=> str[t].size < Len(str[t].buffer)
    BY <1>2, CopyHolds
<1>4. ok \in BOOLEAN /\ (~ok => Cramped(str[t]))
    <2>1. ok \in BOOLEAN
        BY DEF CopyFits, Fits
    <2> HIDE DEF ok
    <2> QED BY <1>2, <1>3, <2>1, NoTerminatorRoom
<1>5. c.op # "move"
    OBVIOUS
<1>6. ASSUME call' = c, Texts!Become(s, e)
      PROVE  Texts!Next
    <2>1. call'.op = "copy" /\ call'.v = s /\ call'.w = t
        BY <1>6
    <2>2. Texts!Copy(s, t)
        BY <1>6 DEF Texts!Copy
    <2> QED BY <2>1, <2>2 DEF Texts!Next
<1> HIDE DEF r, ok, c, e
<1> QED BY <1>1, <1>2, <1>3, <1>4, <1>5, <1>6, HeldOutcome

LEMMA PushBackOutcome ==
    ASSUME Inv, NEW s \in Strings, NEW ch \in Chars, PushBack(s, ch)
    PROVE  Outcome
<1> DEFINE r == push_back(str[s], ch)
           ok == PushFits(str[s])
           c == [op |-> "push", v |-> s, x |-> ch]
           e == Append(text(str[s]), ch)
<1>1. Becomes(s, r, ok, c) /\ ~overflow /\ str[s].size < Room(s)
    BY DEF PushBack, Becomes
<1>2. /\ Shaped(str[s]) /\ Sound(str[s]) /\ str[s].size \in Nat /\ ch \in Written
      /\ text(str[s]) \in Seq(Written)
    BY <1>1, StringFacts, CellFacts
<1>3. /\ Shaped(r) /\ r.size = str[s].size + 1 /\ (ok => Holds(r, e)) /\ (~Cramped(str[s]) => ok)
    BY <1>2, PushHolds
<1>4. r.size <= MaxSize
    <2>1. str[s].size + 1 <= MaxSize
        BY <1>1, <1>2, RoomBound, NumberFacts
    <2> QED BY <1>3, <2>1
<1>5. ok \in BOOLEAN /\ e \in Seq(Written)
    BY <1>2, AppendWritten DEF PushFits, Fits
<1>6. c.op # "move"
    OBVIOUS
<1>7. ASSUME call' = c, Texts!Become(s, e)
      PROVE  Texts!Next
    <2>1. call'.op = "push" /\ call'.v = s /\ call'.x = ch
        BY <1>7
    <2>2. Texts!PushBack(s, ch)
        BY <1>7 DEF Texts!PushBack
    <2> QED BY <2>1, <2>2 DEF Texts!Next
<1> HIDE DEF r, ok, c, e
<1> QED BY <1>1, <1>3, <1>4, <1>5, <1>6, <1>7, HeldOutcome

LEMMA PopBackOutcome ==
    ASSUME Inv, NEW s \in Strings, PopBack(s)
    PROVE  Outcome
<1> DEFINE r == pop_back(str[s])
           c == [op |-> "pop", v |-> s]
           e == SubSeq(text(str[s]), 1, Len(text(str[s])) - 1)
<1>1. Becomes(s, r, TRUE, c) /\ ~overflow /\ str[s].size > 0
    BY DEF PopBack, Becomes
<1>2. /\ Shaped(str[s]) /\ Sound(str[s]) /\ str[s].size \in Nat /\ str[s].size <= MaxSize
    BY <1>1, StringFacts
<1>3. /\ Shaped(r) /\ r.size = str[s].size - 1 /\ e \in Seq(Written) /\ Holds(r, e)
    BY <1>1, <1>2, PopHolds
<1>4. r.size <= MaxSize
    BY <1>2, <1>3, NumberFacts
<1>5. c.op # "move"
    OBVIOUS
<1>6. ASSUME call' = c, Texts!Become(s, e)
      PROVE  Texts!Next
    <2>1. call'.op = "pop" /\ call'.v = s
        BY <1>6
    <2>2. Texts!PopBack(s)
        BY <1>6 DEF Texts!PopBack
    <2> QED BY <2>1, <2>2 DEF Texts!Next
<1> HIDE DEF r, c, e
<1> QED BY <1>1, <1>3, <1>4, <1>5, <1>6, HeldOutcome

\* reserve keeps the text, but not its end.
LEMMA ReserveOutcome ==
    ASSUME Inv, NEW s \in Strings, NEW n \in 0..MaxSize, Reserve(s, n)
    PROVE  Outcome
<1> DEFINE r == reserve(str[s], n)
           c == [op |-> "storage"]
           e == text(str[s])
<1>1. Becomes(s, r, TRUE, c) /\ ~overflow
    BY DEF Reserve, Becomes
<1>2. /\ Shaped(str[s]) /\ Sound(str[s]) /\ str[s].size \in Nat /\ str[s].size <= MaxSize
      /\ str[s] \in Records
      /\ e \in Seq(Written) /\ Len(e) = str[s].size /\ \A i \in 1..str[s].size : e[i] = str[s].buffer[i]
    BY <1>1, StringFacts, TextFacts
<1>3. n \in Nat /\ n <= SizeMax
    BY NumberFacts
<1>4. Keeps(r, str[s])
    BY <1>2, <1>3, ReserveKeeps
<1> HIDE DEF r
<1>5. /\ Shaped(r) /\ Sound(r) /\ r \in Records /\ r.size = str[s].size
      /\ \A i \in 1..str[s].size : r.buffer[i] = str[s].buffer[i]
    BY <1>4 DEF Keeps, Shaped
<1>6. /\ text(r) \in Seq(Written) /\ Len(text(r)) = r.size
      /\ \A i \in 1..r.size : text(r)[i] = r.buffer[i]
    BY <1>5, TextFacts
<1>7. text(r) = e
    <2> HIDE DEF e
    <2>1. Len(text(r)) = Len(e) /\ \A i \in 1..Len(text(r)) : text(r)[i] = e[i]
        BY <1>2, <1>5, <1>6
    <2> QED BY <1>2, <1>6, <2>1, SeqEqual
<1>8. Leaves(r, TRUE, e)
    BY <1>2, <1>5, <1>7 DEF Leaves
<1>9. Inv' /\ call' = c /\ ~overflow' /\ Texts!Become(s, e)
    BY <1>1, <1>8, OneBecomes
<1>10. call'.op = "storage" /\ ~MovesLong
    BY <1>9 DEF MovesLong
<1>11. Texts!Next
    <2>1. UNCHANGED Contents
        BY <1>9 DEF Contents, Texts!Become
    <2> QED BY <1>10, <2>1 DEF Texts!Next, Contents
<1> QED BY <1>9, <1>10, <1>11 DEF Outcome

LEMMA EraseOutcome ==
    ASSUME Inv, NEW s \in Strings, NEW l \in 0..str[s].size, NEW f \in 0..l, Erase(s, f, l)
    PROVE  Outcome
<1> DEFINE r == erase(str[s], f, l)
           ok == EraseFits(str[s])
           c == [op |-> "erase", v |-> s, f |-> f, l |-> l]
           e == Cut(text(str[s]), f, l)
<1>1. Becomes(s, r, ok, c) /\ ~overflow
    BY DEF Erase, Becomes
<1>2. /\ Shaped(str[s]) /\ Sound(str[s]) /\ str[s].size \in Nat /\ str[s].size <= MaxSize
    BY <1>1, StringFacts
<1>3. f \in Nat /\ l \in Nat /\ f <= l /\ l <= str[s].size
    BY <1>2
<1>4. /\ Shaped(r) /\ r.size = str[s].size - (l - f) /\ e \in Seq(Written)
      /\ (ok => Holds(r, e)) /\ (ok <=> str[s].size < Len(str[s].buffer))
    BY <1>2, <1>3, EraseHolds
<1>5. r.size <= MaxSize
    BY <1>2, <1>3, <1>4, NumberFacts
<1>6. ok \in BOOLEAN /\ (~ok => Cramped(str[s]))
    <2>1. ok \in BOOLEAN
        BY DEF EraseFits, Fits
    <2> HIDE DEF ok
    <2> QED BY <1>2, <1>4, <2>1, NoTerminatorRoom
<1>7. c.op # "move"
    OBVIOUS
<1>8. ASSUME call' = c, Texts!Become(s, e)
      PROVE  Texts!Next
    <2>1. call'.op = "erase" /\ call'.v = s /\ call'.f = f /\ call'.l = l
        BY <1>8
    <2>2. Texts!Erase(s, f, l)
        BY <1>8, ContentsOf DEF Texts!Erase, Cut, Contents
    <2> QED BY <2>1, <2>2 DEF Texts!Next
<1> HIDE DEF r, ok, c, e
<1> QED BY <1>1, <1>4, <1>5, <1>6, <1>7, <1>8, HeldOutcome

\* The chars of a range of a string are those of its text.
LEMMA RangeText ==
    ASSUME NEW r, Shaped(r), Sound(r), NEW f \in Nat, NEW l \in Nat, f <= l, l <= r.size
    PROVE  /\ Slice(r.buffer, f, l) = SubSeq(text(r), f + 1, l)
           /\ Slice(r.buffer, f, l) \in Seq(Written) /\ Len(Slice(r.buffer, f, l)) = l - f
<1> DEFINE a == r.buffer
           b == text(r)
           x == Slice(a, f, l)
           y == Slice(b, f, l)
<1>1. /\ a \in Seq(Cells) /\ b \in Seq(Written) /\ Len(b) = r.size /\ r.size \in Nat
      /\ l <= Len(a) /\ l <= Len(b) /\ \A i \in 1..r.size : b[i] = a[i]
    BY RecordFacts, TextFacts DEF Shaped
<1> HIDE DEF a, b
<1>2. x \in Seq(Cells) /\ Len(x) = l - f /\ \A i \in 1..(l - f) : x[i] = a[f + i]
    BY <1>1, SliceOf
<1>3. y \in Seq(Written) /\ Len(y) = l - f /\ \A i \in 1..(l - f) : y[i] = b[f + i]
    BY <1>1, SliceWritten
<1> HIDE DEF x, y
<1>4. \A i \in 1..(l - f) : f + i \in 1..r.size
    BY <1>1
<1>5. x = y
    <2>1. y \in Seq(Cells)
        BY <1>3, WrittenAreCells
    <2>2. \A i \in 1..(l - f) : x[i] = y[i]
        BY <1>1, <1>2, <1>3, <1>4
    <2> QED BY <1>2, <1>3, <2>1, <2>2, SeqEqual
<1> QED BY <1>3, <1>5 DEF x, y, a, b, Slice

LEMMA NothingLost ==
    ASSUME NEW e \in Seq(Written), NEW l \in Nat
    PROVE  Texts!LosesTail(e, l, l) = e
<1>1. \A i \in DOMAIN e : i \in Int
    OBVIOUS
<1>2. \A i \in DOMAIN e : i \notin (l + 1)..l
    BY <1>1
<1>3. e = [i \in DOMAIN e |-> e[i]]
    OBVIOUS
<1> QED BY <1>2, <1>3 DEF Texts!LosesTail

LEMMA InsertOutcome ==
    ASSUME Inv, NEW s \in Strings, NEW t \in Strings, NEW pos \in 0..str[s].size,
           NEW l \in 0..str[t].size, NEW f \in 0..l, Insert(s, pos, t, f, l)
    PROVE  Outcome
<1> DEFINE items == Slice(str[t].buffer, f, l)
           r == insert(str[s], pos, items)
           ok == InsertFits(str[s], items)
           c == [op |-> "insert", v |-> s, pos |-> pos, w |-> t, f |-> f, l |-> l]
           e == Spliced(text(str[s]), pos, items)
<1>1. Becomes(s, r, ok, c) /\ ~overflow /\ f < l /\ str[s].size + (l - f) <= Room(s)
    BY DEF Insert, Becomes
<1>2. /\ Shaped(str[s]) /\ Sound(str[s]) /\ str[s].size \in Nat
      /\ Shaped(str[t]) /\ Sound(str[t]) /\ str[t].size \in Nat /\ text(str[t]) \in Seq(Written)
    BY <1>1, StringFacts
<1>3. /\ f \in Nat /\ l \in Nat /\ f <= l /\ l <= str[t].size /\ pos \in Nat /\ pos <= str[s].size
    BY <1>2
<1>4. items = SubSeq(text(str[t]), f + 1, l) /\ items \in Seq(Written) /\ Len(items) = l - f
    BY <1>2, <1>3, RangeText
<1> HIDE DEF items
<1>5. str[s].size + Len(items) <= MaxSize /\ Len(items) <= SizeMax
    <2>1. Room(s) \in Int /\ Room(s) <= MaxSize
        BY RoomBound
    <2>2. MaxSize \in Nat /\ SizeMax \in Nat /\ MaxSize <= SizeMax
        BY NumberFacts
    <2> DEFINE z == str[s].size
               room == Room(s)
               n == Len(items)
    <2>3. z \in Nat /\ z + (l - f) <= room /\ room \in Int /\ room <= MaxSize /\ n = l - f
        BY <1>1, <1>2, <1>4, <2>1
    <2> HIDE DEF z, room, n
    <2>4. z + n <= MaxSize /\ n <= SizeMax
        BY <1>3, <2>2, <2>3
    <2> QED BY <2>4 DEF z, n
<1>6. /\ Shaped(r) /\ r.size = str[s].size + Len(items) /\ e \in Seq(Written)
      /\ (ok => Holds(r, e)) /\ (~Cramped(str[s]) => ok)
    BY <1>2, <1>3, <1>4, <1>5, InsertHolds
<1>7. ok \in BOOLEAN
    BY DEF InsertFits, Fits
<1>8. c.op # "move"
    OBVIOUS
<1>9. ASSUME call' = c, Texts!Become(s, e)
      PROVE  Texts!Next
    <2>1. /\ call'.op = "insert" /\ call'.v = s /\ call'.pos = pos /\ call'.w = t
          /\ call'.f = f /\ call'.l = l
        BY <1>9
    <2>2. Contents' = [Contents EXCEPT ![s] = e]
        BY <1>9 DEF Texts!Become, Contents
    <2>3. SubSeq(Contents[s], 1, pos) \o SubSeq(Contents[t], f + 1, l)
             \o SubSeq(Contents[s], pos + 1, Len(Contents[s])) = e
        BY <1>4, ContentsOf DEF Spliced
    <2> HIDE DEF e
    <2>4. ASSUME s = t
          PROVE  Texts!Insert(s, pos, t, f, l)
        BY <2>2, <2>3, <2>4 DEF Texts!Insert, Texts!Become, Contents
    <2>5. ASSUME s # t
          PROVE  Texts!Insert(s, pos, t, f, l)
        <3>1. Texts!LosesTail(Contents[t], l, l) = Contents[t]
            BY <1>2, ContentsOf, NothingLost
        <3>2. Contents' = [Contents EXCEPT ![s] = e, ![t] = Texts!LosesTail(@, l, l)]
            BY <2>2, <2>5, <3>1 DEF Contents
        <3>3. l \in f..l
            BY <1>3
        <3> QED BY <2>3, <2>5, <3>2, <3>3 DEF Texts!Insert, Contents
    <2>6. Texts!Insert(s, pos, t, f, l)
        BY <2>4, <2>5
    <2> QED BY <2>1, <2>6 DEF Texts!Next
<1> HIDE DEF r, ok, c, e
<1> QED BY <1>1, <1>5, <1>6, <1>7, <1>8, <1>9, HeldOutcome

LEMMA MoveOutcome ==
    ASSUME Inv, NEW s \in Strings, NEW t \in Strings, Move(s, t)
    PROVE  Outcome
<1> DEFINE r == MovedTo(str[t])
           m == MovedFrom(str[t])
           ok == MoveFits(str[t])
           e == Arrives(str[t])
<1>1. /\ ~overflow /\ str' = [str EXCEPT ![t] = m, ![s] = r] /\ overflow' = ~ok
      /\ call' = [op |-> "move", v |-> s, w |-> t]
    BY DEF Move
<1>2. /\ str \in [Strings -> Records]
      /\ \A x \in Strings : Shaped(str[x]) /\ Sound(str[x]) /\ str[x].size <= MaxSize
      /\ Shaped(str[t]) /\ Sound(str[t]) /\ str[t].size <= MaxSize
    BY <1>1 DEF Inv, Shape, Texted
<1>3. /\ Shaped(r) /\ r.size = str[t].size /\ r \in Records
      /\ (ok => Holds(r, e)) /\ (ok <=> str[t].size < Len(str[t].buffer))
    BY <1>2, MovedToHolds DEF Shaped
<1>4. /\ Shaped(m) /\ m.size = 0 /\ m \in Records /\ Sound(m) /\ text(m) = <<>>
      /\ Ended(m) \/ m.buffer = <<>>
      /\ ~is_short_string(str[t]) => m = Long(<<>>, 0)
    BY <1>2, MovedFromHolds DEF Shaped
<1>5. e \in Seq(Written)
    BY <1>2, ArrivesWritten
<1>6. ok => Sound(r) /\ Ended(r) /\ text(r) = e
    BY <1>3, <1>5, HeldText
<1>7. ok \in BOOLEAN /\ (~ok => Cramped(str[t]))
    <2>1. ok \in BOOLEAN
        BY DEF MoveFits, Fits
    <2> HIDE DEF ok
    <2> QED BY <1>2, <1>3, <2>1, NoTerminatorRoom
<1>8. e = IF is_short_string(str[t]) THEN text(str[t]) ELSE Put(text(str[t]), 0, <<Nul>>)
    BY DEF Arrives
<1> HIDE DEF r, m, ok, e
<1>9. /\ str'[s] = r /\ (s # t => str'[t] = m)
      /\ \A x \in Strings \ {s, t} : str'[x] = str[x]
    BY <1>1, <1>2
<1>10. Inv'
    <2>1. str' \in [Strings -> Records] /\ overflow' \in BOOLEAN
        BY <1>1, <1>2, <1>3, <1>4, <1>7
    <2>2. \A x \in Strings : Shaped(str'[x]) /\ str'[x].size <= MaxSize
        BY <1>2, <1>3, <1>4, <1>9, NumberFacts
    <2>3. overflow' \/ \A x \in Strings : Sound(str'[x])
        BY <1>1, <1>2, <1>4, <1>6, <1>7, <1>9
    <2> QED BY <2>1, <2>2, <2>3, InvNext
<1>11. overflow' => \E x \in Strings : Cramped(str[x])
    BY <1>1, <1>7
<1>12. overflow' \/ \A x \in Strings : Proper(x)
    BY <1>1, <1>4, <1>6, <1>7, <1>9 DEF Proper
<1>13. call'.op = "move" /\ call'.v = s /\ call'.w = t
    BY <1>1
<1>14. MovesLong <=> ~is_short_string(str[t])
    BY <1>13 DEF MovesLong
<1>15. MovesLong /\ ~overflow' =>
          /\ text(str'[call'.v]) = Put(text(str[call'.w]), 0, <<Nul>>)
          /\ Ended(str'[call'.v])
          /\ call'.v # call'.w => str'[call'.w] = Long(<<>>, 0)
    BY <1>1, <1>4, <1>6, <1>7, <1>8, <1>9, <1>13, <1>14
<1>16. ASSUME ~overflow', ~MovesLong
       PROVE  Texts!Next
    <2>1. text(r) = text(str[t]) /\ ok
        BY <1>1, <1>6, <1>7, <1>8, <1>14, <1>16
    <2>2. ASSUME s = t
          PROVE  Texts!Move(s, t)
        <3>1. \A x \in Strings : text(str'[x]) = text(str[x])
            BY <1>9, <2>1, <2>2
        <3>2. Contents' = Contents
            BY <3>1 DEF Contents
        <3> QED BY <2>2, <3>2 DEF Texts!Move, Contents
    <2>3. ASSUME s # t
          PROVE  Texts!Move(s, t)
        <3>1. \A x \in Strings : text(str'[x]) = IF x = t THEN <<>> ELSE IF x = s THEN text(str[t])
                                                 ELSE text(str[x])
            BY <1>4, <1>9, <2>1, <2>3
        <3>2. Contents' = [Contents EXCEPT ![s] = Contents[t], ![t] = <<>>]
            BY <2>3, <3>1 DEF Contents
        <3> QED BY <2>3, <3>2 DEF Texts!Move, Contents
    <2> QED BY <1>13, <2>2, <2>3 DEF Texts!Next
<1> QED BY <1>10, <1>11, <1>12, <1>15, <1>16 DEF Outcome

LEMMA swapOutcome ==
    ASSUME Inv, NEW s \in Strings, NEW t \in Strings, swap(s, t)
    PROVE  Outcome
<1>1. /\ ~overflow /\ str' = [str EXCEPT ![s] = str[t], ![t] = str[s]] /\ overflow' = overflow
      /\ call' = [op |-> "swap", v |-> s, w |-> t]
    BY DEF swap
<1>2. /\ str \in [Strings -> Records]
      /\ \A x \in Strings : Shaped(str[x]) /\ Sound(str[x]) /\ str[x].size <= MaxSize
    BY <1>1 DEF Inv, Shape, Texted
<1>3. /\ str'[s] = str[t] /\ str'[t] = str[s]
      /\ \A x \in Strings \ {s, t} : str'[x] = str[x]
    BY <1>1, <1>2
<1>4. Inv'
    <2>1. str' \in [Strings -> Records]
        BY <1>1, <1>2
    <2>2. overflow' \in BOOLEAN
        BY <1>1, Zenon DEF Inv, Shape
    <2>3. \A x \in Strings : Shaped(str'[x]) /\ Sound(str'[x]) /\ str'[x].size <= MaxSize
        BY <1>2, <1>3
    <2> QED BY <2>1, <2>2, <2>3, InvNext
<1>5. \A x \in Strings : Proper(x)
    BY <1>3 DEF Proper
<1>6. call'.op = "swap" /\ call'.v = s /\ call'.w = t
    BY <1>1
<1>7. Texts!Next
    <2>1. \A x \in Strings : text(str'[x]) = IF x = t THEN text(str[s]) ELSE IF x = s THEN text(str[t])
                                             ELSE text(str[x])
        BY <1>3
    <2>2. Contents' = [Contents EXCEPT ![s] = Contents[t], ![t] = Contents[s]]
        BY <2>1 DEF Contents
    <2>3. Texts!Swap(s, t)
        BY <2>2 DEF Texts!Swap, Contents
    <2> QED BY <1>6, <2>3 DEF Texts!Next
<1> QED BY <1>1, <1>4, <1>5, <1>6, <1>7 DEF Outcome, MovesLong

LEMMA NextOutcome ==
    ASSUME Inv, Next
    PROVE  Outcome
<1>1. PICK s \in Strings :
        \/ Construct(s) \/ PopBack(s)
        \/ \E n \in 0..Room(s) : \E xs \in [1..n -> Chars] :
              ConstructFromLiteral(s, xs) \/ ConstructFromRange(s, xs)
        \/ \E t \in Strings : Copy(s, t) \/ Move(s, t) \/ swap(s, t)
        \/ \E n \in 0..MaxSize : Reserve(s, n)
        \/ \E ch \in Chars : PushBack(s, ch)
        \/ \E l \in 0..str[s].size : \E f \in 0..l : Erase(s, f, l)
        \/ \E t \in Strings, pos \in 0..str[s].size : \E l \in 0..str[t].size : \E f \in 0..l :
              Insert(s, pos, t, f, l)
    BY DEF Next
<1>2. CASE Construct(s) \/ PopBack(s)
    BY <1>2, ConstructOutcome, PopBackOutcome
<1>3. CASE \E n \in 0..Room(s) : \E xs \in [1..n -> Chars] :
              ConstructFromLiteral(s, xs) \/ ConstructFromRange(s, xs)
    BY <1>3, FromLiteralOutcome, FromRangeOutcome
<1>4. CASE \E t \in Strings : Copy(s, t) \/ Move(s, t) \/ swap(s, t)
    BY <1>4, CopyOutcome, MoveOutcome, swapOutcome
<1>5. CASE \E n \in 0..MaxSize : Reserve(s, n)
    BY <1>5, ReserveOutcome
<1>6. CASE \E ch \in Chars : PushBack(s, ch)
    BY <1>6, PushBackOutcome
<1>7. CASE \E l \in 0..str[s].size : \E f \in 0..l : Erase(s, f, l)
    BY <1>7, EraseOutcome
<1>8. CASE \E t \in Strings, pos \in 0..str[s].size : \E l \in 0..str[t].size : \E f \in 0..l :
              Insert(s, pos, t, f, l)
    BY <1>8, InsertOutcome
<1> QED BY <1>1, <1>2, <1>3, <1>4, <1>5, <1>6, <1>7, <1>8

LEMMA NextInv ==
    ASSUME Inv, [Next]_vars
    PROVE  Inv'
<1>1. CASE Next
    BY <1>1, NextOutcome DEF Outcome
<1>2. CASE UNCHANGED vars
    BY <1>2 DEF vars, Inv, Shape, Texted
<1> QED BY <1>1, <1>2

LEMMA Invariance == Spec => []Inv
BY InitInv, NextInv, PTL DEF Spec

LEMMA InitRefines == Init => Texts!Init
<1>1. text(Empty) = <<>>
    BY EmptyHolds, HeldText, NoChars DEF Shaped
<1>2. ASSUME Init
      PROVE  \A s \in Strings : text(str[s]) = <<>>
    BY <1>1, <1>2 DEF Init
<1> QED BY <1>2 DEF Texts!Init

-----------------------------------------------------------------------------
(* The theorems *)

\* Whatever strings of whatever lengths do to each other, a short string has the buffer of
\* a short one and a long one an even buffer, also after a call that wrote outside it.
THEOREM TypeCorrect == Spec => []TypeOK
<1>1. ASSUME Inv
      PROVE  TypeOK
    <2>1. ASSUME NEW s \in Strings
          PROVE  /\ str[s].form \in {"short", "long"}
                 /\ str[s].size \in 0..MaxSize
                 /\ \A i \in DOMAIN str[s].buffer : str[s].buffer[i] \in Chars \cup {Nul, Junk}
        BY <1>1, NumberFacts DEF Inv, Shape, Records, Cells
    <2> QED BY <1>1, <2>1 DEF Inv, Shape, Shaped, TypeOK
<1> QED BY <1>1, Invariance, PTL

\* For every length, position and range, a string that is not cramped has room for all a
\* call writes: the text, the terminator and what erase puts behind it.
THEOREM WritesInside == Spec => NoOverflow
<1>1. ASSUME Inv, [Next]_vars
      PROVE  [overflow' => \E s \in Strings : Cramped(str[s])]_vars
    BY <1>1, NextOutcome DEF Outcome
<1> QED BY <1>1, Invariance, PTL DEF Spec, NoOverflow

\* Whatever the history of the strings, among them missing terminators that reserve left,
\* each call but reserve writes a text without uninitialised chars and ends it.
THEOREM Terminates == Spec => OnlyReserveUnterminates
<1>1. ASSUME Inv, [Next]_vars
      PROVE  [ overflow' \/ call'.op = "storage" \/
               \A s \in Strings : \/ Ended(str'[s]) \/ str'[s].buffer = <<>>
                                  \/ \E t \in Strings : str'[s] = str[t] ]_vars
    BY <1>1, NextOutcome DEF Outcome, Proper
<1> QED BY <1>1, Invariance, PTL DEF Spec, OnlyReserveUnterminates

\* The move of a long string of any length, also to itself, costs its first char and
\* nothing else.
THEOREM FirstCharLost == Spec => LongMoveCostsFirst
<1>1. ASSUME Inv, [Next]_vars
      PROVE  [ MovesLong /\ ~overflow' =>
                 LET v == call'.v  w == call'.w
                 IN  /\ text(str'[v]) = Put(text(str[w]), 0, <<Nul>>)
                     /\ Ended(str'[v])
                     /\ v # w => str'[w] = Long(<<>>, 0) ]_vars
    BY <1>1, NextOutcome DEF Outcome
<1> QED BY <1>1, Invariance, PTL DEF Spec, LongMoveCostsFirst

\* The strings, with their two forms, terminators, growth and shifting, are plain sequences
\* of chars: every call that keeps within its buffers, but the move of a long string, has
\* on the texts the effect its name and arguments promise.
THEOREM ImplementsTexts == Spec => RefinesTexts
<1>1. ASSUME Inv, [Next]_vars
      PROVE  [overflow' \/ MovesLong \/ Texts!Next]_vars
    BY <1>1, NextOutcome DEF Outcome
<1> QED BY <1>1, InitRefines, Invariance, PTL DEF Spec, RefinesTexts
=============================================================================
