------------------------------- MODULE String -------------------------------
(***************************************************************************)
(* dev::string (src/core/string/string.h, string.cpp): a string of chars   *)
(* with a terminator, held in the object itself while it is short and in   *)
(* a heap buffer once it is long.  ShortCapacity is 23 in the code.        *)
(***************************************************************************)
EXTENDS Naturals, Sequences, SequencesExt, FiniteSets

CONSTANTS
    Strings, Chars,
    Nul,             \* the terminator
    Junk,            \* an uninitialised char
    ShortCapacity,   \* string_short::capacity
    SizeMax,         \* what size_t 0 - 1 is, any number no text reaches
    MaxSize          \* bound: the texts together get no longer

ASSUME StringAssumption ==
    /\ IsFiniteSet(Strings)
    /\ Nul \notin Chars \cup {Junk} /\ Junk \notin Chars
    /\ ShortCapacity \in Nat /\ ShortCapacity % 2 = 1 /\ ShortCapacity > 1
    /\ MaxSize \in Nat /\ SizeMax \in Nat /\ SizeMax > 2 * MaxSize + ShortCapacity

VARIABLES
    str,        \* per string: its form, its buffer of chars and its size
    overflow,   \* a char was written outside its buffer, or through a null pointer
    call        \* the last call and its arguments, for RefinesTexts only

vars == <<str, overflow, call>>

-----------------------------------------------------------------------------
(* Buffers.  Offsets count from 0.  A moved-from long string has a null buffer, *)
(* <<>> here: both have no char that could be written.                          *)

Slice(b, from, to) == SubSeq(b, from + 1, to)
Put(b, at, xs) == [i \in DOMAIN b |-> IF i - at \in DOMAIN xs THEN xs[i - at] ELSE b[i]]
Fits(b, at, xs) == at + Len(xs) <= Len(b)

Blank(n) == [i \in 1..n |-> Junk]
Terminated(xs) == Append(xs, Nul)

is_short_string(r) == r.form = "short"
text(r) == Slice(r.buffer, 0, r.size)

Short(b, n) == [form |-> "short", buffer |-> b, size |-> n]
Long(b, n) == [form |-> "long", buffer |-> b, size |-> n]

\* string()
Empty == Short(Put(Blank(ShortCapacity), 0, <<Nul>>), 0)

CapacityWithTerminator(r) ==
    IF is_short_string(r) THEN ShortCapacity
    ELSE IF r.buffer = <<>> THEN SizeMax ELSE Len(r.buffer)
capacity(r) ==
    IF is_short_string(r) THEN ShortCapacity - 1
    ELSE IF r.buffer = <<>> THEN SizeMax ELSE Len(r.buffer) - 1

is_full(r) == r.size = capacity(r)

EvenDown(n) == IF n % 2 = 1 THEN n - 1 ELSE n
NotRounded(n) == n
Even(n) == IF n % 2 = 1 THEN n + 1 ELSE n

\* how long the text of s may be, within the bound, beside those of the other strings
Room(s) ==
    MaxSize - Cardinality({p \in (Strings \ {s}) \X (1..MaxSize) : p[2] <= str[p[1]].size})

Init == str = [s \in Strings |-> Empty] /\ overflow = FALSE /\ call = [op |-> "none"]

\* The call c leaves string s as r; ok says that it wrote inside its buffers only.
\* What happens after a stray write is not modelled.
Becomes(s, r, ok, c) ==
    /\ ~overflow
    /\ str' = [str EXCEPT ![s] = r]
    /\ overflow' = ~ok
    /\ call' = c

-----------------------------------------------------------------------------
(* The operations, as functions of the strings they work on *)

construct_slow_path(xs) == Long(Put(Blank(Even(Len(xs) + 1)), 0, Terminated(xs)), Len(xs))
construct_fast_path(xs) == Short(Put(Empty.buffer, 0, Terminated(xs)), Len(xs))

\* string(const char*): the empty literal takes the slow path.
FromLiteral(xs) ==
    IF Len(xs) > 0 /\ Len(xs) < ShortCapacity THEN construct_fast_path(xs)
    ELSE construct_slow_path(xs)

\* string(const string&)
CopyBuffer(r) == Blank(IF is_short_string(r) THEN ShortCapacity ELSE Len(r.buffer))
CopyOf(r) == [r EXCEPT !.buffer = Put(CopyBuffer(r), 0, Terminated(text(r)))]
CopyFits(r) == Fits(CopyBuffer(r), 0, Terminated(text(r)))

\* string(string&&): what the new string has.  The size of a long source is 0 when the
\* first of the two terminators is written at it.
MovedToSizeReadLate(r) == [r EXCEPT !.size = 0]
MovedTo(r) ==
    IF is_short_string(r) THEN CopyOf(r)
    ELSE [r EXCEPT !.buffer = Put(Put(r.buffer, 0, <<Nul>>), r.size, <<Nul>>)]
MovedFrom(r) ==
    IF is_short_string(r) THEN Short(Put(r.buffer, 0, <<Nul>>), 0) ELSE Long(<<>>, 0)
MoveFits(r) == Fits(r.buffer, r.size, <<Nul>>)

\* reserve: the new buffer gets the chars but no terminator.
reserve_needed(r, n) == n > capacity(r) /\ n >= ShortCapacity
reserve(r, n) ==
    IF reserve_needed(r, n) THEN Long(Put(Blank(Even(n + 1)), 0, text(r)), r.size) ELSE r

\* push_back
Grown(r) == IF is_full(r) THEN reserve(r, 2 * capacity(r)) ELSE r
push_back(r, ch) ==
    LET g == Grown(r)
    IN  [g EXCEPT !.buffer = Put(@, r.size, <<ch, Nul>>), !.size = r.size + 1]
PushFits(r) == Fits(Grown(r).buffer, r.size, <<Nul, Nul>>)

\* string(first, last), string(list), string(count, ch): one push_back after another
FromRange(xs) ==
    LET after[n \in 0..Len(xs)] == IF n = 0 THEN Empty ELSE push_back(after[n - 1], xs[n])
    IN  after[Len(xs)]

pop_back(r) == [r EXCEPT !.size = r.size - 1, !.buffer = Put(@, r.size - 1, <<Nul>>)]

\* insert: room for items is made at offset pos.  The two ways the code shifts the rest
\* avoid overlapping copies and have one result.
RoomFor(r, n) ==
    IF n > capacity(r) - r.size THEN reserve(r, capacity(r) + (n - (capacity(r) - r.size)))
    ELSE r
ShiftedOneShortRight(b, pos, n, size) == Put(b, pos + n, Slice(b, pos, size - 1))
ShiftedRight(b, pos, n, size) == Put(b, pos + n, Slice(b, pos, size))
insert(r, pos, items) ==
    LET n == Len(items)
        g == RoomFor(r, n)
        b == Put(ShiftedRight(g.buffer, pos, n, r.size), pos, items)
    IN  [g EXCEPT !.buffer = Put(b, r.size + n, <<Nul>>), !.size = r.size + n]
InsertFits(r, items) == Fits(RoomFor(r, Len(items)).buffer, r.size, Terminated(items))

\* erase: the tail moves left; the removed chars are put behind the terminator.
ShiftedLeft(r, f, l) == Put(r.buffer, f, Slice(r.buffer, l, r.size))
erase(r, f, l) ==
    LET left == r.size - (l - f)
        b == Put(ShiftedLeft(r, f, l), left, <<Nul>>)
    IN  [r EXCEPT !.buffer = Put(b, left + 1, Slice(r.buffer, f, l)), !.size = left]
EraseFits(r) == Fits(r.buffer, r.size, <<Nul>>)

-----------------------------------------------------------------------------
(* The calls.  A constructor and operator= both give s the new value: operator= *)
(* swaps a temporary into s and destroys the old value.                         *)

Assigned(s, xs) == [op |-> "assign", v |-> s, s |-> xs]

Construct(s) == Becomes(s, Empty, TRUE, Assigned(s, <<>>))

ConstructFromLiteral(s, xs) ==
    Becomes(s, FromLiteral(xs), TRUE, Assigned(s, xs))

ConstructFromRange(s, xs) == Becomes(s, FromRange(xs), TRUE, Assigned(s, xs))

\* s = s returns at once, and has no step here.
Copy(s, t) ==
    /\ s # t
    /\ str[t].size <= Room(s)
    /\ Becomes(s, CopyOf(str[t]), CopyFits(str[t]), [op |-> "copy", v |-> s, w |-> t])

Move(s, t) ==
    /\ ~overflow
    /\ str' = [str EXCEPT ![t] = MovedFrom(str[t]), ![s] = MovedTo(str[t])]
    /\ overflow' = ~MoveFits(str[t])
    /\ call' = [op |-> "move", v |-> s, w |-> t]

swap(s, t) ==
    /\ ~overflow
    /\ str' = [str EXCEPT ![s] = str[t], ![t] = str[s]]
    /\ call' = [op |-> "swap", v |-> s, w |-> t]
    /\ UNCHANGED overflow

Reserve(s, n) ==
    Becomes(s, reserve(str[s], n), TRUE, [op |-> "storage"])

PushBack(s, ch) ==
    /\ str[s].size < Room(s)
    /\ Becomes(s, push_back(str[s], ch), PushFits(str[s]), [op |-> "push", v |-> s, x |-> ch])

PopBack(s) ==
    /\ str[s].size > 0
    /\ Becomes(s, pop_back(str[s]), TRUE, [op |-> "pop", v |-> s])

\* The range is [f, l) of t, or of s itself, which copies it first.
Insert(s, pos, t, f, l) ==
    LET items == Slice(str[t].buffer, f, l)
    IN  /\ f < l /\ str[s].size + (l - f) <= Room(s)
        /\ Becomes(s, insert(str[s], pos, items), InsertFits(str[s], items),
                   [op |-> "insert", v |-> s, pos |-> pos, w |-> t, f |-> f, l |-> l])

Erase(s, f, l) ==
    Becomes(s, erase(str[s], f, l), EraseFits(str[s]),
            [op |-> "erase", v |-> s, f |-> f, l |-> l])

Next ==
    \E s \in Strings :
        \/ Construct(s) \/ PopBack(s)
        \/ \E n \in 0..Room(s) : \E xs \in [1..n -> Chars] :
              ConstructFromLiteral(s, xs) \/ ConstructFromRange(s, xs)
        \/ \E t \in Strings : Copy(s, t) \/ Move(s, t) \/ swap(s, t)
        \/ \E n \in 0..MaxSize : Reserve(s, n)
        \/ \E ch \in Chars : PushBack(s, ch)
        \/ \E l \in 0..str[s].size : \E f \in 0..l : Erase(s, f, l)
        \/ \E t \in Strings, pos \in 0..str[s].size : \E l \in 0..str[t].size : \E f \in 0..l :
              Insert(s, pos, t, f, l)

Spec == Init /\ [][Next]_vars

-----------------------------------------------------------------------------
(* Properties *)

\* A short string has the short buffer, a long one a buffer of even length.
TypeOK ==
    /\ \A s \in Strings :
         /\ str[s].form \in {"short", "long"}
         /\ str[s].size \in 0..MaxSize
         /\ \A i \in DOMAIN str[s].buffer : str[s].buffer[i] \in Chars \cup {Nul, Junk}
         /\ is_short_string(str[s]) => Len(str[s].buffer) = ShortCapacity
         /\ ~is_short_string(str[s]) => Len(str[s].buffer) % 2 = 0
    /\ overflow \in BOOLEAN

\* A long string with less room than a short one: made from an empty literal, or left
\* without a buffer by a move.  Neither push_back nor reserve ever makes it grow.
Cramped(r) == ~is_short_string(r) /\ Len(r.buffer) < ShortCapacity

\* Calls on strings that are not cramped write inside their buffers only, terminators
\* and the chars that erase puts behind the end included.
NoOverflow == [][overflow' => \E s \in Strings : Cramped(str[s])]_vars

Ended(r) ==
    /\ r.size < Len(r.buffer)
    /\ r.buffer[r.size + 1] = Nul
    /\ Junk \notin ToSet(text(r))

\* data() ends with a terminator behind the text ("EXPECT_EQ(ptr[3], '\0')",
\* src/tests/string_test/string_test.cpp:448), and the text has no char that was never
\* written: only reserve leaves a buffer without, and every later call that changes the
\* string makes up for it.
OnlyReserveUnterminates ==
    [][ overflow' \/ call'.op = "storage" \/
        \A s \in Strings : \/ Ended(str'[s]) \/ str'[s].buffer = <<>>
                           \/ \E t \in Strings : str'[s] = str[t] ]_vars

MovesLong == call'.op = "move" /\ ~is_short_string(str[call'.w])

\* The move of a long string costs exactly the first char: the size and the other chars
\* arrive ("EXPECT_EQ(destination.size(), original_size)",
\* src/tests/string_test/string_test.cpp:137), and an end, and the source is left with nothing.
LongMoveCostsFirst ==
    [][ MovesLong /\ ~overflow' =>
          LET v == call'.v  w == call'.w
          IN  /\ text(str'[v]) = Put(text(str[w]), 0, <<Nul>>)
              /\ Ended(str'[v])
              /\ v # w => str'[w] = Long(<<>>, 0) ]_vars

Texts == INSTANCE ElementSequences
            WITH Containers <- Strings, Default <- Nul, Husk <- Nul,
                 contents <- [s \in Strings |-> text(str[s])]

\* Every call within its buffers, but the move of a long string, changes the texts as it
\* would change plain sequences, whatever forms the strings are in and go to.
RefinesTexts == Texts!Init /\ [][overflow' \/ MovesLong \/ Texts!Next]_vars
=============================================================================
