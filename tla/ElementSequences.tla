--------------------------- MODULE ElementSequences ---------------------------
(***************************************************************************)
(* What a container of the library promises: it holds a sequence of        *)
(* elements, and each call changes it as a whole, as the call and its      *)
(* arguments say.  The call is visible: an implementation has to do what   *)
(* was asked, not just something that could have been.                     *)
(***************************************************************************)
EXTENDS Naturals, Sequences

CONSTANTS Containers,
          Default,      \* what resize fills up with
          Husk          \* an element that was moved from

VARIABLES contents,     \* per container, its elements
          call          \* the last call: its operation and arguments

vars == <<contents, call>>

Init == contents = [v \in Containers |-> <<>>]

Become(v, s) == contents' = [contents EXCEPT ![v] = s]

\* A new value, by a constructor or an assignment
Assign(v, s) == Become(v, s)
Copy(v, w) == Become(v, contents[w])
Move(v, w) ==
    IF v = w THEN UNCHANGED contents
    ELSE contents' = [contents EXCEPT ![v] = contents[w], ![w] = <<>>]
Swap(v, w) == contents' = [contents EXCEPT ![v] = contents[w], ![w] = contents[v]]

PushBack(v, x) == Become(v, Append(contents[v], x))
PopBack(v) == Become(v, SubSeq(contents[v], 1, Len(contents[v]) - 1))

Resize(v, n) ==
    Become(v, [i \in 1..n |-> IF i <= Len(contents[v]) THEN contents[v][i] ELSE Default])

\* s with the elements from k+1 to n moved from
LosesTail(s, k, n) == [i \in DOMAIN s |-> IF i \in (k + 1)..n THEN Husk ELSE s[i]]

\* The elements f+1 to l of w go into v behind its first pos; a range of another
\* container may lose a tail to moves.
Insert(v, pos, w, f, l) ==
    LET s == contents[v]
        with == SubSeq(s, 1, pos) \o SubSeq(contents[w], f + 1, l)
                  \o SubSeq(s, pos + 1, Len(s))
    IN  IF v = w THEN Become(v, with)
        ELSE \E k \in f..l :
               contents' = [contents EXCEPT ![v] = with, ![w] = LosesTail(@, k, l)]

\* The elements f+1 to l go.
Erase(v, f, l) ==
    Become(v, SubSeq(contents[v], 1, f) \o SubSeq(contents[v], l + 1, Len(contents[v])))

Next ==
    LET c == call'
    IN  \/ c.op = "assign"  /\ Assign(c.v, c.s)
        \/ c.op = "copy"    /\ Copy(c.v, c.w)
        \/ c.op = "move"    /\ Move(c.v, c.w)
        \/ c.op = "swap"    /\ Swap(c.v, c.w)
        \/ c.op = "push"    /\ PushBack(c.v, c.x)
        \/ c.op = "pop"     /\ PopBack(c.v)
        \/ c.op = "resize"  /\ Resize(c.v, c.n)
        \/ c.op = "insert"  /\ Insert(c.v, c.pos, c.w, c.f, c.l)
        \/ c.op = "erase"   /\ Erase(c.v, c.f, c.l)
        \/ c.op = "storage" /\ UNCHANGED contents     \* reserve, shrink_to_fit

Spec == Init /\ [][Next]_vars
=============================================================================
