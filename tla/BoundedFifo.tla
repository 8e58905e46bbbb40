---------------------------- MODULE BoundedFifo ----------------------------
(***************************************************************************)
(* What a queue of the library promises its clients: elements leave in the *)
(* order in which they came, none twice, and at most Bound of them are     *)
(* inside at any time; each is delivered or counted as lost by a consumer  *)
(* that failed with the oldest in its hands.  A refused or empty-handed    *)
(* call is a stutter.                                                      *)
(***************************************************************************)
EXTENDS Naturals, Sequences

CONSTANTS Values,   \* the elements
          Bound     \* how many elements fit

VARIABLES queue,      \* the elements inside, oldest first
          delivered,  \* every element handed to a consumer so far, in order
          lost        \* how many elements consumers have taken and not returned

vars == <<queue, delivered, lost>>

Init == queue = <<>> /\ delivered = <<>> /\ lost = 0

Push(v) ==
    /\ Len(queue) < Bound
    /\ queue' = Append(queue, v)
    /\ UNCHANGED <<delivered, lost>>

Pop ==
    /\ queue # <<>>
    /\ delivered' = Append(delivered, Head(queue))
    /\ queue' = Tail(queue)
    /\ UNCHANGED lost

Lose ==
    /\ queue # <<>>
    /\ lost' = lost + 1
    /\ queue' = Tail(queue)
    /\ UNCHANGED delivered

Next == Pop \/ Lose \/ \E v \in Values : Push(v)

Spec == Init /\ [][Next]_vars
=============================================================================
