---------------------------- MODULE AtomicStacks ----------------------------
(***************************************************************************)
(* What the thread-safe stacks promise together: a set of stacks on which  *)
(* push, pop and swap happen one at a time, at once and entirely.  A pop   *)
(* returns the top, or fails with the top in its hands and is counted.     *)
(***************************************************************************)
EXTENDS Naturals, Sequences

CONSTANTS Stacks, Values

VARIABLES stacks,   \* each stack, its top last
          removed,  \* every element popped so far, from whichever stack
          lost      \* how many elements pops have taken and not returned

vars == <<stacks, removed, lost>>

Init == stacks = [s \in Stacks |-> <<>>] /\ removed = <<>> /\ lost = 0

Push(s, v) ==
    /\ stacks' = [stacks EXCEPT ![s] = Append(@, v)]
    /\ UNCHANGED <<removed, lost>>

Pop(s) ==
    /\ stacks[s] # <<>>
    /\ removed' = Append(removed, stacks[s][Len(stacks[s])])
    /\ stacks' = [stacks EXCEPT ![s] = SubSeq(@, 1, Len(@) - 1)]
    /\ UNCHANGED lost

Lose(s) ==
    /\ stacks[s] # <<>>
    /\ lost' = lost + 1
    /\ stacks' = [stacks EXCEPT ![s] = SubSeq(@, 1, Len(@) - 1)]
    /\ UNCHANGED removed

Swap(s, u) ==
    /\ stacks' = [stacks EXCEPT ![s] = stacks[u], ![u] = stacks[s]]
    /\ UNCHANGED <<removed, lost>>

Next ==
    \E s \in Stacks :
        \/ Pop(s) \/ Lose(s)
        \/ \E v \in Values : Push(s, v)
        \/ \E u \in Stacks \ {s} : Swap(s, u)

Spec == Init /\ [][Next]_vars
=============================================================================
