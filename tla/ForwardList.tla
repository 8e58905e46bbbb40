---------------------------- MODULE ForwardList ----------------------------
(***************************************************************************)
(* dev::forward_list (src/core/containers/forward_list.h): singly linked   *)
(* lists of nodes on the heap.  The members that compile are modelled:     *)
(* the constructors, copy assignment, swap, pop_front, clear and the       *)
(* destructor.  A freed node may be allocated again.                       *)
(***************************************************************************)
EXTENDS Naturals, FiniteSets

CONSTANTS
    Lists, Nodes, nullptr,
    MaxSize,   \* bound: the nodes of a list that is built
    SizeMod    \* m_size counts modulo this, 2^64 in the code

ASSUME ListAssumption ==
    /\ nullptr \notin Nodes /\ IsFiniteSet(Nodes)
    /\ MaxSize \in Nat /\ SizeMod \in Nat /\ SizeMod > MaxSize

VARIABLES
    lists,       \* the lists that exist
    m_head,      \* per list
    m_size,      \* per list
    next,        \* per node
    allocated,   \* the nodes on the heap
    freedTwice,  \* a node was deleted, or followed, that was not on the heap
    cleared      \* the program called clear() on a list with nodes

listVars == <<lists, m_head, m_size, next, allocated, freedTwice, cleared>>

ListInit ==
    /\ lists = {} /\ allocated = {} /\ freedTwice = FALSE /\ cleared = FALSE
    /\ m_head = [l \in Lists |-> nullptr]
    /\ m_size = [l \in Lists |-> 0]
    /\ next = [n \in Nodes |-> nullptr]

-----------------------------------------------------------------------------
\* The nodes from h on, h included: no set without one of them has h and, with each of
\* its nodes, the next one.
Chain(h) ==
    {n \in Nodes : \A S \in SUBSET Nodes :
        h \in S \cup {nullptr} /\ (\A x \in S : next[x] \in S \cup {nullptr}) => n \in S}

\* A list built of n nodes: they are allocated and linked one behind the other.
Chains(n) == {c \in [1..n -> Nodes \ allocated] : \A i, j \in 1..n : c[i] = c[j] => i = j}
Linked(c, n) ==
    [x \in Nodes |-> IF \E i \in 1..n : c[i] = x
                     THEN LET i == CHOOSE i \in 1..n : c[i] = x
                          IN  IF i = n THEN nullptr ELSE c[i + 1]
                     ELSE next[x]]

Build(l, n) ==
    \E c \in Chains(n) :
        /\ m_head' = [m_head EXCEPT ![l] = IF n = 0 THEN nullptr ELSE c[1]]
        /\ m_size' = [m_size EXCEPT ![l] = n]
        /\ next' = Linked(c, n)
        /\ allocated' = allocated \cup {c[i] : i \in 1..n}

\* forward_list(b, e), and from an initializer list or nothing.  If the constructor
\* throws, it has deleted the nodes it built and the list does not exist.
ConstructList(l, n) ==
    /\ l \notin lists
    /\ lists' = lists \cup {l}
    /\ Build(l, n)
    /\ UNCHANGED <<freedTwice, cleared>>

\* forward_list(const forward_list&) walks the nodes of the original.
Dangles(h) == ~(Chain(h) \subseteq allocated)

CopyConstructList(l, k) ==
    /\ l \notin lists /\ k \in lists
    /\ lists' = lists \cup {l}
    /\ Build(l, Cardinality(Chain(m_head[k])))
    /\ freedTwice' = (freedTwice \/ Dangles(m_head[k]))
    /\ UNCHANGED cleared

\* forward_list(forward_list&&)
SharedHead(k) == m_head
StolenHead(k) == [m_head EXCEPT ![k] = nullptr]

MoveConstructList(l, k) ==
    /\ l \notin lists /\ k \in lists
    /\ lists' = lists \cup {l}
    /\ m_head' = [StolenHead(k) EXCEPT ![l] = m_head[k]]
    /\ m_size' = [m_size EXCEPT ![k] = 0, ![l] = m_size[k]]
    /\ UNCHANGED <<next, allocated, freedTwice, cleared>>

swap(l, k) ==
    /\ {l, k} \subseteq lists
    /\ m_head' = [m_head EXCEPT ![l] = m_head[k], ![k] = m_head[l]]
    /\ m_size' = [m_size EXCEPT ![l] = m_size[k], ![k] = m_size[l]]
    /\ UNCHANGED <<lists, next, allocated, freedTwice, cleared>>

\* l = k: l gets a copy of k's nodes and its own are deleted.
CopyAssignList(l, k) ==
    LET n == Cardinality(Chain(m_head[k]))
    IN  /\ {l, k} \subseteq lists
        /\ \E c \in Chains(n) :
             /\ m_head' = [m_head EXCEPT ![l] = IF n = 0 THEN nullptr ELSE c[1]]
             /\ next' = Linked(c, n)
             /\ allocated' = (allocated \ Chain(m_head[l])) \cup {c[i] : i \in 1..n}
        /\ m_size' = [m_size EXCEPT ![l] = n]
        /\ freedTwice' = (freedTwice \/ Dangles(m_head[l]) \/ Dangles(m_head[k]))
        /\ UNCHANGED <<lists, cleared>>

\* pop_front() of a list that has nodes
pop_front(l) ==
    /\ l \in lists
    /\ m_head[l] # nullptr
    /\ m_head' = [m_head EXCEPT ![l] = next[m_head[l]]]
    /\ m_size' = [m_size EXCEPT ![l] = (m_size[l] + SizeMod - 1) % SizeMod]
    /\ allocated' = allocated \ {m_head[l]}
    /\ freedTwice' = (freedTwice \/ m_head[l] \notin allocated)
    /\ UNCHANGED <<lists, next, cleared>>

\* clear() deletes the nodes; m_head keeps pointing to the first of them.
clear(l) ==
    /\ l \in lists
    /\ allocated' = allocated \ Chain(m_head[l])
    /\ m_size' = [m_size EXCEPT ![l] = 0]
    /\ freedTwice' = (freedTwice \/ Dangles(m_head[l]))
    /\ cleared' = (cleared \/ m_head[l] # nullptr)
    /\ UNCHANGED <<lists, m_head, next>>

\* The destructor calls clear().
DestroyList(l) ==
    /\ l \in lists
    /\ lists' = lists \ {l}
    /\ allocated' = allocated \ Chain(m_head[l])
    /\ m_head' = [m_head EXCEPT ![l] = nullptr]
    /\ m_size' = [m_size EXCEPT ![l] = 0]
    /\ freedTwice' = (freedTwice \/ Dangles(m_head[l]))
    /\ UNCHANGED <<next, cleared>>

\* A second deletion is undefined behaviour: nothing is modelled after it.
ListNext ==
    ~freedTwice /\ \E l \in Lists :
        \/ \E n \in 0..MaxSize : ConstructList(l, n)
        \/ pop_front(l) \/ clear(l) \/ DestroyList(l)
        \/ \E k \in Lists : CopyConstructList(l, k) \/ MoveConstructList(l, k) \/ swap(l, k)
                             \/ CopyAssignList(l, k)

ListSpec == ListInit /\ [][ListNext]_listVars

-----------------------------------------------------------------------------
(* Properties *)

\* Unless a list with nodes was cleared, the nodes on the heap are those of the lists
\* that exist, each of exactly one; a list has as many as it believes; and none is
\* deleted twice.
NodesOwnedOnce ==
    ~cleared =>
      /\ allocated = UNION {Chain(m_head[l]) : l \in lists}
      /\ \A l, k \in lists : l # k => Chain(m_head[l]) \cap Chain(m_head[k]) = {}
      /\ \A l \in lists : Cardinality(Chain(m_head[l])) = m_size[l]
      /\ ~freedTwice
=============================================================================
