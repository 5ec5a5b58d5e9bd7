----------------------------- MODULE LinkedList -----------------------------
(***************************************************************************)
(* ll.hpp: a list of nodes on the heap.  A list is the record [head, node] *)
(* where node[n] is what node n holds, Null while n is free.               *)
(***************************************************************************)
EXTENDS Naturals, FiniteSets, SequencesExt

CONSTANTS
  Nodes,   \* the nodes there is memory for
  Null     \* the null pointer

Free(l) == {n \in Nodes : l.node[n] = Null}

EmptyList == [head |-> Null, node |-> [n \in Nodes |-> Null]]

\* Following the pointers from the head one meets the nodes s, and then the end.
IsChain(l, s) ==
  /\ l.head = IF s = <<>> THEN Null ELSE s[1]
  /\ \A i \in 1 .. Len(s) :
       /\ l.node[s[i]] # Null
       /\ l.node[s[i]].next = IF i = Len(s) THEN Null ELSE s[i + 1]

\* The nodes from the head on, and what is in them.
Chain(l) == CHOOSE s \in SeqOf(Nodes, Cardinality(Nodes)) : IsChain(l, s)
InChain(l, n) == \E i \in 1 .. Len(Chain(l)) : Chain(l)[i] = n
Items(l) == [i \in 1 .. Len(Chain(l)) |-> l.node[Chain(l)[i]].item]

\* push_front() with n from operator new, Null if there is no memory: the head is
\* overwritten all the same.
PushFront(l, n, x) ==
  [head |-> n,
   node |-> IF n = Null THEN l.node
            ELSE [l.node EXCEPT ![n] = [item |-> x, next |-> l.head]]]

\* The iterator after ++.
Next(l, n) == l.node[n].next

\* erase(): the pointer to n, the head or in the node before, is made to point
\* behind it, and n is freed.  Without such a pointer nothing happens.
Erase(l, n) ==
  IF ~InChain(l, n) THEN l
  ELSE [head |-> IF l.head = n THEN Next(l, n) ELSE l.head,
        node |-> [m \in Nodes |->
                    IF m = n THEN Null
                    ELSE IF l.node[m] # Null /\ l.node[m].next = n /\ InChain(l, m)
                           THEN [l.node[m] EXCEPT !.next = Next(l, n)]
                           ELSE l.node[m]]]

\* The iterator that erase() returns.
Behind(l, n) == IF InChain(l, n) THEN Next(l, n) ELSE Null
=============================================================================
