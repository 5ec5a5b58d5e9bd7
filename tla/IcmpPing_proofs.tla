--------------------------- MODULE IcmpPing_proofs --------------------------
(***************************************************************************)
(* Theorems about IcmpPing, for every number of pings and nodes and with   *)
(* allocation that may fail.                                               *)
(***************************************************************************)
EXTENDS IcmpPing, SequenceTheorems, NumberFacts

(***************************************************************************)
(* Lists.  A list is well formed when its pointers lead through different  *)
(* nodes to the end.                                                       *)
(***************************************************************************)
Elements == {EchoServer} \union Pings
Lists == [head : Nodes \union {None}, node : [Nodes -> Cells \union {None}]]

Distinct(s) == \A i, j \in 1 .. Len(s) : s[i] = s[j] => i = j

WellFormed(l) ==
  l \in Lists /\ \E s \in Seq(Nodes) : List!IsChain(l, s) /\ Distinct(s)

\* There is one way from the head to the end only.
LEMMA OneChain ==
  ASSUME NEW l, NEW s \in Seq(Nodes), NEW t \in Seq(Nodes),
         List!IsChain(l, s), List!IsChain(l, t)
  PROVE  s = t
<1> DEFINE S == {n \in Nat : (n + 1 <= Len(s) \/ n + 1 <= Len(t)) =>
                               /\ n + 1 <= Len(s) /\ n + 1 <= Len(t)
                               /\ s[n + 1] = t[n + 1]}
<1>0. /\ Len(s) \in Nat /\ Len(t) \in Nat
      /\ \A i \in 1 .. Len(s) : s[i] \in Nodes /\ s[i] # None
      /\ \A i \in 1 .. Len(t) : t[i] \in Nodes /\ t[i] # None
      /\ (s = <<>> <=> Len(s) = 0) /\ (t = <<>> <=> Len(t) = 0)
  BY NoneAssumption, EmptySeq, LenProperties, ElementOfSeq
<1>1. 0 \in S
  BY <1>0 DEF List!IsChain
<1>2. ASSUME NEW n \in Nat, n \in S
      PROVE  n + 1 \in S
  <2>1. CASE (n + 1) + 1 <= Len(s)
    <3>1. n + 1 \in 1 .. Len(s) /\ n + 1 \in 1 .. Len(t) /\ s[n + 1] = t[n + 1]
      BY <1>0, <1>2, <2>1
    <3>2. l.node[s[n + 1]].next = s[(n + 1) + 1] /\ n + 1 # Len(t)
      BY <1>0, <2>1, <3>1 DEF List!IsChain
    <3> QED
      BY <1>0, <2>1, <3>1, <3>2 DEF List!IsChain
  <2>2. CASE (n + 1) + 1 <= Len(t)
    <3>1. n + 1 \in 1 .. Len(s) /\ n + 1 \in 1 .. Len(t) /\ s[n + 1] = t[n + 1]
      BY <1>0, <1>2, <2>2
    <3>2. l.node[t[n + 1]].next = t[(n + 1) + 1] /\ n + 1 # Len(s)
      BY <1>0, <2>2, <3>1 DEF List!IsChain
    <3> QED
      BY <1>0, <2>2, <3>1, <3>2 DEF List!IsChain
  <2> QED
    BY <2>1, <2>2
<1>3. \A n \in Nat : n \in S
  <2> HIDE DEF S
  <2> QED
    BY <1>1, <1>2, InductionOverNat
<1>4. \A i \in 1 .. Len(s) : i <= Len(t) /\ s[i] = t[i]
  <2> TAKE i \in 1 .. Len(s)
  <2>1. i - 1 \in Nat /\ (i - 1) + 1 = i /\ i <= Len(s)
    BY <1>0
  <2>2. i - 1 \in S
    BY <1>3, <2>1
  <2> QED
    BY <2>1, <2>2
<1>5. \A i \in 1 .. Len(t) : i <= Len(s)
  <2> TAKE i \in 1 .. Len(t)
  <2>1. i - 1 \in Nat /\ (i - 1) + 1 = i /\ i <= Len(t)
    BY <1>0
  <2>2. i - 1 \in S
    BY <1>3, <2>1
  <2> QED
    BY <2>1, <2>2
<1>6. Len(s) = Len(t)
  <2>1. Len(s) > 0 => Len(s) <= Len(t)
    BY <1>0, <1>4
  <2>2. Len(t) > 0 => Len(t) <= Len(s)
    BY <1>0, <1>5
  <2> QED
    BY <1>0, <2>1, <2>2
<1> QED
  BY <1>4, <1>6, SeqEqual

\* Chain() finds it.
LEMMA ChainIs ==
  ASSUME NEW l, NEW s \in Seq(Nodes), List!IsChain(l, s), Distinct(s)
  PROVE  List!Chain(l) = s
<1>1. Len(s) \in Nat /\ s \in [1 .. Len(s) -> Nodes]
  BY LenProperties
<1>2. Cardinality(Nodes) \in Nat
  BY NodeAssumption, FS_CardinalityType
<1>3. Len(s) <= Cardinality(Nodes)
  <2>1. s \in Injection(1 .. Len(s), Nodes)
    BY <1>1 DEF Distinct, Injection, IsInjective
  <2>2. Cardinality(1 .. Len(s)) <= Cardinality(Nodes)
    BY <2>1, NodeAssumption, FS_Injection
  <2>3. Cardinality(1 .. Len(s)) = Len(s)
    BY <1>1, FS_Interval
  <2> QED
    BY <2>2, <2>3
<1>4. s \in SeqOf(Nodes, Cardinality(Nodes))
  BY <1>1, <1>2, <1>3 DEF SeqOf
<1>5. \A t \in SeqOf(Nodes, Cardinality(Nodes)) : t \in Seq(Nodes)
  BY <1>2 DEF SeqOf
<1>6. \A t \in SeqOf(Nodes, Cardinality(Nodes)) : List!IsChain(l, t) => t = s
  BY <1>5, OneChain
<1>7. List!Cardinality(Nodes) = Cardinality(Nodes)
  BY Zenon DEF List!Cardinality, Cardinality
<1>8. List!SeqOf(Nodes, List!Cardinality(Nodes)) = SeqOf(Nodes, Cardinality(Nodes))
  BY <1>7 DEF List!SeqOf, SeqOf
<1> QED
  BY <1>4, <1>6, <1>8 DEF List!Chain

\* What a well-formed list's chain is.
LEMMA ChainOf ==
  ASSUME NEW l, WellFormed(l)
  PROVE  /\ List!Chain(l) \in Seq(Nodes)
         /\ List!IsChain(l, List!Chain(l)) /\ Distinct(List!Chain(l))
BY ChainIs DEF WellFormed

(***************************************************************************)
(* What the proofs say of a list: which listeners are on it, that none is  *)
(* there twice, and that listener x is still ahead of an iterator b.       *)
(***************************************************************************)
ItemAt(l, i) == l.node[List!Chain(l)[i]].item
On(l) == {ItemAt(l, i) : i \in 1 .. Len(List!Chain(l))}
Once(l) ==
  \A i, j \in 1 .. Len(List!Chain(l)) : ItemAt(l, i) = ItemAt(l, j) => i = j
Ahead(l, b, x) ==
  \E i, j \in 1 .. Len(List!Chain(l)) :
    i <= j /\ List!Chain(l)[i] = b /\ ItemAt(l, j) = x

LEMMA ItemsOf ==
  ASSUME NEW l, WellFormed(l)
  PROVE  /\ Len(List!Items(l)) = Len(List!Chain(l))
         /\ \A i \in 1 .. Len(List!Chain(l)) : List!Items(l)[i] = ItemAt(l, i)
         /\ ToSet(List!Items(l)) = On(l)
<1>1. Len(List!Chain(l)) \in Nat
  BY ChainOf, LenProperties
<1>2. /\ Len(List!Items(l)) = Len(List!Chain(l))
      /\ DOMAIN List!Items(l) = 1 .. Len(List!Chain(l))
      /\ \A i \in 1 .. Len(List!Chain(l)) : List!Items(l)[i] = ItemAt(l, i)
  BY <1>1 DEF List!Items, ItemAt
<1> QED
  BY <1>2 DEF ToSet, On

\* A node in the chain is a node of the heap that is not free.
LEMMA NodeInChain ==
  ASSUME NEW l, WellFormed(l), NEW n, List!InChain(l, n)
  PROVE  /\ n \in Nodes /\ n # None /\ l.node[n] # None
         /\ l.node[n].item \in On(l) /\ l.node[n].item \in Elements
         /\ l.node[n] \in Cells
<1>1. PICK i \in 1 .. Len(List!Chain(l)) : List!Chain(l)[i] = n
  BY DEF List!InChain
<1>2. n \in Nodes /\ n # None
  BY <1>1, ChainOf, ElementOfSeq, NoneAssumption
<1>3. l.node[n] # None
  BY <1>1, ChainOf DEF List!IsChain
<1>4. l.node[n].item \in On(l)
  BY <1>1 DEF On, ItemAt
<1> QED
  BY <1>2, <1>3, <1>4 DEF WellFormed, Lists, Cells, Elements

\* The walk starts on the list, with every listener ahead.
LEMMA HeadOf ==
  ASSUME NEW l, WellFormed(l)
  PROVE  /\ l.head = None \/ List!InChain(l, l.head)
         /\ \A x \in On(l) : Ahead(l, l.head, x)
<1>1. /\ Len(List!Chain(l)) \in Nat
      /\ List!Chain(l) = <<>> <=> Len(List!Chain(l)) = 0
  BY ChainOf, LenProperties, EmptySeq
<1>2. l.head = IF List!Chain(l) = <<>> THEN None ELSE List!Chain(l)[1]
  BY ChainOf DEF List!IsChain
<1>3. l.head = None \/ List!InChain(l, l.head)
  BY <1>1, <1>2 DEF List!InChain
<1>4. ASSUME NEW x \in On(l)
      PROVE  Ahead(l, l.head, x)
  <2>1. PICK j \in 1 .. Len(List!Chain(l)) : ItemAt(l, j) = x
    BY DEF On
  <2>2. 1 \in 1 .. Len(List!Chain(l)) /\ 1 <= j /\ List!Chain(l)[1] = l.head
    BY <1>1, <1>2, <2>1
  <2> QED
    BY <2>1, <2>2 DEF Ahead
<1> QED
  BY <1>3, <1>4

\* A step of the iterator stays on the list and passes one listener.
LEMMA NextOf ==
  ASSUME NEW l, WellFormed(l), NEW b, List!InChain(l, b)
  PROVE  /\ List!Next(l, b) = None \/ List!InChain(l, List!Next(l, b))
         /\ \A x : Ahead(l, b, x) /\ l.node[b].item # x => Ahead(l, List!Next(l, b), x)
<1> DEFINE s == List!Chain(l)
<1>0. Len(s) \in Nat /\ Distinct(s) /\ List!IsChain(l, s)
  BY ChainOf, LenProperties
<1>1. PICK k \in 1 .. Len(s) : s[k] = b
  BY DEF List!InChain
<1>2. List!Next(l, b) = IF k = Len(s) THEN None ELSE s[k + 1]
  BY <1>0, <1>1 DEF List!IsChain, List!Next
<1>3. k # Len(s) => k + 1 \in 1 .. Len(s)
  BY <1>0, <1>1
<1>4. List!Next(l, b) = None \/ List!InChain(l, List!Next(l, b))
  BY <1>2, <1>3 DEF List!InChain
<1>5. ASSUME NEW x, Ahead(l, b, x), l.node[b].item # x
      PROVE  Ahead(l, List!Next(l, b), x)
  <2>1. PICK i, j \in 1 .. Len(s) : i <= j /\ s[i] = b /\ ItemAt(l, j) = x
    BY <1>5 DEF Ahead
  <2>2. i = k
    BY <1>0, <1>1, <2>1 DEF Distinct
  <2>3. j # k
    BY <1>1, <1>5, <2>1 DEF ItemAt
  <2>4. k + 1 \in 1 .. Len(s) /\ k + 1 <= j /\ k # Len(s)
    BY <1>0, <1>1, <2>1, <2>2, <2>3
  <2> QED
    BY <1>2, <2>1, <2>4 DEF Ahead
<1> QED
  BY <1>4, <1>5

\* A listener that is ahead is on the list, and so is the iterator.
LEMMA AheadOf ==
  ASSUME NEW l, NEW b, NEW x, Ahead(l, b, x)
  PROVE  List!InChain(l, b) /\ x \in On(l)
BY DEF Ahead, List!InChain, On

\* push_front with a free node.
LEMMA PushFrontOf ==
  ASSUME NEW l, WellFormed(l), NEW n \in Nodes, l.node[n] = None,
         NEW x \in Elements
  PROVE  /\ WellFormed(List!PushFront(l, n, x))
         /\ On(List!PushFront(l, n, x)) = On(l) \union {x}
         /\ Once(l) /\ x \notin On(l) => Once(List!PushFront(l, n, x))
<1> DEFINE s == List!Chain(l)
           m == Len(s)
           p == List!PushFront(l, n, x)
           t == [i \in 1 .. m + 1 |-> IF i = 1 THEN n ELSE s[i - 1]]
<1>0. /\ m \in Nat /\ Distinct(s) /\ List!IsChain(l, s) /\ n # None
      /\ (s = <<>> <=> m = 0)
      /\ \A i \in 1 .. m : s[i] \in Nodes
  BY ChainOf, LenProperties, EmptySeq, NoneAssumption, ElementOfSeq
<1>1. /\ p.head = n
      /\ p.node = [l.node EXCEPT ![n] = [item |-> x, next |-> l.head]]
  BY <1>0 DEF List!PushFront
<1>2. l.node \in [Nodes -> Cells \union {None}] /\ l.head \in Nodes \union {None}
  BY DEF WellFormed, Lists
<1>3. [item |-> x, next |-> l.head] \in Cells /\ [item |-> x, next |-> l.head] # None
  BY <1>2, NoneAssumption DEF Cells, Elements
<1>4. p \in Lists
  <2>1. p.node \in [Nodes -> Cells \union {None}]
    BY <1>1, <1>2, <1>3
  <2> QED
    BY <1>0, <1>1, <2>1 DEF List!PushFront, Lists
<1>5. t \in Seq(Nodes) /\ Len(t) = m + 1 /\ t # <<>> /\ t[1] = n
      /\ \A i \in 1 .. m : t[i + 1] = s[i]
  BY <1>0
<1>6. \A i \in 1 .. m : s[i] # n /\ p.node[s[i]] = l.node[s[i]]
  BY <1>0, <1>1, <1>2 DEF List!IsChain
<1>7. List!IsChain(p, t)
  <2>1. p.head = IF t = <<>> THEN None ELSE t[1]
    BY <1>1, <1>5
  <2>2. ASSUME NEW i \in 1 .. m + 1
        PROVE  /\ p.node[t[i]] # None
               /\ p.node[t[i]].next = IF i = m + 1 THEN None ELSE t[i + 1]
    <3>1. CASE i = 1
      <4>1. p.node[t[i]] = [item |-> x, next |-> l.head]
        BY <1>1, <1>2, <3>1
      <4>2. l.head = IF m = 0 THEN None ELSE s[1]
        BY <1>0 DEF List!IsChain
      <4>3. m # 0 => t[i + 1] = s[1]
        BY <1>0, <1>5, <3>1
      <4> QED
        BY <1>0, <1>3, <3>1, <4>1, <4>2, <4>3
    <3>2. CASE i # 1
      <4> DEFINE k == i - 1
      <4>1. k \in 1 .. m /\ i = k + 1
        BY <1>0, <3>2
      <4> HIDE DEF k
      <4>2. p.node[t[i]] = l.node[s[k]]
        BY <1>5, <1>6, <4>1
      <4>3. l.node[s[k]] # None
            /\ l.node[s[k]].next = IF k = m THEN None ELSE s[k + 1]
        BY <1>0, <4>1 DEF List!IsChain
      <4>4. k # m => t[i + 1] = s[k + 1]
        <5>1. k # m => k + 1 \in 1 .. m
          BY <1>0, <4>1
        <5> QED
          BY <5>1, <4>1, <1>5
      <4>5. i = m + 1 <=> k = m
        BY <1>0, <4>1
      <4> QED
        BY <4>2, <4>3, <4>4, <4>5
    <3> QED
      BY <3>1, <3>2
  <2> QED
    BY <1>5, <2>1, <2>2 DEF List!IsChain
<1>8. Distinct(t)
  BY <1>0, <1>6 DEF Distinct
<1>9. List!Chain(p) = t
  BY <1>5, <1>7, <1>8, ChainIs
<1>10. /\ ItemAt(p, 1) = x
       /\ \A i \in 1 .. m : ItemAt(p, i + 1) = ItemAt(l, i)
  BY <1>1, <1>2, <1>5, <1>6, <1>9 DEF ItemAt
<1>11. On(p) = On(l) \union {x}
  <2>1. ASSUME NEW i \in 1 .. m + 1
        PROVE  i = 1 \/ \E k \in 1 .. m : i = k + 1
    <3>1. i # 1 => i - 1 \in 1 .. m /\ i = (i - 1) + 1
      BY <1>0
    <3> QED
      BY <3>1
  <2>2. 1 \in 1 .. m + 1 /\ \A k \in 1 .. m : k + 1 \in 1 .. m + 1
    BY <1>0
  <2>3. On(p) = {ItemAt(p, i) : i \in 1 .. m + 1}
    BY <1>5, <1>9 DEF On
  <2>4. On(l) = {ItemAt(l, i) : i \in 1 .. m}
    BY DEF On
  <2> QED
    BY <1>10, <2>1, <2>2, <2>3, <2>4
<1>12. Once(l) /\ x \notin On(l) => Once(p)
  <2> SUFFICES ASSUME Once(l), x \notin On(l),
                      NEW i \in 1 .. m + 1, NEW j \in 1 .. m + 1,
                      ItemAt(p, i) = ItemAt(p, j)
               PROVE  i = j
    BY <1>5, <1>9 DEF Once
  <2>1. ASSUME NEW k \in 1 .. m + 1
        PROVE  k = 1 \/ (k - 1 \in 1 .. m /\ k = (k - 1) + 1)
    BY <1>0
  <2>2. \A k \in 1 .. m : ItemAt(l, k) \in On(l)
    BY DEF On
  <2>3. ASSUME NEW k \in 1 .. m + 1, k # 1
        PROVE  /\ k - 1 \in 1 .. m /\ k = (k - 1) + 1
               /\ ItemAt(p, k) = ItemAt(l, k - 1) /\ ItemAt(p, k) # x
    BY <1>10, <2>1, <2>2, <2>3
  <2>4. i = 1 <=> j = 1
    BY <1>10, <2>3
  <2>5. i # 1 /\ j # 1 => i - 1 = j - 1
    BY <2>3 DEF Once
  <2> QED
    BY <1>0, <2>4, <2>5
<1>13. WellFormed(p)
  BY <1>4, <1>5, <1>7, <1>8 DEF WellFormed
<1> QED
  BY <1>11, <1>12, <1>13

\* push_front without memory: the list is empty.
LEMMA PushFailedOf ==
  ASSUME NEW l, WellFormed(l), NEW x
  PROVE  /\ WellFormed(List!PushFront(l, None, x))
         /\ On(List!PushFront(l, None, x)) = {}
         /\ Once(List!PushFront(l, None, x))
<1> DEFINE p == List!PushFront(l, None, x)
<1>1. p = [head |-> None, node |-> l.node]
  BY DEF List!PushFront
<1>2. p \in Lists
  BY <1>1 DEF WellFormed, Lists
<1>3. <<>> \in Seq(Nodes) /\ Len(<<>>) = 0 /\ 1 .. 0 = {}
  BY EmptySeq
<1>4. List!IsChain(p, <<>>) /\ Distinct(<<>>)
  BY <1>1, <1>3 DEF List!IsChain, Distinct
<1>5. List!Chain(p) = <<>>
  BY <1>3, <1>4, ChainIs
<1> QED
  BY <1>2, <1>3, <1>4, <1>5 DEF WellFormed, On, Once

\* The sequence s without its k-th element.
Drop(s, k) == [i \in 1 .. Len(s) - 1 |-> IF i < k THEN s[i] ELSE s[i + 1]]

\* The chain that erase() leaves: the same nodes with the same items but one.
LEMMA EraseChain ==
  ASSUME NEW l, WellFormed(l),
         NEW k \in 1 .. Len(List!Chain(l)), NEW n, n = List!Chain(l)[k]
  PROVE  /\ WellFormed(List!Erase(l, n))
         /\ List!Chain(List!Erase(l, n)) = Drop(List!Chain(l), k)
         /\ \A i \in 1 .. Len(List!Chain(l)) :
              i # k => List!Erase(l, n).node[List!Chain(l)[i]].item = ItemAt(l, i)
<1> DEFINE s == List!Chain(l)
           m == Len(s)
           e == List!Erase(l, n)
           t == Drop(s, k)
<1>0. /\ m \in Nat /\ k \in 1 .. m /\ Distinct(s) /\ List!IsChain(l, s)
      /\ (s = <<>> <=> m = 0)
      /\ \A i \in 1 .. m : s[i] \in Nodes /\ s[i] # None
  BY ChainOf, LenProperties, EmptySeq, NoneAssumption, ElementOfSeq
<1>1. l.node \in [Nodes -> Cells \union {None}] /\ l.head \in Nodes \union {None}
  BY DEF WellFormed, Lists
<1>2. List!InChain(l, n) /\ n \in Nodes /\ n # None
  BY <1>0 DEF List!InChain
<1>3. /\ e.head = IF l.head = n THEN List!Next(l, n) ELSE l.head
      /\ e.node = [q \in Nodes |->
                    IF q = n THEN None
                    ELSE IF l.node[q] # None /\ l.node[q].next = n /\ List!InChain(l, q)
                           THEN [l.node[q] EXCEPT !.next = List!Next(l, n)]
                           ELSE l.node[q]]
  BY <1>2 DEF List!Erase
<1>4. List!Next(l, n) = IF k = m THEN None ELSE s[k + 1]
  BY <1>0 DEF List!IsChain, List!Next
<1>5. List!Next(l, n) \in Nodes \union {None}
  BY <1>0, <1>4
<1>6. \A c \in Cells : [c EXCEPT !.next = List!Next(l, n)] \in Cells
                       /\ [c EXCEPT !.next = List!Next(l, n)] # None
                       /\ [c EXCEPT !.next = List!Next(l, n)].item = c.item
                       /\ [c EXCEPT !.next = List!Next(l, n)].next = List!Next(l, n)
  BY <1>5, NoneAssumption DEF Cells
<1>7. e \in Lists
  <2>1. e.node \in [Nodes -> Cells \union {None}]
    <3> SUFFICES ASSUME NEW q \in Nodes
                 PROVE  e.node[q] \in Cells \union {None}
      BY <1>3
    <3>1. l.node[q] \in Cells \union {None}
      BY <1>1
    <3> HIDE DEF e
    <3> QED
      BY <3>1, <1>3, <1>6
  <2>2. e.head \in Nodes \union {None}
    BY <1>1, <1>3, <1>5
  <2>3. e = [head |-> e.head, node |-> e.node]
    BY <1>2 DEF List!Erase
  <2> HIDE DEF e
  <2> QED
    BY <2>1, <2>2, <2>3 DEF Lists
<1>8. ASSUME NEW i \in 1 .. m, i # k
      PROVE  /\ e.node[s[i]] # None
             /\ e.node[s[i]].item = ItemAt(l, i)
             /\ e.node[s[i]].next = IF i + 1 = k THEN List!Next(l, n)
                                    ELSE l.node[s[i]].next
  <2>1. s[i] \in Nodes /\ s[i] # n /\ List!InChain(l, s[i])
    BY <1>0, <1>8 DEF Distinct, List!InChain
  <2>2. l.node[s[i]] # None /\ l.node[s[i]] \in Cells
    BY <1>0, <1>1, <2>1 DEF List!IsChain
  <2>3. l.node[s[i]].next = n <=> i + 1 = k
    <3>1. l.node[s[i]].next = IF i = m THEN None ELSE s[i + 1]
      BY <1>0 DEF List!IsChain
    <3>2. i # m => i + 1 \in 1 .. m
      BY <1>0
    <3> QED
      BY <1>0, <1>2, <3>1, <3>2 DEF Distinct
  <2>4. e.node[s[i]] = IF l.node[s[i]].next = n
                         THEN [l.node[s[i]] EXCEPT !.next = List!Next(l, n)]
                         ELSE l.node[s[i]]
    <3> HIDE DEF e
    <3> QED
      BY <1>3, <2>1, <2>2
  <2> HIDE DEF e
  <2> QED
    BY <1>6, <2>2, <2>3, <2>4 DEF ItemAt
<1> HIDE DEF e
<1>9. /\ t \in Seq(Nodes) /\ Len(t) = m - 1
      /\ \A i \in 1 .. m - 1 : t[i] = s[IF i < k THEN i ELSE i + 1]
  <2>1. \A i \in 1 .. m - 1 : /\ i \in 1 .. m /\ i + 1 \in 1 .. m
    BY <1>0
  <2>2. t = [i \in 1 .. m - 1 |-> IF i < k THEN s[i] ELSE s[i + 1]] /\ m - 1 \in Nat
    BY <1>0 DEF Drop
  <2> HIDE DEF t
  <2> QED
    BY <1>0, <2>1, <2>2
<1> HIDE DEF t
<1>10. List!IsChain(e, t)
  <2>1. e.head = IF t = <<>> THEN None ELSE t[1]
    <3>1. l.head = s[1] /\ 1 \in 1 .. m
      BY <1>0 DEF List!IsChain
    <3>2. t = <<>> <=> m = 1
      BY <1>0, <1>9, EmptySeq
    <3>3. CASE k = 1
      <4>1. e.head = IF m = 1 THEN None ELSE s[2]
        BY <1>3, <1>4, <3>1, <3>3
      <4>2. m # 1 => t[1] = s[2]
        BY <1>0, <1>9, <3>3
      <4> QED
        BY <3>2, <4>1, <4>2
    <3>4. CASE k # 1
      <4>1. l.head # n
        BY <1>0, <3>1, <3>4 DEF Distinct
      <4>2. m # 1 /\ t[1] = s[1]
        BY <1>0, <1>9, <3>4
      <4> QED
        BY <1>3, <3>1, <3>2, <4>1, <4>2
    <3> QED
      BY <3>3, <3>4
  <2>2. ASSUME NEW i \in 1 .. m - 1
        PROVE  /\ e.node[t[i]] # None
               /\ e.node[t[i]].next = IF i = m - 1 THEN None ELSE t[i + 1]
    <3>1. CASE i < k - 1
      <4>1. i \in 1 .. m /\ i # k /\ i # m /\ i + 1 # k /\ i # m - 1
            /\ i + 1 \in 1 .. m - 1 /\ i + 1 < k
        BY <1>0, <3>1
      <4>2. t[i] = s[i] /\ t[i + 1] = s[i + 1]
        BY <1>0, <1>9, <4>1
      <4>3. l.node[s[i]].next = s[i + 1]
        BY <1>0, <4>1 DEF List!IsChain
      <4> QED
        BY <1>8, <4>1, <4>2, <4>3
    <3>2. CASE i = k - 1
      <4>1. i \in 1 .. m /\ i # k /\ i + 1 = k /\ i < k
        BY <1>0, <3>2
      <4>2. t[i] = s[i]
        BY <1>0, <1>9, <4>1
      <4>3. i # m - 1 => i + 1 \in 1 .. m - 1 /\ t[i + 1] = s[k + 1] /\ k # m
        <5>1. i # m - 1 => i + 1 \in 1 .. m - 1 /\ ~(i + 1 < k) /\ k # m
          BY <1>0, <4>1
        <5> QED
          BY <5>1, <1>9, <4>1
      <4>4. i = m - 1 => k = m
        BY <1>0, <4>1
      <4> QED
        BY <1>4, <1>8, <4>1, <4>2, <4>3, <4>4
    <3>3. CASE i >= k
      <4>1. i + 1 \in 1 .. m /\ i + 1 # k /\ (i + 1) + 1 # k /\ ~(i < k)
        BY <1>0, <3>3
      <4>2. t[i] = s[i + 1]
        BY <1>0, <1>9, <4>1
      <4>3. i # m - 1 => i + 1 \in 1 .. m - 1 /\ t[i + 1] = s[(i + 1) + 1]
        <5>1. i # m - 1 => i + 1 \in 1 .. m - 1 /\ ~(i + 1 < k)
          BY <1>0, <4>1, <3>3
        <5> QED
          BY <5>1, <1>9
      <4>4. l.node[s[i + 1]].next = IF i + 1 = m THEN None ELSE s[(i + 1) + 1]
        BY <1>0, <4>1 DEF List!IsChain
      <4>5. i + 1 = m <=> i = m - 1
        BY <1>0
      <4> QED
        BY <1>8, <4>1, <4>2, <4>3, <4>4, <4>5
    <3> QED
      BY <1>0, <3>1, <3>2, <3>3
  <2> QED
    BY <1>9, <2>1, <2>2 DEF List!IsChain
<1>11. Distinct(t)
  <2> SUFFICES ASSUME NEW i \in 1 .. m - 1, NEW j \in 1 .. m - 1, t[i] = t[j]
               PROVE  i = j
    BY <1>9 DEF Distinct
  <2> DEFINE a(x) == IF x < k THEN x ELSE x + 1
  <2>1. a(i) \in 1 .. m /\ a(j) \in 1 .. m /\ (a(i) = a(j) => i = j)
    BY <1>0
  <2>2. s[a(i)] = s[a(j)]
    BY <1>9
  <2> QED
    BY <1>0, <2>1, <2>2 DEF Distinct
<1>12. List!Chain(e) = t
  BY <1>9, <1>10, <1>11, ChainIs
<1>13. WellFormed(e)
  BY <1>7, <1>9, <1>10, <1>11 DEF WellFormed
<1> QED
  BY <1>8, <1>12, <1>13 DEF e, t

\* erase() takes one listener off the list; the iterator it returns is on the
\* list, and the listeners that were ahead still are.
LEMMA EraseOf ==
  ASSUME NEW l, WellFormed(l), Once(l), NEW n, List!InChain(l, n)
  PROVE  /\ WellFormed(List!Erase(l, n)) /\ Once(List!Erase(l, n))
         /\ On(List!Erase(l, n)) = On(l) \ {l.node[n].item}
         /\ \/ List!Behind(l, n) = None
            \/ List!InChain(List!Erase(l, n), List!Behind(l, n))
         /\ \A x : Ahead(l, n, x) /\ l.node[n].item # x =>
                     Ahead(List!Erase(l, n), List!Behind(l, n), x)
<1> DEFINE s == List!Chain(l)
           m == Len(s)
           e == List!Erase(l, n)
<1>0. m \in Nat /\ Distinct(s) /\ List!IsChain(l, s)
  BY ChainOf, LenProperties
<1>1. PICK k \in 1 .. m : s[k] = n
  BY DEF List!InChain
<1>2. /\ WellFormed(e) /\ List!Chain(e) = Drop(s, k)
      /\ \A i \in 1 .. m : i # k => e.node[s[i]].item = ItemAt(l, i)
  BY <1>1, EraseChain
<1>3. List!Behind(l, n) = IF k = m THEN None ELSE s[k + 1]
  BY <1>0, <1>1 DEF List!Behind, List!Next, List!IsChain
<1> HIDE DEF e
<1>4. /\ Len(List!Chain(e)) = m - 1
      /\ \A i \in 1 .. m - 1 :
           List!Chain(e)[i] = IF i < k THEN s[i] ELSE s[i + 1]
  BY <1>0, <1>2 DEF Drop
<1>5. \A i \in 1 .. m - 1 :
        ItemAt(e, i) = IF i < k THEN ItemAt(l, i) ELSE ItemAt(l, i + 1)
  <2> TAKE i \in 1 .. m - 1
  <2>1. i \in 1 .. m /\ i + 1 \in 1 .. m /\ (i < k => i # k) /\ (~(i < k) => i + 1 # k)
    BY <1>0, <1>1
  <2>2. ItemAt(e, i) = e.node[List!Chain(e)[i]].item
    BY DEF ItemAt
  <2> QED
    BY <1>2, <1>4, <2>1, <2>2
\* Every other place has its place in the new chain.
<1>6. ASSUME NEW j \in 1 .. m, j # k
      PROVE  LET i == IF j < k THEN j ELSE j - 1
             IN  i \in 1 .. m - 1 /\ ItemAt(e, i) = ItemAt(l, j)
  <2>1. CASE j < k
    <3>1. j \in 1 .. m - 1
      BY <1>0, <1>1, <2>1
    <3> QED
      BY <1>5, <2>1, <3>1
  <2>2. CASE j > k
    <3>1. j - 1 \in 1 .. m - 1 /\ ~(j - 1 < k) /\ (j - 1) + 1 = j /\ ~(j < k)
      BY <1>0, <1>1, <2>2
    <3>2. ItemAt(e, j - 1) = ItemAt(l, (j - 1) + 1)
      BY <1>5, <3>1
    <3> QED
      BY <3>1, <3>2
  <2> QED
    BY <1>0, <1>1, <1>6, <2>1, <2>2
<1>7. ItemAt(l, k) = l.node[n].item
  BY <1>1 DEF ItemAt
<1>8. \A i \in 1 .. m - 1 : /\ i \in 1 .. m /\ i + 1 \in 1 .. m
                            /\ (i < k => i # k) /\ (~(i < k) => i + 1 # k)
  BY <1>0, <1>1
<1>9. On(e) = On(l) \ {l.node[n].item}
  <2>1. ASSUME NEW x \in On(e)
        PROVE  x \in On(l) /\ x # l.node[n].item
    <3>1. PICK i \in 1 .. m - 1 : x = ItemAt(e, i)
      BY <1>4 DEF On
    <3>2. PICK j \in 1 .. m : j # k /\ x = ItemAt(l, j)
      BY <1>5, <1>8, <3>1
    <3> QED
      BY <1>7, <3>2 DEF On, Once
  <2>2. ASSUME NEW x \in On(l), x # l.node[n].item
        PROVE  x \in On(e)
    <3>1. PICK j \in 1 .. m : x = ItemAt(l, j)
      BY DEF On
    <3>2. j # k
      BY <1>7, <2>2, <3>1
    <3>3. \E i \in 1 .. m - 1 : ItemAt(e, i) = x
      BY <1>6, <3>1, <3>2
    <3> QED
      BY <1>4, <3>3 DEF On
  <2> QED
    BY <2>1, <2>2
<1>10. Once(e)
  <2> SUFFICES ASSUME NEW i \in 1 .. m - 1, NEW j \in 1 .. m - 1,
                      ItemAt(e, i) = ItemAt(e, j)
               PROVE  i = j
    BY <1>4 DEF Once
  <2> DEFINE a(x) == IF x < k THEN x ELSE x + 1
  <2>1. a(i) \in 1 .. m /\ a(j) \in 1 .. m /\ (a(i) = a(j) => i = j)
    BY <1>0, <1>1
  <2>2. ItemAt(l, a(i)) = ItemAt(l, a(j))
    BY <1>5
  <2> HIDE DEF a
  <2> QED
    BY <2>1, <2>2 DEF Once
<1>11. List!Behind(l, n) = None \/ List!InChain(e, List!Behind(l, n))
  <2>1. k # m => k \in 1 .. m - 1 /\ ~(k < k)
    BY <1>0, <1>1
  <2> QED
    BY <1>3, <1>4, <2>1 DEF List!InChain
<1>12. ASSUME NEW x, Ahead(l, n, x), l.node[n].item # x
       PROVE  Ahead(e, List!Behind(l, n), x)
  <2>1. PICK i, j \in 1 .. m : i <= j /\ s[i] = n /\ ItemAt(l, j) = x
    BY <1>12 DEF Ahead
  <2>2. i = k
    BY <1>0, <1>1, <2>1 DEF Distinct
  <2>3. j # k
    BY <1>7, <1>12, <2>1
  <2>4. k # m /\ k \in 1 .. m - 1 /\ ~(k < k) /\ ~(j < k) /\ k <= j - 1
    BY <1>0, <1>1, <2>1, <2>2, <2>3
  <2>5. j - 1 \in 1 .. m - 1 /\ ItemAt(e, j - 1) = x
    BY <1>6, <2>1, <2>3, <2>4
  <2>6. List!Chain(e)[k] = List!Behind(l, n)
    BY <1>3, <1>4, <2>4
  <2> QED
    BY <1>4, <2>4, <2>5, <2>6 DEF Ahead
<1> QED
  BY <1>2, <1>9, <1>10, <1>11, <1>12 DEF e

(***************************************************************************)
(* The invariant.                                                          *)
(***************************************************************************)
Waiting == user \in {"Send", "Sent", "Wait"}

\* Each listener that is on the list is there once, and exists.
ListInv ==
  /\ WellFormed(listeners)
  /\ Once(listeners)
  /\ On(listeners) \subseteq
       {EchoServer} \union (IF Waiting \/ user = "Remove" THEN {quench} ELSE {})

\* The walk has the lock, and stands on a node of the list.
WalkInv ==
  /\ lock = "Receiver" <=> rcv \in {"Loop", "Erase"}
  /\ rcv \in {"Loop", "Erase"} => begin = None \/ List!InChain(listeners, begin)
  /\ rcv = "Erase" => begin # None /\ Matches(Listener, frame)

\* A message is about a ping whose request was sent.
SentInv ==
  /\ sent \subseteq 1 .. quench
  /\ user \in {"Add", "Send"} => quench \notin sent
  /\ rcv # "Idle" => frame.quench \in sent \union {0}

\* The byte in the mailbox is that of a message which arrived.
AnswerInv ==
  Waiting =>
    \A b \in 0 .. 255 : answer = <<b>> =>
      /\ b # Timeout
      /\ b = Pong => "EchoReply" \in Arrived
      /\ b = TTLExceeded => "TTLExceeded" \in Arrived
      /\ b \notin {Pong, TTLExceeded} => "Unreachable" \in Arrived

\* While the mailbox is empty the ping's listener is on the list, unless the list
\* was lost, no answer has been processed, and the walk has yet to come to it.
SilenceInv ==
  /\ user \in {"Add", "Send"} => answer = <<>> /\ handled = {}
  /\ Waiting /\ answer = <<>> /\ EchoServer \in On(listeners) =>
       /\ quench \in On(listeners)
       /\ handled \subseteq {"EchoRequest"}
       /\ rcv = "Loop" /\ frame.quench = quench /\ frame.type # "EchoRequest" =>
            Ahead(listeners, begin, quench)
  /\ Waiting /\ rcv = "Erase" /\ frame.quench = quench => answer # <<>>

Inv == TypeOK /\ ListInv /\ WalkInv /\ SentInv /\ SilenceInv

\* remListener: the listener is off the list, whether or not it was on it.
LEMMA WithoutOf ==
  ASSUME WellFormed(listeners), Once(listeners), NEW q
  PROVE  /\ WellFormed(Without(q)) /\ Once(Without(q))
         /\ On(Without(q)) = On(listeners) \ {q}
<1> DEFINE nodes == {n \in Nodes : List!InChain(listeners, n)
                                     /\ listeners.node[n].item = q}
<1>1. Without(q) = IF nodes = {} THEN listeners
                   ELSE List!Erase(listeners, CHOOSE n \in nodes : TRUE)
  BY DEF Without
<1>2. CASE nodes = {}
  <2>1. q \notin On(listeners)
    <3> SUFFICES ASSUME NEW i \in 1 .. Len(List!Chain(listeners)),
                        ItemAt(listeners, i) = q
                 PROVE  FALSE
      BY DEF On
    <3>1. List!InChain(listeners, List!Chain(listeners)[i])
      BY DEF List!InChain
    <3>2. List!Chain(listeners)[i] \in nodes
      BY <3>1, NodeInChain DEF ItemAt
    <3> QED
      BY <1>2, <3>2
  <2> QED
    BY <1>1, <1>2, <2>1
<1>3. CASE nodes # {}
  <2>1. PICK n \in nodes : Without(q) = List!Erase(listeners, n)
    BY <1>1, <1>3
  <2>2. List!InChain(listeners, n) /\ listeners.node[n].item = q
    OBVIOUS
  <2> QED
    BY <2>1, <2>2, EraseOf
<1> QED
  BY <1>2, <1>3

LEMMA InitList == Init => ListInv
<1> SUFFICES ASSUME Init
             PROVE  ListInv
  OBVIOUS
<1> DEFINE n == CHOOSE n \in Nodes : TRUE
           l == List!EmptyList
<1>1. n \in Nodes /\ EchoServer \in Elements
  BY NodeAssumption DEF Elements
<1>2. l = [head |-> None, node |-> [q \in Nodes |-> None]]
  BY DEF List!EmptyList
<1>3. l \in Lists /\ l.node[n] = None
  BY <1>1, <1>2 DEF Lists
<1>4. <<>> \in Seq(Nodes) /\ Len(<<>>) = 0 /\ 1 .. 0 = {}
  BY EmptySeq
<1>5. List!IsChain(l, <<>>) /\ Distinct(<<>>)
  BY <1>2, <1>4 DEF List!IsChain, Distinct
<1>6. List!Chain(l) = <<>>
  BY <1>4, <1>5, ChainIs
<1>7. WellFormed(l) /\ On(l) = {} /\ Once(l)
  BY <1>3, <1>4, <1>5, <1>6 DEF WellFormed, On, Once
<1>8. listeners = List!PushFront(l, n, EchoServer)
  BY DEF Init
<1> HIDE DEF n, l
<1> QED
  BY <1>1, <1>3, <1>7, <1>8, PushFrontOf DEF ListInv

LEMMA StepList == Inv /\ Next => ListInv'
<1> SUFFICES ASSUME Inv, Next
             PROVE  ListInv'
  OBVIOUS
<1> USE DEF ListInv, Waiting
<1>0. /\ ListInv
      /\ user # "Menu" => quench \in Pings /\ quench \in Elements /\ quench # EchoServer
  BY ListenerAssumption DEF Inv, TypeOK, Elements
<1>1. CASE NewPing
  BY <1>0, <1>1 DEF NewPing
<1>2. CASE AddListener
  <2>1. PICK n \in List!Free(listeners) \union {None} :
          listeners' = List!PushFront(listeners, n, quench)
    BY <1>2 DEF AddListener
  <2>2. user = "Add" /\ user' = "Send" /\ quench' = quench
    BY <1>2 DEF AddListener
  <2>3. quench \notin On(listeners)
    BY <1>0, <2>2
  <2>4. CASE n = None
    BY <1>0, <2>1, <2>2, <2>4, PushFailedOf
  <2>5. CASE n # None
    <3>1. n \in Nodes /\ listeners.node[n] = None
      BY <2>1, <2>5 DEF List!Free
    <3> QED
      BY <1>0, <2>1, <2>2, <2>3, <3>1, PushFrontOf
  <2> QED
    BY <2>4, <2>5
<1>3. CASE Transmit \/ SendReturns \/ NoRoute \/ GetResponse \/ GetTimeout
  BY <1>0, <1>3 DEF Transmit, SendReturns, NoRoute, GetResponse, GetTimeout
<1>4. CASE RemListener
  <2>1. listeners' = Without(quench) /\ user' = "Menu" /\ user = "Remove"
    BY <1>4 DEF RemListener
  <2> QED
    BY <1>0, <2>1, WithoutOf
<1>5. CASE (\E m \in Messages : Arrive(m)) \/ LockListeners \/ Pass \/ Inform \/ EndLoop
  BY <1>0, <1>5 DEF Arrive, LockListeners, Pass, Inform, EndLoop, userVars
<1>6. CASE Erase
  <2>1. /\ listeners' = List!Erase(listeners, begin)
        /\ user' = user /\ quench' = quench
    BY <1>6 DEF Erase, userVars
  <2>2. List!InChain(listeners, begin)
    BY <1>6 DEF Erase, Inv, WalkInv
  <2> QED
    BY <1>0, <2>1, <2>2, EraseOf
<1> QED
  BY <1>1, <1>2, <1>3, <1>4, <1>5, <1>6 DEF Next, UserThread, Receiver

\* What a listener answers with.
LEMMA AnswerByte ==
  ASSUME NEW m \in Messages, m.type # "EchoRequest"
  PROVE  /\ AnswerTo(m) \in 0 .. 255
         /\ \/ m.type = "EchoReply" /\ AnswerTo(m) = Pong
            \/ m.type = "TTLExceeded" /\ AnswerTo(m) = TTLExceeded
            \/ /\ m.type = "Unreachable"
               /\ m.code \in Codes /\ AnswerTo(m) = (m.code + 1) % 256
<1>1. CASE m.type = "EchoReply"
  BY <1>1 DEF AnswerTo, Pong
<1>2. CASE m.type = "TTLExceeded"
  BY <1>2 DEF AnswerTo, TTLExceeded
<1>3. CASE m.type = "Unreachable"
  <2>1. m.code \in Codes
    BY <1>3 DEF Messages
  <2>2. AnswerTo(m) = (m.code + 1) % 256
    BY <1>3 DEF AnswerTo
  <2>3. m.code \in 0 .. 255
    BY <2>1, CodeAssumption
  <2>4. (m.code + 1) % 256 \in 0 .. 255
    BY <2>3
  <2> QED
    BY <1>3, <2>1, <2>2, <2>4
<1> QED
  BY <1>1, <1>2, <1>3 DEF Messages

LEMMA InitType == Init => TypeOK
<1> SUFFICES ASSUME Init
             PROVE  TypeOK
  OBVIOUS
<1>1. listeners \in Lists
  BY InitList DEF ListInv, WellFormed
<1> QED
  BY <1>1, PingAssumption DEF Init, TypeOK, Lists

LEMMA StepType == Inv /\ Next => TypeOK'
<1> SUFFICES ASSUME Inv, Next
             PROVE  TypeOK'
  OBVIOUS
<1>0. TypeOK /\ WalkInv
  BY DEF Inv
<1>list. listeners' \in [head : Nodes \union {None}, node : [Nodes -> Cells \union {None}]]
  BY StepList DEF ListInv, WellFormed, Lists
<1> USE PingAssumption DEF TypeOK
<1>1. CASE NewPing
  <2>1. quench' \in Pings
    BY <1>0, <1>1 DEF NewPing, Pings
  <2> QED
    BY <1>0, <1>list, <1>1, <2>1 DEF NewPing, receiverVars, Pings
<1>2. CASE AddListener
  BY <1>0, <1>list, <1>2 DEF AddListener, receiverVars
<1>3. CASE Transmit
  BY <1>0, <1>list, <1>3 DEF Transmit, receiverVars
<1>4. CASE SendReturns \/ NoRoute
  <2>1. /\ user \in {"Send", "Sent"} /\ user' \in {"Wait", "Remove"}
        /\ UNCHANGED <<quench, answer, val, lock, rcv, frame, begin, sent, handled>>
    BY <1>4 DEF SendReturns, NoRoute, receiverVars
  <2> QED
    BY <1>0, <1>list, <2>1
<1>5. CASE GetResponse
  <2>1. PICK b \in 0 .. 255 : answer = <<b>>
    BY <1>0, <1>5 DEF GetResponse
  <2>2. Head(answer) = b /\ Tail(answer) = <<>>
    BY <2>1
  <2> QED
    BY <1>0, <1>list, <1>5, <2>2 DEF GetResponse, receiverVars
<1>6. CASE GetTimeout
  BY <1>0, <1>list, <1>6 DEF GetTimeout, receiverVars, Timeout
<1>7. CASE RemListener
  BY <1>0, <1>list, <1>7 DEF RemListener, receiverVars
<1>8. CASE \E m \in Messages : Arrive(m)
  BY <1>0, <1>list, <1>8 DEF Arrive, userVars
<1>9. CASE LockListeners
  BY <1>0, <1>list, <1>9 DEF LockListeners, userVars
<1>10. CASE Pass
  <2>1. begin' \in Nodes \union {None}
    <3>1. List!InChain(listeners, begin) /\ begin' = List!Next(listeners, begin)
      BY <1>0, <1>10 DEF Pass, WalkInv
    <3>2. List!InChain(listeners, begin') \/ begin' = None
      BY <3>1, NextOf DEF Inv, ListInv
    <3> QED
      BY <3>2, NodeInChain DEF Inv, ListInv
  <2> QED
    BY <1>0, <1>list, <1>10, <2>1 DEF Pass, userVars
<1>11. CASE Inform
  <2>1. AnswerTo(frame) \in 0 .. 255
    BY <1>0, <1>11, AnswerByte DEF Inform, Matches
  <2> QED
    BY <1>0, <1>list, <1>11, <2>1 DEF Inform, userVars
<1>12. CASE Erase
  <2>1. begin' \in Nodes \union {None}
    <3>1. List!InChain(listeners, begin) /\ begin' = List!Behind(listeners, begin)
          /\ listeners' = List!Erase(listeners, begin)
      BY <1>0, <1>12 DEF Erase, WalkInv
    <3>2. List!InChain(listeners', begin') \/ begin' = None
      BY <3>1, EraseOf DEF Inv, ListInv
    <3>3. WellFormed(listeners')
      BY StepList DEF ListInv
    <3> QED
      BY <3>2, <3>3, NodeInChain
  <2> QED
    BY <1>0, <1>list, <1>12, <2>1 DEF Erase, userVars
<1>13. CASE EndLoop
  BY <1>0, <1>list, <1>13 DEF EndLoop, userVars, Messages
<1> QED
  BY <1>1, <1>2, <1>3, <1>4, <1>5, <1>6, <1>7, <1>8, <1>9, <1>10, <1>11, <1>12, <1>13
  DEF Next, UserThread, Receiver

LEMMA StepWalk == Inv /\ Next => WalkInv'
<1> SUFFICES ASSUME Inv, Next
             PROVE  WalkInv'
  OBVIOUS
<1>0. TypeOK /\ WalkInv /\ WellFormed(listeners) /\ Once(listeners) /\ None # "Receiver"
  BY NoneAssumption DEF Inv, ListInv
<1> USE DEF WalkInv
<1>1. CASE NewPing \/ Transmit \/ SendReturns \/ NoRoute \/ GetResponse \/ GetTimeout
  BY <1>0, <1>1 DEF NewPing, Transmit, SendReturns, NoRoute, GetResponse, GetTimeout,
                    receiverVars, Listener
<1>2. CASE AddListener \/ RemListener
  <2>1. lock = None /\ UNCHANGED <<lock, rcv, frame, begin>>
    BY <1>2 DEF AddListener, RemListener, receiverVars
  <2> QED
    BY <1>0, <2>1
<1>3. CASE \E m \in Messages : Arrive(m)
  BY <1>0, <1>3 DEF Arrive
<1>4. CASE LockListeners
  BY <1>0, <1>4, HeadOf DEF LockListeners
<1>5. CASE Pass
  BY <1>0, <1>5, NextOf DEF Pass
<1>6. CASE Inform
  <2>1. /\ rcv = "Loop" /\ rcv' = "Erase" /\ begin # None
        /\ Matches(Listener, frame)
        /\ UNCHANGED <<listeners, lock, frame, begin>>
    BY <1>6 DEF Inform
  <2> QED
    BY <1>0, <2>1 DEF Listener
<1>7. CASE Erase
  <2>1. /\ listeners' = List!Erase(listeners, begin)
        /\ begin' = List!Behind(listeners, begin)
        /\ rcv = "Erase" /\ rcv' = "Loop" /\ lock' = lock
    BY <1>7 DEF Erase
  <2>2. List!InChain(listeners, begin)
    BY <1>0, <2>1
  <2>3. begin' = None \/ List!InChain(listeners', begin')
    BY <1>0, <2>1, <2>2, EraseOf
  <2> QED
    BY <1>0, <2>1, <2>3
<1>8. CASE EndLoop
  BY <1>0, <1>8 DEF EndLoop
<1> QED
  BY <1>1, <1>2, <1>3, <1>4, <1>5, <1>6, <1>7, <1>8 DEF Next, UserThread, Receiver

LEMMA StepSent == Inv /\ Next => SentInv'
<1> SUFFICES ASSUME Inv, Next
             PROVE  SentInv'
  OBVIOUS
<1>0. TypeOK /\ SentInv /\ quench \in Nat
  BY PingAssumption DEF Inv, TypeOK
<1> USE DEF SentInv
<1>1. CASE NewPing
  <2>1. quench' = quench + 1 /\ UNCHANGED <<rcv, frame, sent>>
    BY <1>1 DEF NewPing, receiverVars
  <2> QED
    BY <1>0, <2>1
<1>2. CASE Transmit
  <2>1. /\ user' = "Sent" /\ sent' = sent \union {quench} /\ quench \in Pings
        /\ UNCHANGED <<quench, rcv, frame>>
    BY <1>0, <1>2 DEF Transmit, receiverVars, TypeOK
  <2> QED
    BY <1>0, <2>1 DEF Pings
<1>3. CASE AddListener \/ SendReturns \/ NoRoute \/ GetResponse \/ GetTimeout \/ RemListener
  <2>1. /\ user' \in {"Add", "Send"} => user \in {"Add", "Send"}
        /\ UNCHANGED <<quench, rcv, frame, sent>>
    BY <1>3 DEF AddListener, SendReturns, NoRoute, GetResponse, GetTimeout, RemListener,
                receiverVars
  <2> QED
    BY <1>0, <2>1
<1>4. CASE \E m \in Messages : Arrive(m)
  BY <1>0, <1>4 DEF Arrive, userVars
<1>5. CASE LockListeners \/ Pass \/ Inform \/ Erase \/ EndLoop
  <2>1. /\ rcv' # "Idle" => rcv # "Idle" /\ frame' = frame
        /\ UNCHANGED <<user, quench, sent>>
    BY <1>5 DEF LockListeners, Pass, Inform, Erase, EndLoop, userVars
  <2> QED
    BY <1>0, <2>1
<1> QED
  BY <1>1, <1>2, <1>3, <1>4, <1>5 DEF Next, UserThread, Receiver

LEMMA StepSilence == Inv /\ Next => SilenceInv'
<1> SUFFICES ASSUME Inv, Next
             PROVE  SilenceInv'
  OBVIOUS
<1>0. /\ TypeOK /\ SilenceInv /\ SentInv /\ WalkInv
      /\ WellFormed(listeners) /\ Once(listeners)
      /\ quench \in Nat
  BY PingAssumption DEF Inv, TypeOK, ListInv
<1>q. user # "Menu" => quench # 0 /\ quench # EchoServer
  BY <1>0, ListenerAssumption DEF TypeOK, Pings
<1> USE DEF SilenceInv, Waiting
<1>1. CASE NewPing
  BY <1>0, <1>1 DEF NewPing
<1>2. CASE AddListener
  <2>1. PICK n \in List!Free(listeners) \union {None} :
          listeners' = List!PushFront(listeners, n, quench)
    BY <1>2 DEF AddListener
  <2>2. /\ user = "Add" /\ user' = "Send" /\ lock = None
        /\ UNCHANGED <<quench, answer, handled, rcv, frame, begin>>
    BY <1>2 DEF AddListener, receiverVars
  <2>3. rcv \notin {"Loop", "Erase"}
    BY <1>0, <2>2, NoneAssumption DEF WalkInv
  <2>4. EchoServer \in On(listeners') => quench \in On(listeners')
    <3>1. CASE n = None
      BY <1>0, <2>1, <3>1, PushFailedOf
    <3>2. CASE n # None
      <4>1. n \in Nodes /\ listeners.node[n] = None /\ quench \in Elements
        BY <1>0, <2>1, <2>2, <3>2 DEF List!Free, TypeOK, Elements
      <4> QED
        BY <1>0, <2>1, <4>1, PushFrontOf
    <3> QED
      BY <3>1, <3>2
  <2> QED
    BY <1>0, <2>2, <2>3, <2>4
<1>3. CASE Transmit \/ SendReturns
  <2>1. /\ Waiting /\ user' \in {"Sent", "Wait"}
        /\ UNCHANGED <<quench, answer, handled, listeners, rcv, frame, begin>>
    BY <1>3 DEF Transmit, SendReturns, receiverVars
  <2> QED
    BY <1>0, <2>1
<1>4. CASE NoRoute \/ GetResponse \/ GetTimeout \/ RemListener
  <2>1. user' \in {"Remove", "Menu"}
    BY <1>4 DEF NoRoute, GetResponse, GetTimeout, RemListener
  <2> QED
    BY <2>1
<1>5. CASE \E m \in Messages : Arrive(m)
  BY <1>0, <1>5 DEF Arrive, userVars
<1>6. CASE LockListeners
  <2>1. /\ begin' = listeners.head /\ rcv' = "Loop"
        /\ UNCHANGED <<user, quench, answer, handled, listeners, frame>>
    BY <1>6 DEF LockListeners, userVars
  <2> QED
    BY <1>0, <2>1, HeadOf
<1>7. CASE Pass
  <2>1. /\ rcv = "Loop" /\ begin # None /\ ~Matches(Listener, frame)
        /\ begin' = List!Next(listeners, begin)
        /\ UNCHANGED <<user, quench, answer, handled, listeners, rcv, frame>>
    BY <1>7 DEF Pass, userVars
  <2>2. List!InChain(listeners, begin)
    BY <1>0, <2>1 DEF WalkInv
  <2>3. Waiting /\ frame.quench = quench /\ frame.type # "EchoRequest" =>
          listeners.node[begin].item # quench
    BY <2>1, <1>q DEF Matches, Listener
  <2> QED
    BY <1>0, <2>1, <2>2, <2>3, NextOf
<1>8. CASE Inform
  <2>1. /\ rcv = "Loop" /\ rcv' = "Erase"
        /\ Matches(Listener, frame) /\ List!InChain(listeners, begin)
        /\ answer' # <<>> /\ (answer' = answer \/ answer = <<>>)
        /\ UNCHANGED <<user, quench, handled, listeners, frame, begin>>
    BY <1>0, <1>8 DEF Inform, userVars, WalkInv
  <2>2. Listener = frame.quench /\ Listener \in On(listeners)
    BY <1>0, <2>1, NodeInChain DEF Matches, Listener
  <2>3. user \notin {"Add", "Send"}
    <3> SUFFICES ASSUME user \in {"Add", "Send"}
                 PROVE  FALSE
      OBVIOUS
    <3>1. frame.quench \in {EchoServer, quench} /\ frame.quench # EchoServer
      BY <2>1, <2>2 DEF Inv, ListInv, Matches
    <3>2. frame.quench # quench
      BY <1>0, <1>q, <2>1 DEF SentInv
    <3> QED
      BY <3>1, <3>2
  <2> QED
    BY <1>0, <2>1, <2>3
<1>9. CASE Erase
  <2>1. /\ listeners' = List!Erase(listeners, begin)
        /\ begin' = List!Behind(listeners, begin)
        /\ rcv = "Erase" /\ rcv' = "Loop"
        /\ UNCHANGED <<user, quench, answer, handled, frame>>
    BY <1>9 DEF Erase, userVars
  <2>2. /\ List!InChain(listeners, begin) /\ listeners.node[begin].item = frame.quench
        /\ listeners.node[begin].item # EchoServer
    BY <1>0, <2>1 DEF WalkInv, Matches, Listener
  <2>3. On(listeners') = On(listeners) \ {frame.quench}
    BY <1>0, <2>1, <2>2, EraseOf
  <2>4. Waiting /\ answer = <<>> => frame.quench # quench
    BY <1>0, <2>1
  <2> QED
    BY <1>0, <2>1, <2>3, <2>4
<1>10. CASE EndLoop
  <2>1. /\ rcv = "Loop" /\ begin = None /\ rcv' = "Idle"
        /\ handled' = IF frame.quench = quench THEN handled \union {frame.type}
                                               ELSE handled
        /\ UNCHANGED <<user, quench, answer, listeners>>
    BY <1>10 DEF EndLoop, userVars
  <2>2. ~List!InChain(listeners, begin)
    BY <1>0, <2>1, NodeInChain
  <2>3. user \in {"Add", "Send"} => frame.quench # quench
    BY <1>0, <1>q, <2>1 DEF SentInv
  <2>4. Waiting /\ answer = <<>> /\ EchoServer \in On(listeners) /\ frame.quench = quench
          => frame.type = "EchoRequest"
    BY <1>0, <2>1, <2>2, AheadOf
  <2> QED
    BY <1>0, <2>1, <2>3, <2>4
<1> QED
  BY <1>1, <1>2, <1>3, <1>4, <1>5, <1>6, <1>7, <1>8, <1>9, <1>10
  DEF Next, UserThread, Receiver

LEMMA InvInit == Init => Inv
<1> SUFFICES ASSUME Init
             PROVE  Inv
  OBVIOUS
<1>1. TypeOK /\ ListInv
  BY InitType, InitList
<1>2. WalkInv /\ SentInv
  BY NoneAssumption DEF Init, WalkInv, SentInv
<1>3. SilenceInv
  BY DEF Init, SilenceInv, Waiting
<1> QED
  BY <1>1, <1>2, <1>3 DEF Inv

LEMMA InvStep == Inv /\ [Next]_vars => Inv'
<1> SUFFICES ASSUME Inv, [Next]_vars
             PROVE  Inv'
  OBVIOUS
<1>1. CASE Next
  BY <1>1, StepType, StepList, StepWalk, StepSent, StepSilence DEF Inv
<1>2. CASE UNCHANGED vars
  BY <1>2 DEF vars, userVars, receiverVars, Inv, TypeOK, ListInv, WalkInv, SentInv,
              SilenceInv, Waiting, Listener
<1> QED
  BY <1>1, <1>2

THEOREM Invariance == Spec => []Inv
BY InvInit, InvStep, PTL DEF Spec

\* Everything keeps to its type: the list's pointers lead to nodes, the byte in
\* the mailbox is a byte, and the handler works on a message.
THEOREM TypeCorrect == Spec => []TypeOK
<1>1. Inv => TypeOK
  BY DEF Inv
<1> QED
  BY <1>1, Invariance, PTL

\* No listener is on the list twice or after its ping is over, whichever of
\* echoClient and the handler removes it.
THEOREM NoDeadListener == Spec => []ListenersLive
<1>1. Inv => ListenersLive
  <2> SUFFICES ASSUME Inv
               PROVE  ListenersLive
    OBVIOUS
  <2> DEFINE l == listeners
  <2>1. WellFormed(l) /\ Once(l)
    BY DEF Inv, ListInv
  <2>2. /\ Len(List!Items(l)) = Len(List!Chain(l))
        /\ \A i \in 1 .. Len(List!Chain(l)) : List!Items(l)[i] = ItemAt(l, i)
    BY <2>1, ItemsOf
  <2>3. \A i \in 1 .. Len(List!Chain(l)) :
          \/ ItemAt(l, i) = EchoServer
          \/ ItemAt(l, i) = quench /\ user \in {"Send", "Sent", "Wait", "Remove"}
    BY DEF Inv, ListInv, Waiting, On
  <2> QED
    BY <2>1, <2>2, <2>3 DEF ListenersLive, Once
<1> QED
  BY <1>1, Invariance, PTL

\* The walk over the listeners never stands on a node that was deleted, and
\* erases the node of the listener it has informed.
THEOREM WalkIsSafe == Spec => []IteratorLive
<1>1. Inv => IteratorLive
  BY DEF Inv, WalkInv, IteratorLive, Matches
<1> QED
  BY <1>1, Invariance, PTL
------------------------------------------------------------------------------
(***************************************************************************)
(* What the user is told.                                                  *)
(***************************************************************************)
\* The codes of which the listener's byte is none of the others it sends.
CodesTellable == Codes \subseteq 0 .. 252

LEMMA InitAnswer == Init => AnswerInv
BY DEF Init, AnswerInv, Waiting

LEMMA StepAnswer ==
  ASSUME CodesTellable, Inv, AnswerInv, Next
  PROVE  AnswerInv'
<1>0. /\ TypeOK /\ SilenceInv /\ SentInv /\ WalkInv
      /\ user # "Menu" => quench # 0 /\ quench # EchoServer
  BY ListenerAssumption DEF Inv, TypeOK, Pings
<1> USE DEF Waiting
\* What has arrived stays so until the next ping.
<1>a. ASSUME quench' = quench, Arrived \subseteq Arrived',
             answer' = answer, Waiting' => Waiting
      PROVE  AnswerInv'
  BY <1>a DEF AnswerInv
<1>1. CASE NewPing \/ AddListener
  <2>1. Waiting' => answer' = <<>>
    BY <1>0, <1>1 DEF NewPing, AddListener, SilenceInv
  <2> QED
    BY <2>1 DEF AnswerInv
<1>2. CASE Transmit \/ SendReturns
  <2>1. UNCHANGED <<quench, answer, handled, rcv, frame>> /\ Waiting
    BY <1>2 DEF Transmit, SendReturns, receiverVars
  <2> QED
    BY <1>a, <2>1 DEF Arrived
<1>3. CASE NoRoute \/ GetResponse \/ GetTimeout \/ RemListener
  <2>1. ~Waiting'
    BY <1>3 DEF NoRoute, GetResponse, GetTimeout, RemListener
  <2> QED
    BY <2>1 DEF AnswerInv
<1>4. CASE (\E m \in Messages : Arrive(m)) \/ LockListeners \/ Pass \/ Erase
  <2>1. /\ UNCHANGED <<user, quench, answer, handled>>
        /\ rcv # "Idle" => rcv' # "Idle" /\ frame' = frame
    BY <1>4 DEF Arrive, LockListeners, Pass, Erase, userVars
  <2> QED
    BY <1>a, <2>1 DEF Arrived
<1>5. CASE EndLoop
  <2>1. /\ rcv = "Loop" /\ UNCHANGED <<user, quench, answer>>
        /\ rcv' = "Idle"
        /\ handled' = IF frame.quench = quench THEN handled \union {frame.type}
                                               ELSE handled
    BY <1>5 DEF EndLoop, userVars
  <2>2. Arrived \subseteq Arrived'
    BY <2>1 DEF Arrived
  <2> QED
    BY <1>a, <2>1, <2>2
<1>6. CASE Inform
  <2>1. /\ rcv = "Loop" /\ rcv' = "Erase" /\ begin # None
        /\ Matches(Listener, frame)
        /\ answer' = IF answer = <<>> THEN <<AnswerTo(frame)>> ELSE answer
        /\ UNCHANGED <<user, quench, handled, listeners, frame>>
    BY <1>6 DEF Inform, userVars
  <2>2. Arrived' = Arrived
    BY <2>1 DEF Arrived
  <2>3. CASE answer # <<>>
    BY <1>a, <2>1, <2>2, <2>3
  <2>4. CASE answer = <<>>
    <3> SUFFICES ASSUME Waiting', NEW b \in 0 .. 255, answer' = <<b>>
                 PROVE  /\ b # Timeout
                        /\ b = Pong => "EchoReply" \in Arrived'
                        /\ b = TTLExceeded => "TTLExceeded" \in Arrived'
                        /\ b \notin {Pong, TTLExceeded} => "Unreachable" \in Arrived'
      BY DEF AnswerInv
    <3>1. frame.quench = quench
      <4>1. Listener \in On(listeners) /\ Listener = frame.quench /\ Listener # EchoServer
        BY <1>0, <2>1, NodeInChain DEF Inv, ListInv, WalkInv, Matches, Listener
      <4> QED
        BY <4>1 DEF Inv, ListInv
    <3>2. Arrived' = handled \union {frame.type}
      BY <2>1, <3>1 DEF Arrived
    <3>3. b = AnswerTo(frame)
      BY <2>1, <2>4
    <3>4. frame \in Messages /\ frame.type # "EchoRequest"
      BY <1>0, <2>1 DEF TypeOK, Matches
    <3>5. CASE frame.type = "EchoReply"
      BY <3>2, <3>3, <3>4, <3>5, AnswerByte DEF Pong, TTLExceeded, Timeout
    <3>6. CASE frame.type = "TTLExceeded"
      BY <3>2, <3>3, <3>4, <3>6, AnswerByte DEF Pong, TTLExceeded, Timeout
    <3>7. CASE frame.type = "Unreachable"
      <4>1. frame.code \in Codes /\ b = (frame.code + 1) % 256
        BY <3>3, <3>4, <3>7, AnswerByte
      <4>2. frame.code \in 0 .. 252
        BY <4>1 DEF CodesTellable
      <4>3. b = frame.code + 1
        BY <4>1, <4>2
      <4> QED
        BY <3>2, <3>7, <4>2, <4>3 DEF Pong, TTLExceeded, Timeout
    <3> QED
      BY <3>4, <3>5, <3>6, <3>7, AnswerByte
  <2> QED
    BY <2>3, <2>4
<1> QED
  BY <1>1, <1>2, <1>3, <1>4, <1>5, <1>6 DEF Next, UserThread, Receiver

THEOREM AnswerInvariance ==
  ASSUME CodesTellable
  PROVE  Spec => []AnswerInv
<1>1. Inv /\ AnswerInv /\ [Next]_vars => AnswerInv'
  <2> SUFFICES ASSUME Inv, AnswerInv, [Next]_vars
               PROVE  AnswerInv'
    OBVIOUS
  <2>1. CASE UNCHANGED vars
    BY <2>1 DEF vars, userVars, receiverVars, AnswerInv, Waiting, Arrived
  <2> QED
    BY <2>1, StepAnswer
<1> QED
  BY <1>1, InitAnswer, Invariance, PTL DEF Spec

\* What getResponse() returns is the answer to a message which arrived about this
\* ping, and it returns "no answer" only when none was processed, or the list of
\* listeners was lost.
THEOREM UserToldTheTruth ==
  ASSUME CodesTellable
  PROVE  Spec => ToldTheTruth
<1> DEFINE A ==
      user = "Wait" /\ user' = "Remove" =>
       CASE val' = Pong        -> "EchoReply" \in Arrived
         [] val' = TTLExceeded -> "TTLExceeded" \in Arrived
         [] val' = Timeout     -> \/ handled \subseteq {"EchoRequest"}
                                 \/ EchoServer \notin ToSet(List!Items(listeners))
         [] OTHER              -> "Unreachable" \in Arrived
<1>1. ASSUME Inv, AnswerInv, Next
      PROVE  A
  <2> SUFFICES ASSUME user = "Wait", user' = "Remove"
               PROVE  A
    OBVIOUS
  <2>1. CASE GetResponse
    <3>1. PICK b \in 0 .. 255 : answer = <<b>>
      BY <1>1, <2>1 DEF GetResponse, Inv, TypeOK
    <3>2. val' = b
      BY <2>1, <3>1 DEF GetResponse
    <3>3. /\ b # Timeout
          /\ b = Pong => "EchoReply" \in Arrived
          /\ b = TTLExceeded => "TTLExceeded" \in Arrived
          /\ b \notin {Pong, TTLExceeded} => "Unreachable" \in Arrived
      BY <1>1, <3>1 DEF AnswerInv, Waiting
    <3> QED
      BY <3>2, <3>3 DEF Pong, TTLExceeded, Timeout
  <2>2. CASE GetTimeout
    <3>1. val' = Timeout /\ answer = <<>>
      BY <2>2 DEF GetTimeout
    <3>2. EchoServer \in On(listeners) => handled \subseteq {"EchoRequest"}
      BY <1>1, <3>1 DEF Inv, SilenceInv, Waiting
    <3>3. ToSet(List!Items(listeners)) = On(listeners)
      BY <1>1, ItemsOf DEF Inv, ListInv
    <3> QED
      BY <3>1, <3>2, <3>3 DEF Pong, TTLExceeded, Timeout
  <2>3. GetResponse \/ GetTimeout
    BY <1>1 DEF Next, UserThread, Receiver, NewPing, AddListener, Transmit, SendReturns,
                NoRoute, RemListener, Arrive, LockListeners, Pass, Inform, Erase, EndLoop,
                userVars
  <2> QED
    BY <2>1, <2>2, <2>3
<1>2. Inv /\ AnswerInv /\ [Next]_vars => [A]_vars
  BY <1>1
<1> QED
  BY <1>2, Invariance, AnswerInvariance, PTL DEF Spec, ToldTheTruth
=============================================================================
