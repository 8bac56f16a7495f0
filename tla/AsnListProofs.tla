--------------------------- MODULE AsnListProofs ---------------------------
(***************************************************************************)
(* Proofs about the lists of asn-list.c, for any lists, nodes and data.    *)
(***************************************************************************)
EXTENDS AsnListSession, TLAPS

Pointer == Node \cup {NULL}

Call ==
  {NoCall}
    \cup [op : {"free"}, list : used, node : Pointer]
    \cup [op : {"indexOf"}, list : used, what : Data, saved : Pointer, index : Nat]
    \cup [op : {"elmtAt"}, list : used, what : Nat, saved : Pointer, index : Nat]

TypeInv ==
  /\ used \in SUBSET List /\ allocated \in SUBSET Node
  /\ first \in [List -> Pointer] /\ last \in [List -> Pointer] /\ curr \in [List -> Pointer]
  /\ count \in [List -> Nat] /\ at \in [List -> Nat] /\ freed \in Nat
  /\ prev \in [Node -> Pointer] /\ next \in [Node -> Pointer] /\ data \in [Node -> Data \cup {NULL}]
  /\ call \in Call
  /\ order = [l \in List |-> order[l]]
  /\ \A l \in List : order[l] \in [1..count[l] -> Node] /\ at[l] <= count[l]

\* A list that is not allocated is empty.
Unused(l) == first[l] = NULL /\ last[l] = NULL /\ curr[l] = NULL /\ count[l] = 0 /\ at[l] = 0

\* While no routine is looping.
Shape(l) ==
  /\ first[l] = NodeAt(l, 1) /\ last[l] = NodeAt(l, count[l]) /\ curr[l] = NodeAt(l, at[l])
  /\ \A i \in 1..count[l] : next[order[l][i]] = NodeAt(l, i + 1) /\ prev[order[l][i]] = NodeAt(l, i - 1)

Held1 == \A n \in allocated : \E l \in used : \E i \in 1..count[l] : order[l][i] = n
Held2 == \A l \in used : \A i \in 1..count[l] : order[l][i] \in allocated
Apart == \A l1, l2 \in used : \A i \in 1..count[l1], j \in 1..count[l2] :
           order[l1][i] = order[l2][j] => l1 = l2 /\ i = j

IdleInv ==
  /\ TypeInv /\ Idle /\ freed = 0
  /\ \A l \in List \ used : Unused(l)
  /\ \A l \in used : Shape(l)
  /\ Held1 /\ Held2 /\ Apart

LEMMA EmptyOrder == \A S : << >> \in [1..0 -> S]
OBVIOUS

LEMMA InsertKeepsType ==
  ASSUME IdleInv, NEW l \in used, NEW n \in Node \ allocated, NEW d \in Data,
         NEW i \in 1..(count[l] + 1),
         NewNode(l, n, d, NodeAt(l, i - 1), NodeAt(l, i)), InsertedAt(l, i, n)
  PROVE  TypeInv' /\ Idle' /\ freed' = 0
<1>3. order' = [m \in List |-> order'[m]]
  BY DEF InsertedAt, IdleInv, TypeInv
<1> USE DEF IdleInv, TypeInv, NewNode, InsertedAt, Pointer, Idle, NodeAt
<1>1. call' = NoCall /\ call' \in Call'
  BY DEF Call
<1>2. ASSUME NEW m \in List PROVE order'[m] \in [1..count'[m] -> Node] /\ at'[m] <= count'[m]
  <2>1. l \in List /\ n \in Node /\ count[l] \in Nat /\ order[l] \in [1..count[l] -> Node]
    OBVIOUS
  <2>2. count'[m] = IF m = l THEN count[l] + 1 ELSE count[m]
    OBVIOUS
  <2>3. at'[m] = IF m = l THEN i ELSE at[m]
    OBVIOUS
  <2>4. order'[m] = IF m = l THEN [k \in 1..(count[l] + 1) |->
                      IF k < i THEN order[l][k] ELSE IF k = i THEN n ELSE order[l][k - 1]]
                    ELSE order[m]
    OBVIOUS
  <2>5. order[m] \in [1..count[m] -> Node] /\ at[m] <= count[m]
    OBVIOUS
  <2> HIDE DEF IdleInv, TypeInv, NewNode, InsertedAt
  <2>6. CASE m = l
    <3>1. \A k \in 1..(count[l] + 1) :
            (IF k < i THEN order[l][k] ELSE IF k = i THEN n ELSE order[l][k - 1]) \in Node
      BY <2>1
    <3>2. order'[m] \in [1..(count[l] + 1) -> Node]
      BY <2>4, <2>6, <3>1
    <3> QED
      BY <2>1, <2>2, <2>3, <2>6, <3>2
  <2> QED
    BY <2>2, <2>3, <2>4, <2>5, <2>6
<1>4. /\ first' \in [List -> Pointer] /\ last' \in [List -> Pointer] /\ curr' \in [List -> Pointer]
      /\ count' \in [List -> Nat] /\ at' \in [List -> Nat]
  OBVIOUS
<1>5. prev' \in [Node -> Pointer] /\ next' \in [Node -> Pointer] /\ data' \in [Node -> Data \cup {NULL}]
  OBVIOUS
<1>6. used' \in SUBSET List /\ allocated' \in SUBSET Node /\ freed' = 0
  OBVIOUS
<1>7. call' \in Call' /\ Idle'
  BY <1>1
<1>8. TypeInv'
  BY <1>2, <1>3, <1>4, <1>5, <1>6, <1>7 DEF TypeInv
<1> QED BY <1>6, <1>7, <1>8

\* What a new node at place i does, list by list and node by node.
LEMMA InsertFacts ==
  ASSUME IdleInv, NEW l \in used, NEW n \in Node \ allocated, NEW d \in Data,
         NEW i \in 1..(count[l] + 1),
         NewNode(l, n, d, NodeAt(l, i - 1), NodeAt(l, i)), InsertedAt(l, i, n)
  PROVE  /\ used' = used /\ allocated' = allocated \cup {n}
         /\ count'[l] = count[l] + 1 /\ at'[l] = i /\ curr'[l] = n
         /\ \A k \in 1..(count[l] + 1) :
              order'[l][k] = IF k < i THEN order[l][k] ELSE IF k = i THEN n ELSE order[l][k - 1]
         /\ \A m \in List \ {l} : /\ order'[m] = order[m] /\ count'[m] = count[m] /\ at'[m] = at[m]
                                  /\ first'[m] = first[m] /\ last'[m] = last[m] /\ curr'[m] = curr[m]
         /\ first'[l] = IF i = 1 THEN n ELSE first[l]
         /\ last'[l] = IF i = count[l] + 1 THEN n ELSE last[l]
         /\ next'[n] = NodeAt(l, i) /\ prev'[n] = NodeAt(l, i - 1)
         /\ \A m \in used : \A k \in 1..count[m] :
              /\ order[m][k] \in Node \ {n, NULL}
              /\ next'[order[m][k]] = IF m = l /\ k = i - 1 THEN n ELSE next[order[m][k]]
              /\ prev'[order[m][k]] = IF m = l /\ k = i THEN n ELSE prev[order[m][k]]
<1>0. \A m \in used : m \in List /\ count[m] \in Nat
  BY DEF IdleInv, TypeInv
<1>1. \A m \in used : \A k \in 1..count[m] : order[m][k] \in Node \ {n, NULL} /\ m \in List
  <2> SUFFICES ASSUME NEW m \in used, NEW k \in 1..count[m] PROVE order[m][k] \in Node \ {n, NULL}
    BY <1>0
  <2>1. order[m][k] \in allocated /\ allocated \subseteq Node
    BY DEF IdleInv, TypeInv, Held2
  <2> QED BY <2>1, NullAssumption
<1>2. /\ count[l] \in Nat /\ l \in List
      /\ NodeAt(l, i - 1) = NULL <=> i = 1
      /\ NodeAt(l, i) = NULL <=> i = count[l] + 1
  BY <1>0, <1>1 DEF NodeAt
<1>3. \A m \in used : \A k \in 1..count[m] :
        /\ order[m][k] = NodeAt(l, i - 1) <=> m = l /\ k = i - 1
        /\ order[m][k] = NodeAt(l, i) <=> m = l /\ k = i
  BY <1>1, <1>2 DEF NodeAt, IdleInv, Apart
<1>4. \A m \in used : \A k \in 1..count[m] :
        /\ next'[order[m][k]] = IF m = l /\ k = i - 1 THEN n ELSE next[order[m][k]]
        /\ prev'[order[m][k]] = IF m = l /\ k = i THEN n ELSE prev[order[m][k]]
  BY <1>1, <1>3 DEF NewNode
<1>5. next'[n] = NodeAt(l, i) /\ prev'[n] = NodeAt(l, i - 1)
  BY DEF NewNode
<1>6. /\ first'[l] = IF i = 1 THEN n ELSE first[l]
      /\ last'[l] = IF i = count[l] + 1 THEN n ELSE last[l]
  BY <1>2 DEF NewNode, IdleInv, TypeInv
<1>7. /\ used' = used /\ allocated' = allocated \cup {n}
      /\ count'[l] = count[l] + 1 /\ at'[l] = i /\ curr'[l] = n
      /\ \A m \in List \ {l} : /\ order'[m] = order[m] /\ count'[m] = count[m] /\ at'[m] = at[m]
                               /\ first'[m] = first[m] /\ last'[m] = last[m] /\ curr'[m] = curr[m]
  BY <1>2 DEF NewNode, InsertedAt, IdleInv, TypeInv
<1>8. order'[l] = [k \in 1..(count[l] + 1) |->
        IF k < i THEN order[l][k] ELSE IF k = i THEN n ELSE order[l][k - 1]]
  BY <1>2 DEF InsertedAt, IdleInv, TypeInv
<1> QED BY <1>1, <1>4, <1>5, <1>6, <1>7, <1>8

LEMMA InsertKeepsShape ==
  ASSUME IdleInv, NEW l \in used, NEW n \in Node \ allocated, NEW d \in Data,
         NEW i \in 1..(count[l] + 1),
         NewNode(l, n, d, NodeAt(l, i - 1), NodeAt(l, i)), InsertedAt(l, i, n),
         NEW m \in used
  PROVE  Shape(m)'
<1>1. m \in List /\ count[m] \in Nat /\ count[l] \in Nat /\ Shape(m) /\ at[m] \in Nat
  BY DEF IdleInv, TypeInv
<1>2. CASE m # l
  BY <1>1, <1>2, InsertFacts DEF Shape, NodeAt
<1>3. CASE m = l
  <2>1. first'[l] = NodeAt(l, 1)' /\ last'[l] = NodeAt(l, count[l])' /\ curr'[l] = NodeAt(l, at[l])'
    BY <1>1, <1>3, InsertFacts DEF Shape, NodeAt
  <2> SUFFICES ASSUME NEW k \in 1..(count[l] + 1)
               PROVE  next'[order'[l][k]] = NodeAt(l, k + 1)' /\ prev'[order'[l][k]] = NodeAt(l, k - 1)'
    BY <2>1, <1>3, InsertFacts DEF Shape
  <2>2. CASE k < i
    BY <1>1, <1>3, <2>2, InsertFacts DEF Shape, NodeAt
  <2>3. CASE k = i
    BY <1>1, <1>3, <2>3, InsertFacts DEF Shape, NodeAt
  <2>4. CASE k > i
    BY <1>1, <1>3, <2>4, InsertFacts DEF Shape, NodeAt
  <2> QED BY <2>2, <2>3, <2>4
<1> QED BY <1>2, <1>3

LEMMA InsertKeepsNodes ==
  ASSUME IdleInv, NEW l \in used, NEW n \in Node \ allocated, NEW d \in Data,
         NEW i \in 1..(count[l] + 1),
         NewNode(l, n, d, NodeAt(l, i - 1), NodeAt(l, i)), InsertedAt(l, i, n)
  PROVE  Held1' /\ Held2' /\ Apart'
<1>1. \A m \in used : m \in List /\ count[m] \in Nat
  BY DEF IdleInv, TypeInv
<1>2. Held1'
  <2> SUFFICES ASSUME NEW x \in allocated' PROVE \E m \in used : \E k \in 1..count'[m] : order'[m][k] = x
    BY InsertFacts DEF Held1
  <2>1. CASE x = n
    BY <1>1, <2>1, InsertFacts
  <2>2. CASE x # n
    <3>1. PICK m \in used : \E k \in 1..count[m] : order[m][k] = x
      BY <2>2, InsertFacts DEF Held1, IdleInv
    <3>2. PICK k \in 1..count[m] : order[m][k] = x
      BY <3>1
    <3>3. CASE m = l /\ k >= i
      <4>1. k + 1 \in 1..count'[m] /\ order'[m][k + 1] = x
        BY <1>1, <3>2, <3>3, InsertFacts
      <4> QED BY <4>1
    <3>4. CASE ~(m = l /\ k >= i)
      <4>1. k \in 1..count'[m] /\ order'[m][k] = x
        BY <1>1, <3>2, <3>4, InsertFacts
      <4> QED BY <4>1
    <3> QED BY <3>3, <3>4
  <2> QED BY <2>1, <2>2
<1>3. Held2'
  BY <1>1, InsertFacts DEF Held2, IdleInv
<1>4. Apart'
  <2> SUFFICES ASSUME NEW l1 \in used, NEW l2 \in used, NEW j \in 1..count'[l1], NEW k \in 1..count'[l2],
                      order'[l1][j] = order'[l2][k]
               PROVE  l1 = l2 /\ j = k
    BY InsertFacts DEF Apart
  <2> DEFINE Was(m, x) == IF m = l /\ x > i THEN x - 1 ELSE x
  <2>1. \A m \in used : \A x \in 1..count'[m] :
          ~(m = l /\ x = i) => Was(m, x) \in 1..count[m] /\ order'[m][x] = order[m][Was(m, x)]
    BY <1>1, InsertFacts
  <2>2. CASE l1 = l /\ j = i
    BY <1>1, <2>1, <2>2, InsertFacts
  <2>3. CASE l2 = l /\ k = i
    BY <1>1, <2>1, <2>3, InsertFacts
  <2>4. CASE ~(l1 = l /\ j = i) /\ ~(l2 = l /\ k = i)
    <3>1. l1 = l2 /\ Was(l1, j) = Was(l2, k)
      <4> HIDE DEF Was
      <4> QED BY <2>1, <2>4 DEF IdleInv, Apart
    <3> QED BY <1>1, <2>4, <3>1, InsertFacts
  <2> QED BY <2>2, <2>3, <2>4
<1> QED BY <1>2, <1>3, <1>4

LEMMA InsertKeepsInv ==
  ASSUME IdleInv, NEW l \in used, NEW n \in Node \ allocated, NEW d \in Data,
         NEW i \in 1..(count[l] + 1),
         NewNode(l, n, d, NodeAt(l, i - 1), NodeAt(l, i)), InsertedAt(l, i, n)
  PROVE  IdleInv'
<1>1. \A m \in List \ used : Unused(m)'
  BY InsertFacts DEF IdleInv, Unused
<1>2. used' = used
  BY InsertFacts
<1> QED BY <1>1, <1>2, InsertKeepsType, InsertKeepsShape, InsertKeepsNodes DEF IdleInv

\* AppendNode, PrependNode, AddNode and InsertNode, each at its place.
LEMMA InsertPlaces ==
  ASSUME IdleInv, NEW l \in List, NEW n \in Node, NEW d \in Data,
         AppendNode(l, n, d) \/ PrependNode(l, n, d) \/ AddNode(l, n, d) \/ InsertNode(l, n, d)
  PROVE  IdleInv'
<1>1. l \in used /\ n \in Node \ allocated
  BY DEF AppendNode, PrependNode, AddNode, InsertNode, AsnListAppend, AsnListPrepend, AsnListAdd, AsnListInsert, NewNode
<1>2. count[l] \in Nat /\ at[l] \in Nat /\ at[l] <= count[l] /\ Shape(l)
  BY <1>1 DEF IdleInv, TypeInv
<1>3. CASE AppendNode(l, n, d)
  <2>1. NodeAt(l, count[l] + 1) = NULL
    BY <1>2 DEF NodeAt
  <2>2. NewNode(l, n, d, NodeAt(l, count[l] + 1 - 1), NodeAt(l, count[l] + 1)) /\ InsertedAt(l, count[l] + 1, n)
    BY <1>2, <1>3, <2>1 DEF AppendNode, AsnListAppend, Shape
  <2> QED BY <1>1, <1>2, <2>2, InsertKeepsInv
<1>4. CASE PrependNode(l, n, d)
  <2>1. NodeAt(l, 0) = NULL
    BY <1>2 DEF NodeAt
  <2>2. NewNode(l, n, d, NodeAt(l, 1 - 1), NodeAt(l, 1)) /\ InsertedAt(l, 1, n)
    BY <1>2, <1>4, <2>1 DEF PrependNode, AsnListPrepend, Shape
  <2> QED BY <1>1, <1>2, <2>2, InsertKeepsInv
<1>5. CASE AddNode(l, n, d) \/ InsertNode(l, n, d)
  <2>1. at[l] \in 1..count[l] /\ curr[l] = order[l][at[l]]
    BY <1>2, <1>5 DEF AddNode, InsertNode, AsnListAdd, AsnListInsert, Shape, NodeAt
  <2>2. CASE AddNode(l, n, d)
    <3>0. at[l] + 1 - 1 = at[l]
      BY <1>2
    <3>1. curr[l] = NodeAt(l, at[l] + 1 - 1) /\ next[curr[l]] = NodeAt(l, at[l] + 1)
      BY <1>2, <2>1, <3>0 DEF Shape
    <3>2. NewNode(l, n, d, NodeAt(l, at[l] + 1 - 1), NodeAt(l, at[l] + 1)) /\ InsertedAt(l, at[l] + 1, n)
      BY <2>2, <3>1 DEF AddNode, AsnListAdd
    <3> QED BY <1>1, <1>2, <2>1, <3>2, InsertKeepsInv
  <2>3. CASE InsertNode(l, n, d)
    <3>1. NewNode(l, n, d, NodeAt(l, at[l] - 1), NodeAt(l, at[l])) /\ InsertedAt(l, at[l], n)
      BY <1>2, <2>1, <2>3 DEF InsertNode, AsnListInsert, Shape
    <3> QED BY <1>1, <1>2, <2>1, <3>1, InsertKeepsInv
  <2> QED BY <1>5, <2>2, <2>3
<1> QED BY <1>3, <1>4, <1>5

-----------------------------------------------------------------------------
\* Every node of a list, and which of them is the one at a place.
LEMMA NodesOfLists ==
  ASSUME IdleInv
  PROVE  /\ \A m \in used : m \in List /\ count[m] \in Nat /\ at[m] \in 0..count[m]
         /\ \A m \in used : \A k \in 1..count[m] : order[m][k] \in Node /\ order[m][k] # NULL
         /\ \A m \in used, l \in used, i \in Int : \A k \in 1..count[m] :
              order[m][k] = NodeAt(l, i) <=> m = l /\ k = i
<1>1. \A m \in used : m \in List /\ count[m] \in Nat /\ at[m] \in 0..count[m]
  BY DEF IdleInv, TypeInv
<1>2. \A m \in used : \A k \in 1..count[m] : order[m][k] \in Node /\ order[m][k] # NULL
  <2> SUFFICES ASSUME NEW m \in used, NEW k \in 1..count[m] PROVE order[m][k] \in Node /\ order[m][k] # NULL
    OBVIOUS
  <2>1. order[m][k] \in allocated /\ allocated \subseteq Node
    BY DEF IdleInv, TypeInv, Held2
  <2> QED BY <2>1, NullAssumption
<1>3. \A m \in used, l \in used, i \in Int : \A k \in 1..count[m] :
        order[m][k] = NodeAt(l, i) <=> m = l /\ k = i
  BY <1>1, <1>2 DEF NodeAt, IdleInv, Apart
<1> QED BY <1>1, <1>2, <1>3

LEMMA RemoveFacts ==
  ASSUME IdleInv, NEW l \in List, RemoveNode(l)
  PROVE  /\ l \in used /\ at[l] \in 1..count[l] /\ curr[l] = order[l][at[l]]
         /\ used' = used /\ allocated' = allocated \ {curr[l]}
         /\ count'[l] = count[l] - 1 /\ at'[l] = (IF at[l] = count[l] THEN 0 ELSE at[l])
         /\ curr'[l] = NodeAt(l, at[l] + 1)
         /\ \A k \in 1..(count[l] - 1) : order'[l][k] = IF k < at[l] THEN order[l][k] ELSE order[l][k + 1]
         /\ \A m \in List \ {l} : /\ order'[m] = order[m] /\ count'[m] = count[m] /\ at'[m] = at[m]
                                  /\ first'[m] = first[m] /\ last'[m] = last[m] /\ curr'[m] = curr[m]
         /\ first'[l] = IF at[l] = 1 THEN NodeAt(l, 2) ELSE first[l]
         /\ last'[l] = IF at[l] = count[l] THEN NodeAt(l, at[l] - 1) ELSE last[l]
         /\ \A m \in used : \A k \in 1..count[m] : ~(m = l /\ k = at[l]) =>
              /\ next'[order[m][k]] = IF m = l /\ k = at[l] - 1 THEN NodeAt(l, at[l] + 1) ELSE next[order[m][k]]
              /\ prev'[order[m][k]] = IF m = l /\ k = at[l] + 1 THEN NodeAt(l, at[l] - 1) ELSE prev[order[m][k]]
<1>1. l \in used /\ curr[l] # NULL
  BY DEF RemoveNode, AsnListRemove
<1>2. Shape(l) /\ count[l] \in Nat /\ at[l] \in 0..count[l]
  BY <1>1, NodesOfLists DEF IdleInv
<1>3. at[l] \in 1..count[l] /\ curr[l] = order[l][at[l]] /\ curr[l] = NodeAt(l, at[l])
  BY <1>1, <1>2 DEF Shape, NodeAt
<1>4. next[curr[l]] = NodeAt(l, at[l] + 1) /\ prev[curr[l]] = NodeAt(l, at[l] - 1)
  BY <1>2, <1>3 DEF Shape
<1>5. /\ NodeAt(l, at[l] + 1) = NULL <=> at[l] = count[l]
      /\ NodeAt(l, at[l] - 1) = NULL <=> at[l] = 1
  BY <1>1, <1>2, <1>3, NodesOfLists DEF NodeAt
<1>6. \A m \in used : \A k \in 1..count[m] : ~(m = l /\ k = at[l]) =>
        /\ next'[order[m][k]] = IF m = l /\ k = at[l] - 1 THEN NodeAt(l, at[l] + 1) ELSE next[order[m][k]]
        /\ prev'[order[m][k]] = IF m = l /\ k = at[l] + 1 THEN NodeAt(l, at[l] - 1) ELSE prev[order[m][k]]
  <2> SUFFICES ASSUME NEW m \in used, NEW k \in 1..count[m], ~(m = l /\ k = at[l])
               PROVE  /\ next'[order[m][k]] = IF m = l /\ k = at[l] - 1 THEN NodeAt(l, at[l] + 1) ELSE next[order[m][k]]
                      /\ prev'[order[m][k]] = IF m = l /\ k = at[l] + 1 THEN NodeAt(l, at[l] - 1) ELSE prev[order[m][k]]
    OBVIOUS
  <2>1. at[l] \in Int /\ at[l] + 1 \in Int /\ at[l] - 1 \in Int
    BY <1>3
  <2>2. /\ order[m][k] = NodeAt(l, at[l]) <=> m = l /\ k = at[l]
        /\ order[m][k] = NodeAt(l, at[l] + 1) <=> m = l /\ k = at[l] + 1
        /\ order[m][k] = NodeAt(l, at[l] - 1) <=> m = l /\ k = at[l] - 1
    BY <1>1, <2>1, NodesOfLists
  <2> QED BY <1>3, <1>4, <2>2, NodesOfLists DEF RemoveNode, AsnListRemove
<1>7. /\ first'[l] = IF at[l] = 1 THEN NodeAt(l, 2) ELSE first[l]
      /\ last'[l] = IF at[l] = count[l] THEN NodeAt(l, at[l] - 1) ELSE last[l]
      /\ curr'[l] = NodeAt(l, at[l] + 1)
  BY <1>3, <1>4, <1>5 DEF RemoveNode, AsnListRemove, IdleInv, TypeInv
<1>8. /\ used' = used /\ allocated' = allocated \ {curr[l]}
      /\ count'[l] = count[l] - 1 /\ at'[l] = (IF at[l] = count[l] THEN 0 ELSE at[l])
      /\ \A m \in List \ {l} : /\ order'[m] = order[m] /\ count'[m] = count[m] /\ at'[m] = at[m]
                               /\ first'[m] = first[m] /\ last'[m] = last[m] /\ curr'[m] = curr[m]
  BY DEF RemoveNode, AsnListRemove, RemovedAt, IdleInv, TypeInv
<1>9. order'[l] = [k \in 1..(count[l] - 1) |-> IF k < at[l] THEN order[l][k] ELSE order[l][k + 1]]
  BY DEF RemoveNode, RemovedAt, IdleInv, TypeInv
<1> QED BY <1>1, <1>3, <1>6, <1>7, <1>8, <1>9

LEMMA RemoveKeepsType ==
  ASSUME IdleInv, NEW l \in List, RemoveNode(l)
  PROVE  TypeInv' /\ Idle' /\ freed' = 0
<1>1. l \in used /\ at[l] \in 1..count[l] /\ count[l] \in Nat /\ curr[l] \in Node
  BY RemoveFacts, NodesOfLists
<1>2. call' = NoCall /\ call' \in Call'
  BY DEF Call, RemoveNode, AsnListRemove, Idle
<1>3. order'[l] \in [1..count'[l] -> Node]
  <2>1. \A k \in 1..(count[l] - 1) : (IF k < at[l] THEN order[l][k] ELSE order[l][k + 1]) \in Node
    BY <1>1, NodesOfLists
  <2>2. order'[l] = [k \in 1..(count[l] - 1) |-> IF k < at[l] THEN order[l][k] ELSE order[l][k + 1]]
    BY DEF RemoveNode, RemovedAt, IdleInv, TypeInv
  <2> QED BY <2>1, <2>2, RemoveFacts
<1>4. \A m \in List : order'[m] \in [1..count'[m] -> Node] /\ at'[m] <= count'[m]
  <2>1. at'[l] <= count'[l]
    BY <1>1, RemoveFacts
  <2>2. \A m \in List \ {l} : order'[m] \in [1..count'[m] -> Node] /\ at'[m] <= count'[m]
    BY RemoveFacts DEF IdleInv, TypeInv
  <2> QED BY <1>3, <2>1, <2>2
<1>5. order' = [m \in List |-> order'[m]]
  BY DEF RemoveNode, RemovedAt, IdleInv, TypeInv
<1>6. next[curr[l]] \in Pointer /\ prev[curr[l]] \in Pointer
  BY <1>1 DEF IdleInv, TypeInv
<1>7. freed' = 0 /\ used' \in SUBSET List /\ allocated' \in SUBSET Node /\ freed' \in Nat
  BY DEF RemoveNode, AsnListRemove, RemovedAt, IdleInv, TypeInv
<1>8. /\ first' \in [List -> Pointer] /\ last' \in [List -> Pointer] /\ curr' \in [List -> Pointer]
      /\ count' \in [List -> Nat] /\ at' \in [List -> Nat]
  BY <1>1, <1>6 DEF RemoveNode, AsnListRemove, RemovedAt, IdleInv, TypeInv
<1>9. prev' \in [Node -> Pointer] /\ next' \in [Node -> Pointer] /\ data' \in [Node -> Data \cup {NULL}]
  BY <1>1, <1>6 DEF RemoveNode, AsnListRemove, IdleInv, TypeInv, Pointer
<1> QED BY <1>2, <1>4, <1>5, <1>7, <1>8, <1>9 DEF TypeInv, Idle

LEMMA RemoveKeepsShape ==
  ASSUME IdleInv, NEW l \in List, RemoveNode(l), NEW m \in used
  PROVE  Shape(m)'
<1>1. m \in List /\ count[m] \in Nat /\ Shape(m) /\ at[m] \in 0..count[m]
  BY NodesOfLists DEF IdleInv
<1>2. CASE m # l
  BY <1>1, <1>2, RemoveFacts DEF Shape, NodeAt
<1>3. CASE m = l
  <2>1. first'[l] = NodeAt(l, 1)' /\ last'[l] = NodeAt(l, count[l])' /\ curr'[l] = NodeAt(l, at[l])'
    BY <1>1, <1>3, RemoveFacts DEF Shape, NodeAt
  <2> SUFFICES ASSUME NEW k \in 1..(count[l] - 1)
               PROVE  next'[order'[l][k]] = NodeAt(l, k + 1)' /\ prev'[order'[l][k]] = NodeAt(l, k - 1)'
    BY <2>1, <1>3, RemoveFacts DEF Shape
  <2>2. CASE k < at[l]
    BY <1>1, <1>3, <2>2, RemoveFacts DEF Shape, NodeAt
  <2>3. CASE k >= at[l]
    BY <1>1, <1>3, <2>3, RemoveFacts DEF Shape, NodeAt
  <2> QED BY <1>1, <1>3, <2>2, <2>3
<1> QED BY <1>2, <1>3

LEMMA RemoveKeepsNodes ==
  ASSUME IdleInv, NEW l \in List, RemoveNode(l)
  PROVE  Held1' /\ Held2' /\ Apart'
<1>0. l \in used /\ at[l] \in 1..count[l] /\ count[l] \in Nat
  BY RemoveFacts, NodesOfLists
<1> DEFINE Was(m, x) == IF m = l /\ x >= at[l] THEN x + 1 ELSE x
<1>1. \A m \in used : \A x \in 1..count'[m] :
        Was(m, x) \in 1..count[m] /\ order'[m][x] = order[m][Was(m, x)] /\ ~(m = l /\ Was(m, x) = at[l])
  BY <1>0, RemoveFacts, NodesOfLists
<1>2. Held1'
  <2> SUFFICES ASSUME NEW x \in allocated' PROVE \E m \in used : \E k \in 1..count'[m] : order'[m][k] = x
    BY RemoveFacts DEF Held1
  <2>1. PICK m \in used : \E k \in 1..count[m] : order[m][k] = x
    BY RemoveFacts DEF Held1, IdleInv
  <2>2. PICK k \in 1..count[m] : order[m][k] = x
    BY <2>1
  <2>3. ~(m = l /\ k = at[l])
    BY <2>2, RemoveFacts
  <2>4. CASE m = l /\ k > at[l]
    <3>1. k - 1 \in 1..count'[m] /\ order'[m][k - 1] = x
      BY <1>0, <2>2, <2>4, RemoveFacts
    <3> QED BY <3>1
  <2>5. CASE ~(m = l /\ k > at[l])
    <3>1. k \in 1..count'[m] /\ order'[m][k] = x
      BY <1>0, <2>2, <2>3, <2>5, RemoveFacts, NodesOfLists
    <3> QED BY <3>1
  <2> QED BY <2>4, <2>5
<1>3. Held2'
  <2> SUFFICES ASSUME NEW m \in used, NEW x \in 1..count'[m] PROVE order'[m][x] \in allocated \ {curr[l]}
    BY RemoveFacts DEF Held2
  <2> HIDE DEF Was
  <2>1. order[m][Was(m, x)] \in allocated
    BY <1>1 DEF IdleInv, Held2
  <2>2. order[m][Was(m, x)] # order[l][at[l]]
    BY <1>0, <1>1 DEF IdleInv, Apart
  <2> QED BY <1>1, <2>1, <2>2, RemoveFacts
<1>4. Apart'
  <2> SUFFICES ASSUME NEW l1 \in used, NEW l2 \in used, NEW j \in 1..count'[l1], NEW k \in 1..count'[l2],
                      order'[l1][j] = order'[l2][k]
               PROVE  l1 = l2 /\ j = k
    BY RemoveFacts DEF Apart
  <2>1. l1 = l2 /\ Was(l1, j) = Was(l2, k)
    <3> HIDE DEF Was
    <3> QED BY <1>1 DEF IdleInv, Apart
  <2>2. j \in Int /\ k \in Int /\ at[l] \in Int
    BY <1>0, RemoveFacts, NodesOfLists
  <2> QED BY <2>1, <2>2
<1> QED BY <1>2, <1>3, <1>4

LEMMA RemoveKeepsInv == ASSUME IdleInv, NEW l \in List, RemoveNode(l) PROVE IdleInv'
<1>1. \A m \in List \ used : Unused(m)'
  BY RemoveFacts DEF IdleInv, Unused
<1>2. used' = used
  BY RemoveFacts
<1> QED BY <1>1, <1>2, RemoveKeepsType, RemoveKeepsShape, RemoveKeepsNodes DEF IdleInv

-----------------------------------------------------------------------------
LEMMA ConcatFacts ==
  ASSUME IdleInv, NEW l1 \in List, NEW l2 \in List, ConcatLists(l1, l2)
  PROVE  /\ l1 \in used /\ l2 \in used /\ l1 # l2
         /\ used' = used \ {l2} /\ allocated' = allocated
         /\ count'[l1] = count[l1] + count[l2] /\ count'[l2] = 0 /\ at'[l2] = 0
         /\ first'[l2] = NULL /\ last'[l2] = NULL /\ curr'[l2] = NULL
         /\ at'[l1] = IF count[l1] = 0 /\ count[l2] # 0 THEN 1 ELSE at[l1]
         /\ curr'[l1] = IF count[l1] = 0 /\ count[l2] # 0 THEN NodeAt(l2, 1) ELSE curr[l1]
         /\ first'[l1] = IF count[l1] = 0 THEN NodeAt(l2, 1) ELSE NodeAt(l1, 1)
         /\ last'[l1] = IF count[l2] = 0 THEN NodeAt(l1, count[l1]) ELSE NodeAt(l2, count[l2])
         /\ \A k \in 1..(count[l1] + count[l2]) :
              order'[l1][k] = IF k <= count[l1] THEN order[l1][k] ELSE order[l2][k - count[l1]]
         /\ \A m \in List \ {l1, l2} : /\ order'[m] = order[m] /\ count'[m] = count[m] /\ at'[m] = at[m]
                                       /\ first'[m] = first[m] /\ last'[m] = last[m] /\ curr'[m] = curr[m]
         /\ \A m \in used : \A k \in 1..count[m] :
              /\ next'[order[m][k]] = IF m = l1 /\ k = count[l1] /\ count[l2] # 0 THEN NodeAt(l2, 1) ELSE next[order[m][k]]
              /\ prev'[order[m][k]] = IF m = l2 /\ k = 1 /\ count[l1] # 0 THEN NodeAt(l1, count[l1]) ELSE prev[order[m][k]]
<1>1. l1 \in used /\ l2 \in used /\ l1 # l2
  BY DEF ConcatLists, AsnListConcat
<1>2. /\ count[l1] \in Nat /\ count[l2] \in Nat /\ Shape(l1) /\ Shape(l2)
  BY <1>1, NodesOfLists DEF IdleInv
<1>3. /\ first[l1] = NodeAt(l1, 1) /\ last[l1] = NodeAt(l1, count[l1])
      /\ first[l2] = NodeAt(l2, 1) /\ last[l2] = NodeAt(l2, count[l2])
      /\ count[l1] = 0 => NodeAt(l1, 1) = NULL /\ NodeAt(l1, count[l1]) = NULL
      /\ count[l2] = 0 => NodeAt(l2, 1) = NULL /\ NodeAt(l2, count[l2]) = NULL
      /\ count[l1] # 0 => NodeAt(l1, count[l1]) \in Node
      /\ count[l2] # 0 => NodeAt(l2, 1) \in Node
  BY <1>1, <1>2, NodesOfLists DEF Shape, NodeAt
<1>4. \A m \in used : \A k \in 1..count[m] :
        /\ next'[order[m][k]] = IF m = l1 /\ k = count[l1] /\ count[l2] # 0 THEN NodeAt(l2, 1) ELSE next[order[m][k]]
        /\ prev'[order[m][k]] = IF m = l2 /\ k = 1 /\ count[l1] # 0 THEN NodeAt(l1, count[l1]) ELSE prev[order[m][k]]
  <2> SUFFICES ASSUME NEW m \in used, NEW k \in 1..count[m]
               PROVE  /\ next'[order[m][k]] = IF m = l1 /\ k = count[l1] /\ count[l2] # 0 THEN NodeAt(l2, 1) ELSE next[order[m][k]]
                      /\ prev'[order[m][k]] = IF m = l2 /\ k = 1 /\ count[l1] # 0 THEN NodeAt(l1, count[l1]) ELSE prev[order[m][k]]
    OBVIOUS
  <2>1. /\ order[m][k] \in Node
        /\ order[m][k] = NodeAt(l1, count[l1]) <=> m = l1 /\ k = count[l1]
        /\ order[m][k] = NodeAt(l2, 1) <=> m = l2 /\ k = 1
    BY <1>1, <1>2, NodesOfLists
  <2>2. next \in [Node -> Pointer] /\ prev \in [Node -> Pointer] /\ k \in 1..count[m]
    BY DEF IdleInv, TypeInv
  <2>3. CASE count[l1] # 0 /\ count[l2] # 0
    <3>1. /\ next' = [next EXCEPT ![NodeAt(l1, count[l1])] = NodeAt(l2, 1)]
          /\ prev' = [prev EXCEPT ![NodeAt(l2, 1)] = NodeAt(l1, count[l1])]
      BY <1>3, <2>3 DEF ConcatLists, AsnListConcat
    <3> QED BY <1>3, <2>1, <2>2, <2>3, <3>1
  <2>4. CASE ~(count[l1] # 0 /\ count[l2] # 0)
    <3>1. next' = next /\ prev' = prev
      BY <2>4 DEF ConcatLists, AsnListConcat
    <3> QED BY <1>2, <2>4, <3>1
  <2> QED BY <2>3, <2>4
<1>5. /\ first'[l1] = IF count[l1] = 0 THEN NodeAt(l2, 1) ELSE NodeAt(l1, 1)
      /\ last'[l1] = IF count[l2] = 0 THEN NodeAt(l1, count[l1]) ELSE NodeAt(l2, count[l2])
      /\ curr'[l1] = IF count[l1] = 0 /\ count[l2] # 0 THEN NodeAt(l2, 1) ELSE curr[l1]
      /\ first'[l2] = NULL /\ last'[l2] = NULL /\ curr'[l2] = NULL
  BY <1>1, <1>2, <1>3 DEF ConcatLists, AsnListConcat, Joined, IdleInv, TypeInv
<1>6. /\ used' = used \ {l2} /\ allocated' = allocated
      /\ count'[l1] = count[l1] + count[l2] /\ count'[l2] = 0 /\ at'[l2] = 0
      /\ at'[l1] = IF count[l1] = 0 /\ count[l2] # 0 THEN 1 ELSE at[l1]
      /\ \A m \in List \ {l1, l2} : /\ order'[m] = order[m] /\ count'[m] = count[m] /\ at'[m] = at[m]
                                    /\ first'[m] = first[m] /\ last'[m] = last[m] /\ curr'[m] = curr[m]
  BY <1>1 DEF ConcatLists, AsnListConcat, Joined, Concatenated, IdleInv, TypeInv
<1>7. order'[l1] = [k \in 1..(count[l1] + count[l2]) |->
                      IF k <= count[l1] THEN order[l1][k] ELSE order[l2][k - count[l1]]]
  BY <1>1 DEF ConcatLists, Concatenated, IdleInv, TypeInv
<1> QED BY <1>1, <1>4, <1>5, <1>6, <1>7

LEMMA ConcatKeepsType ==
  ASSUME IdleInv, NEW l1 \in List, NEW l2 \in List, ConcatLists(l1, l2)
  PROVE  TypeInv' /\ Idle' /\ freed' = 0
<1>1. l1 # l2 /\ count[l1] \in Nat /\ count[l2] \in Nat /\ at[l1] \in 0..count[l1]
  BY ConcatFacts, NodesOfLists
<1>2. call' = NoCall /\ call' \in Call'
  BY DEF Call, ConcatLists, AsnListConcat, Idle
<1>3. order'[l1] \in [1..count'[l1] -> Node]
  <2>1. \A k \in 1..(count[l1] + count[l2]) :
          (IF k <= count[l1] THEN order[l1][k] ELSE order[l2][k - count[l1]]) \in Node
    BY <1>1, ConcatFacts, NodesOfLists
  <2>2. order'[l1] = [k \in 1..(count[l1] + count[l2]) |->
                        IF k <= count[l1] THEN order[l1][k] ELSE order[l2][k - count[l1]]]
    BY <1>1 DEF ConcatLists, Concatenated, IdleInv, TypeInv
  <2> QED BY <2>1, <2>2, ConcatFacts
<1>4. order'[l2] \in [1..count'[l2] -> Node]
  <2>1. order'[l2] = << >>
    BY <1>1 DEF ConcatLists, Concatenated, IdleInv, TypeInv
  <2> QED BY <2>1, EmptyOrder, ConcatFacts
<1>5. \A m \in List : order'[m] \in [1..count'[m] -> Node] /\ at'[m] <= count'[m]
  <2>1. at'[l1] <= count'[l1] /\ at'[l2] <= count'[l2]
    BY <1>1, ConcatFacts
  <2>2. \A m \in List \ {l1, l2} : order'[m] \in [1..count'[m] -> Node] /\ at'[m] <= count'[m]
    BY ConcatFacts DEF IdleInv, TypeInv
  <2> QED BY <1>3, <1>4, <2>1, <2>2
<1>6. order' = [m \in List |-> order'[m]]
  BY DEF ConcatLists, Concatenated, IdleInv, TypeInv
<1>7. freed' = 0 /\ used' \in SUBSET List /\ allocated' \in SUBSET Node /\ freed' \in Nat
  <2>1. freed = 0 /\ used \in SUBSET List /\ allocated \in SUBSET Node
    BY DEF IdleInv, TypeInv
  <2>2. freed' = freed
    BY DEF ConcatLists, AsnListConcat, Concatenated
  <2>3. used' \subseteq used /\ allocated' = allocated
    BY DEF ConcatLists, AsnListConcat, Concatenated
  <2> QED BY <2>1, <2>2, <2>3
<1>8. /\ first' \in [List -> Pointer] /\ last' \in [List -> Pointer] /\ curr' \in [List -> Pointer]
      /\ count' \in [List -> Nat] /\ at' \in [List -> Nat]
  <2>1. /\ first \in [List -> Pointer] /\ last \in [List -> Pointer] /\ curr \in [List -> Pointer]
        /\ count \in [List -> Nat] /\ at \in [List -> Nat] /\ NULL \in Pointer
    BY DEF IdleInv, TypeInv, Pointer
  <2>2. first' \in [List -> Pointer]
    BY <2>1 DEF ConcatLists, AsnListConcat, Joined
  <2>3. last' \in [List -> Pointer]
    BY <2>1 DEF ConcatLists, AsnListConcat, Joined
  <2>4. curr' \in [List -> Pointer]
    BY <2>1 DEF ConcatLists, AsnListConcat, Joined
  <2>5. count' \in [List -> Nat] /\ at' \in [List -> Nat]
    <3>1. count[l1] \in Nat /\ count[l2] \in Nat /\ at[l1] \in Nat
      BY <1>1, <2>1
    <3>2. count' = [count EXCEPT ![l1] = count[l1] + count[l2], ![l2] = 0]
      BY DEF ConcatLists, AsnListConcat, Joined
    <3>3. at' = [at EXCEPT ![l1] = IF count[l1] = 0 /\ count[l2] # 0 THEN 1 ELSE @, ![l2] = 0]
      BY DEF ConcatLists, Concatenated
    <3> QED BY <2>1, <3>1, <3>2, <3>3
  <2> QED BY <2>2, <2>3, <2>4, <2>5
<1>9. prev' \in [Node -> Pointer] /\ next' \in [Node -> Pointer] /\ data' \in [Node -> Data \cup {NULL}]
  <2>1. first[l2] \in Pointer /\ last[l1] \in Pointer
    BY DEF IdleInv, TypeInv
  <2>2. prev \in [Node -> Pointer] /\ next \in [Node -> Pointer] /\ data \in [Node -> Data \cup {NULL}]
    BY DEF IdleInv, TypeInv
  <2>3. \/ prev' = prev /\ next' = next
        \/ next' = [next EXCEPT ![last[l1]] = first[l2]] /\ prev' = [prev EXCEPT ![first[l2]] = last[l1]]
    BY DEF ConcatLists, AsnListConcat
  <2>4. data' = data
    BY DEF ConcatLists, AsnListConcat
  <2> QED BY <2>1, <2>2, <2>3, <2>4
<1> QED BY <1>2, <1>5, <1>6, <1>7, <1>8, <1>9 DEF TypeInv, Idle

LEMMA ConcatKeepsShape ==
  ASSUME IdleInv, NEW l1 \in List, NEW l2 \in List, ConcatLists(l1, l2), NEW m \in used \ {l2}
  PROVE  Shape(m)'
<1>1. m \in List /\ count[m] \in Nat /\ Shape(m) /\ at[m] \in 0..count[m]
  BY NodesOfLists DEF IdleInv
<1>2. CASE m # l1
  <2>1. /\ order'[m] = order[m] /\ count'[m] = count[m] /\ at'[m] = at[m]
        /\ first'[m] = first[m] /\ last'[m] = last[m] /\ curr'[m] = curr[m]
    BY <1>1, <1>2, ConcatFacts
  <2>2. \A k \in 1..count[m] : next'[order[m][k]] = next[order[m][k]] /\ prev'[order[m][k]] = prev[order[m][k]]
    BY <1>2, ConcatFacts
  <2>3. \A i : NodeAt(m, i)' = NodeAt(m, i)
    BY <2>1 DEF NodeAt
  <2> QED BY <1>1, <2>1, <2>2, <2>3 DEF Shape
<1>3. CASE m = l1
  <2>0. l2 \in used /\ count[l2] \in Nat /\ Shape(l2)
    BY ConcatFacts, NodesOfLists DEF IdleInv
  <2>1. first'[l1] = NodeAt(l1, 1)' /\ last'[l1] = NodeAt(l1, count[l1])' /\ curr'[l1] = NodeAt(l1, at[l1])'
    BY <1>1, <1>3, <2>0, ConcatFacts DEF Shape, NodeAt
  <2> SUFFICES ASSUME NEW k \in 1..(count[l1] + count[l2])
               PROVE  next'[order'[l1][k]] = NodeAt(l1, k + 1)' /\ prev'[order'[l1][k]] = NodeAt(l1, k - 1)'
    BY <2>1, <1>3, ConcatFacts DEF Shape
  <2>2. CASE k < count[l1]
    BY <1>1, <1>3, <2>0, <2>2, ConcatFacts DEF Shape, NodeAt
  <2>3. CASE k = count[l1]
    BY <1>1, <1>3, <2>0, <2>3, ConcatFacts DEF Shape, NodeAt
  <2>4. CASE k > count[l1]
    <3>1. k - count[l1] \in 1..count[l2] /\ (k - count[l1]) + 1 = (k + 1) - count[l1]
          /\ (k - count[l1]) - 1 = (k - 1) - count[l1]
      BY <1>1, <1>3, <2>0, <2>4
    <3>2. order'[l1][k] = order[l2][k - count[l1]]
      BY <1>1, <1>3, <2>0, <2>4, ConcatFacts
    <3>3. next'[order'[l1][k]] = NodeAt(l2, (k + 1) - count[l1])
      BY <2>0, <3>1, <3>2, ConcatFacts DEF Shape
    <3>4. NodeAt(l1, k + 1)' = NodeAt(l2, (k + 1) - count[l1])
      BY <1>1, <1>3, <2>0, <2>4, ConcatFacts DEF NodeAt
    <3>5. prev'[order'[l1][k]] = IF k = count[l1] + 1 /\ count[l1] # 0 THEN NodeAt(l1, count[l1])
                                 ELSE NodeAt(l2, (k - 1) - count[l1])
      BY <1>1, <1>3, <2>0, <3>1, <3>2, ConcatFacts DEF Shape
    <3>6. NodeAt(l1, k - 1)' = IF k = count[l1] + 1 /\ count[l1] # 0 THEN NodeAt(l1, count[l1])
                               ELSE NodeAt(l2, (k - 1) - count[l1])
      BY <1>1, <1>3, <2>0, <2>4, ConcatFacts DEF NodeAt
    <3> QED
      BY <3>3, <3>4, <3>5, <3>6
  <2> QED BY <1>1, <1>3, <2>0, <2>2, <2>3, <2>4
<1> QED BY <1>2, <1>3

LEMMA ConcatKeepsNodes ==
  ASSUME IdleInv, NEW l1 \in List, NEW l2 \in List, ConcatLists(l1, l2)
  PROVE  Held1' /\ Held2' /\ Apart'
<1>0. l1 \in used /\ l2 \in used /\ l1 # l2 /\ count[l1] \in Nat /\ count[l2] \in Nat
  BY ConcatFacts, NodesOfLists
<1> DEFINE WasIn(m, x) == IF m = l1 /\ x > count[l1] THEN l2 ELSE m
           Was(m, x) == IF m = l1 /\ x > count[l1] THEN x - count[l1] ELSE x
<1>1. \A m \in used \ {l2} : \A x \in 1..count'[m] :
        /\ WasIn(m, x) \in used /\ Was(m, x) \in 1..count[WasIn(m, x)]
        /\ order'[m][x] = order[WasIn(m, x)][Was(m, x)]
  BY <1>0, ConcatFacts, NodesOfLists
<1>2. Held1'
  <2> SUFFICES ASSUME NEW x \in allocated
               PROVE \E m \in used \ {l2} : \E k \in 1..count'[m] : order'[m][k] = x
    BY ConcatFacts DEF Held1
  <2>1. PICK m \in used : \E k \in 1..count[m] : order[m][k] = x
    BY DEF Held1, IdleInv
  <2>2. PICK k \in 1..count[m] : order[m][k] = x
    BY <2>1
  <2>3. CASE m = l2
    <3>1. k + count[l1] \in 1..count'[l1] /\ order'[l1][k + count[l1]] = x
      BY <1>0, <2>2, <2>3, ConcatFacts
    <3> QED BY <1>0, <3>1
  <2>4. CASE m # l2
    <3>1. k \in 1..count'[m] /\ order'[m][k] = x
      BY <1>0, <2>2, <2>4, ConcatFacts, NodesOfLists
    <3> QED BY <2>4, <3>1
  <2> QED BY <2>3, <2>4
<1>3. Held2'
  <2> SUFFICES ASSUME NEW m \in used \ {l2}, NEW x \in 1..count'[m] PROVE order'[m][x] \in allocated
    BY ConcatFacts DEF Held2
  <2> HIDE DEF Was, WasIn
  <2> QED BY <1>1 DEF IdleInv, Held2
<1>4. Apart'
  <2> SUFFICES ASSUME NEW m1 \in used \ {l2}, NEW m2 \in used \ {l2}, NEW j \in 1..count'[m1], NEW k \in 1..count'[m2],
                      order'[m1][j] = order'[m2][k]
               PROVE  m1 = m2 /\ j = k
    BY ConcatFacts DEF Apart
  <2>1. WasIn(m1, j) = WasIn(m2, k) /\ Was(m1, j) = Was(m2, k)
    <3> HIDE DEF Was, WasIn
    <3> QED BY <1>1 DEF IdleInv, Apart
  <2>2. j \in Int /\ k \in Int
    OBVIOUS
  <2> QED BY <1>0, <2>1, <2>2
<1> QED BY <1>2, <1>3, <1>4

LEMMA ConcatKeepsInv ==
  ASSUME IdleInv, NEW l1 \in List, NEW l2 \in List, ConcatLists(l1, l2) PROVE IdleInv'
<1>1. \A m \in List \ used' : Unused(m)'
  BY ConcatFacts DEF IdleInv, Unused
<1>2. used' = used \ {l2}
  BY ConcatFacts
<1> QED BY <1>1, <1>2, ConcatKeepsType, ConcatKeepsShape, ConcatKeepsNodes DEF IdleInv

-----------------------------------------------------------------------------
LEMMA MoveKeepsInv ==
  ASSUME IdleInv, NEW l \in List, NEW i \in 0..count[l], SetCurr(l, NodeAt(l, i)), Place(l, i)
  PROVE  IdleInv'
<1>1. TypeInv' /\ Idle' /\ freed' = 0
  <2>1. NodeAt(l, i) \in Pointer /\ i \in Nat
    BY DEF NodeAt, Pointer, IdleInv, TypeInv
  <2>2. /\ first' = first /\ last' = last /\ count' = count /\ order' = order /\ used' = used
        /\ prev' = prev /\ next' = next /\ data' = data /\ allocated' = allocated
        /\ call' = call /\ freed' = freed
        /\ curr' = [curr EXCEPT ![l] = NodeAt(l, i)] /\ at' = [at EXCEPT ![l] = i]
    BY DEF SetCurr, Place, heads, nodes
  <2>3. curr' \in [List -> Pointer] /\ at' \in [List -> Nat] /\ \A m \in List : at'[m] <= count[m]
    BY <2>1, <2>2 DEF IdleInv, TypeInv
  <2>4. Call' = Call
    BY <2>2 DEF Call
  <2> QED BY <2>2, <2>3, <2>4 DEF IdleInv, TypeInv, Idle
<1>2. \A m \in List \ used : Unused(m)'
  BY DEF IdleInv, TypeInv, Unused, SetCurr, Place
<1>3. \A m \in used : Shape(m)'
  <2>1. /\ first' = first /\ last' = last /\ count' = count /\ order' = order
        /\ prev' = prev /\ next' = next
        /\ curr' = [curr EXCEPT ![l] = NodeAt(l, i)] /\ at' = [at EXCEPT ![l] = i]
    BY DEF SetCurr, Place, nodes
  <2>2. ASSUME NEW m \in used PROVE Shape(m)'
    <3>1. Shape(m) /\ m \in List
      BY DEF IdleInv, TypeInv
    <3>2. curr'[m] = IF m = l THEN NodeAt(l, i) ELSE curr[m]
      BY <2>1, <3>1 DEF IdleInv, TypeInv
    <3>3. at'[m] = IF m = l THEN i ELSE at[m]
      BY <2>1, <3>1 DEF IdleInv, TypeInv
    <3>4. \A k : NodeAt(m, k)' = NodeAt(m, k)
      BY <2>1 DEF NodeAt
    <3>5. curr'[m] = NodeAt(m, at[m])'
      BY <2>1, <3>1, <3>2, <3>3 DEF Shape, NodeAt
    <3> QED BY <2>1, <3>1, <3>4, <3>5 DEF Shape
  <2> QED BY <2>2
<1>4. Held1' /\ Held2' /\ Apart'
  BY DEF IdleInv, Held1, Held2, Apart, SetCurr, Place
<1>5. used' = used
  BY DEF SetCurr
<1> QED BY <1>1, <1>2, <1>3, <1>4, <1>5 DEF IdleInv

LEMMA MovePlaces ==
  ASSUME IdleInv, NEW l \in List,
         \/ GoFirst(l) \/ GoLast(l) \/ GoNext(l) \/ GoPrev(l)
         \/ \E i \in 1..count[l] : GoBackTo(l, i)
  PROVE  IdleInv'
<1>1. l \in used
  BY DEF GoFirst, GoLast, GoNext, GoPrev, GoBackTo, AsnListFirst, AsnListLast, AsnListNext, AsnListPrev, SetCurr
<1>2. count[l] \in Nat /\ at[l] \in 0..count[l] /\ Shape(l)
  BY <1>1, NodesOfLists DEF IdleInv
<1>3. curr[l] = NULL <=> at[l] = 0
  BY <1>1, <1>2, NodesOfLists DEF Shape, NodeAt
<1>4. at[l] # 0 => next[curr[l]] = NodeAt(l, at[l] + 1) /\ prev[curr[l]] = NodeAt(l, at[l] - 1)
  BY <1>2 DEF Shape, NodeAt
<1>5. \E i \in 0..count[l] : SetCurr(l, NodeAt(l, i)) /\ Place(l, i)
  <2>1. CASE GoFirst(l)
    <3>1. first[l] = NodeAt(l, IF count[l] = 0 THEN 0 ELSE 1)
      BY <1>2 DEF Shape, NodeAt
    <3> QED BY <1>2, <2>1, <3>1 DEF GoFirst, AsnListFirst
  <2>2. CASE GoLast(l)
    BY <1>2, <2>2 DEF GoLast, AsnListLast, Shape
  <2>3. CASE GoNext(l)
    <3>1. (IF curr[l] = NULL THEN first[l] ELSE next[curr[l]]) = NodeAt(l, IF at[l] = count[l] THEN 0 ELSE at[l] + 1)
      BY <1>2, <1>3, <1>4 DEF Shape, NodeAt
    <3>2. (IF at[l] = count[l] THEN 0 ELSE at[l] + 1) \in 0..count[l]
      BY <1>2
    <3> QED BY <2>3, <3>1, <3>2 DEF GoNext, AsnListNext
  <2>4. CASE GoPrev(l)
    <3>1. (IF curr[l] = NULL THEN last[l] ELSE prev[curr[l]]) = NodeAt(l, IF at[l] = 0 THEN count[l] ELSE at[l] - 1)
      BY <1>2, <1>3, <1>4 DEF Shape
    <3>2. (IF at[l] = 0 THEN count[l] ELSE at[l] - 1) \in 0..count[l]
      BY <1>2
    <3> QED BY <2>4, <3>1, <3>2 DEF GoPrev, AsnListPrev
  <2>5. CASE \E i \in 1..count[l] : GoBackTo(l, i)
    BY <1>2, <2>5 DEF GoBackTo, NodeAt
  <2> QED BY <2>1, <2>2, <2>3, <2>4, <2>5
<1> QED BY <1>5, MoveKeepsInv

LEMMA NewKeepsInv == ASSUME IdleInv, NEW l \in List, NewList(l) PROVE IdleInv'
<1>1. TypeInv' /\ Idle' /\ freed' = 0
  BY DEF IdleInv, TypeInv, NewList, AsnListNew, heads, nodes, promised, Idle, Call, NoCall
<1>2. /\ used' = used \cup {l} /\ l \notin used /\ allocated' = allocated
      /\ order' = order /\ at' = at /\ count' = count /\ first' = first /\ last' = last /\ curr' = curr
      /\ next' = next /\ prev' = prev
  BY DEF NewList, AsnListNew, heads, nodes, promised
<1>3. Unused(l) /\ count[l] = 0
  BY <1>2 DEF IdleInv, Unused
<1>4. \A m \in List \ used' : Unused(m)'
  BY <1>2 DEF IdleInv, Unused
<1>5. \A m \in used' : Shape(m)'
  BY <1>2, <1>3 DEF IdleInv, Shape, NodeAt, Unused
<1>6. Held1' /\ Held2' /\ Apart'
  BY <1>2, <1>3 DEF IdleInv, Held1, Held2, Apart
<1> QED BY <1>1, <1>4, <1>5, <1>6 DEF IdleInv

-----------------------------------------------------------------------------
(* With a loop in progress.                                                *)

LoopInPlace ==
  Looping =>
    /\ call.index <= count[call.list]
    /\ call.op = "indexOf" => \A i \in 1..call.index : data[order[call.list][i]] # call.what
    /\ call.op = "elmtAt" => call.index <= call.what /\ call.what <= count[call.list]

FreeInPlace == IF call.op = "free" THEN freed <= count[call.list] ELSE freed = 0

Inv ==
  /\ TypeInv
  /\ \A l \in List \ used : Unused(l)
  /\ \A l \in used : Chained(l) /\ CurrentInPlace(l)
  /\ EachNodeOnce
  /\ LoopInPlace /\ FreeInPlace

\* IdleInv, where the current node of one list is the loop's.
Links(l) ==
  /\ first[l] = NodeAt(l, 1) /\ last[l] = NodeAt(l, count[l])
  /\ \A i \in 1..count[l] : next[order[l][i]] = NodeAt(l, i + 1) /\ prev[order[l][i]] = NodeAt(l, i - 1)

NotFreeing ==
  /\ TypeInv /\ call.op # "free" /\ freed = 0
  /\ \A l \in List \ used : Unused(l)
  /\ \A l \in used : Links(l) /\ CurrentInPlace(l)
  /\ Held1 /\ Held2 /\ Apart
  /\ LoopInPlace

LEMMA HeldWhole == ASSUME call.op # "free" PROVE \A l : Kept(l) = 1..count[l]
BY DEF Kept, Freeing

LEMMA NotFreeingIsInv == TypeInv /\ call.op # "free" => (Inv <=> NotFreeing)
<1> SUFFICES ASSUME TypeInv, call.op # "free" PROVE Inv <=> NotFreeing
  OBVIOUS
<1>1. \A l \in used : Chained(l) <=> Links(l)
  <2> SUFFICES ASSUME NEW l \in used PROVE Chained(l) <=> Links(l)
    OBVIOUS
  <2>1. count[l] \in Nat
    BY DEF TypeInv
  <2>2. NodeAt(l, 1 - 1) = NULL
    BY DEF NodeAt
  <2> QED BY <2>1, HeldWhole DEF Chained, Links
<1>2. EachNodeOnce <=> Held1 /\ Held2 /\ Apart
  <2>1. EachNodeOnce <=>
          /\ \A n \in Node : n \in allocated <=> \E l \in used : \E i \in 1..count[l] : order[l][i] = n
          /\ Apart
    <3>1. \A l : Kept(l) = 1..count[l]
      BY HeldWhole
    <3>2. ASSUME NEW l1 \in used, NEW l2 \in used
          PROVE  (\A i \in Kept(l1), j \in Kept(l2) : order[l1][i] = order[l2][j] => l1 = l2 /\ i = j)
                   <=> \A i \in 1..count[l1], j \in 1..count[l2] : order[l1][i] = order[l2][j] => l1 = l2 /\ i = j
      BY <3>1
    <3>3. ASSUME NEW n \in Node
          PROVE  (\E l \in used : \E i \in Kept(l) : order[l][i] = n)
                   <=> \E l \in used : \E i \in 1..count[l] : order[l][i] = n
      <4>1. ASSUME NEW l \in used
            PROVE  (\E i \in Kept(l) : order[l][i] = n) <=> \E i \in 1..count[l] : order[l][i] = n
        BY <3>1
      <4> QED BY <4>1
    <3>4. Apart <=> \A l1, l2 \in used : \A i \in Kept(l1), j \in Kept(l2) :
                      order[l1][i] = order[l2][j] => l1 = l2 /\ i = j
      BY <3>2 DEF Apart
    <3> QED BY <3>3, <3>4 DEF EachNodeOnce
  <2>2. \A l \in used : \A i \in 1..count[l] : order[l][i] \in Node
    BY DEF TypeInv
  <2>3. allocated \subseteq Node
    BY DEF TypeInv
  <2>4. Held1 /\ Held2 <=>
          \A n \in Node : n \in allocated <=> \E l \in used : \E i \in 1..count[l] : order[l][i] = n
    BY <2>2, <2>3 DEF Held1, Held2
  <2> QED BY <2>1, <2>4
<1>3. FreeInPlace <=> freed = 0
  BY DEF FreeInPlace
<1> QED BY <1>1, <1>2, <1>3 DEF Inv, NotFreeing

LEMMA IdleIsNotFreeing == Idle => (IdleInv <=> NotFreeing)
<1> SUFFICES ASSUME Idle PROVE IdleInv <=> NotFreeing
  OBVIOUS
<1>1. call.op = "none" /\ ~Looping
  BY DEF Idle, NoCall, Looping
<1>2. \A l : Shape(l) <=> Links(l) /\ CurrentInPlace(l)
  BY <1>1 DEF Shape, Links, CurrentInPlace, Freeing, LoopOver
<1> QED BY <1>1, <1>2 DEF IdleInv, NotFreeing, LoopInPlace

LEMMA IdleSteps ==
  ASSUME IdleInv, IdleInv' PROVE Inv'
<1>1. (TypeInv /\ call.op # "free" => (Inv <=> NotFreeing))'
  BY NotFreeingIsInv, PTL
<1>2. (Idle => (IdleInv <=> NotFreeing))'
  BY IdleIsNotFreeing, PTL
<1> QED BY <1>1, <1>2 DEF IdleInv, Idle, NoCall

-----------------------------------------------------------------------------
(* The steps that begin, continue and end a loop.                          *)

LEMMA AskKeepsInv == ASSUME IdleInv, NEW l \in List, AskForPlace(l) PROVE NotFreeing'
<1>1. l \in used /\ count[l] \in Nat /\ at[l] \in 0..count[l] /\ Shape(l) /\ Idle
  BY NodesOfLists DEF AskForPlace, GetAsnListElmtIndex, GetAsnListElmt, IdleInv
<1>2. /\ first' = first /\ last' = last /\ count' = count /\ next' = next /\ prev' = prev /\ data' = data
      /\ used' = used /\ allocated' = allocated /\ order' = order /\ at' = at /\ freed' = freed
      /\ curr' = [curr EXCEPT ![l] = first[l]]
  <2>1. CASE \E d \in Data : GetAsnListElmtIndex(l, d)
    BY <2>1 DEF AskForPlace, GetAsnListElmtIndex, nodes, promised
  <2>2. CASE \E i \in 0..count[l] : GetAsnListElmt(l, i)
    BY <2>2 DEF AskForPlace, GetAsnListElmt, nodes, promised
  <2> QED BY <2>1, <2>2 DEF AskForPlace
<1>3. /\ call' \in Call' /\ call'.op \in {"indexOf", "elmtAt"}
      /\ call'.list = l /\ call'.saved = curr[l] /\ call'.index = 0
      /\ call'.op = "elmtAt" => call'.what \in 0..count[l]
  <2>1. curr[l] \in Pointer
    BY <1>1 DEF IdleInv, TypeInv
  <2>2. CASE \E d \in Data : GetAsnListElmtIndex(l, d)
    BY <1>1, <1>2, <2>1, <2>2 DEF GetAsnListElmtIndex, Call
  <2>3. CASE \E i \in 0..count[l] : GetAsnListElmt(l, i)
    BY <1>1, <1>2, <2>1, <2>3 DEF GetAsnListElmt, Call
  <2> QED BY <2>2, <2>3 DEF AskForPlace
<1>4. TypeInv' /\ (call.op # "free")' /\ freed' = 0 /\ (\A m \in List \ used : Unused(m))'
  BY <1>1, <1>2, <1>3 DEF IdleInv, TypeInv, Unused
<1>5. Held1' /\ Held2' /\ Apart' /\ \A m \in used : Links(m)'
  BY <1>2 DEF IdleInv, Held1, Held2, Apart, Shape, Links, NodeAt
<1>6. \A m \in used : CurrentInPlace(m)'
  <2> SUFFICES ASSUME NEW m \in used PROVE CurrentInPlace(m)'
    OBVIOUS
  <2>1. NodeAt(m, at[m])' = NodeAt(m, at[m]) /\ m \in List /\ Shape(m)
    BY <1>2, NodesOfLists DEF NodeAt, IdleInv
  <2>2. CASE m = l
    <3>1. curr'[l] = first[l] /\ NodeAt(l, 0 + 1)' = first[l] /\ curr[l] = NodeAt(l, at[l])'
      BY <1>1, <1>2, <2>1, <2>2 DEF Shape, NodeAt, IdleInv, TypeInv
    <3> QED BY <1>3, <2>2, <3>1 DEF CurrentInPlace, Freeing, LoopOver, Looping
  <2>3. CASE m # l
    <3>1. curr'[m] = NodeAt(m, at[m])'
      BY <1>2, <2>1, <2>3 DEF Shape
    <3> QED BY <1>3, <2>3, <3>1 DEF CurrentInPlace, Freeing, LoopOver, Looping
  <2> QED BY <2>2, <2>3
<1>7. LoopInPlace'
  BY <1>1, <1>2, <1>3 DEF LoopInPlace, Looping
<1> QED BY <1>2, <1>4, <1>5, <1>6, <1>7 DEF NotFreeing

\* A loop's step changes its place and the current node only.
LEMMA LoopFacts ==
  ASSUME NotFreeing, LoopStep
  PROVE  /\ Looping /\ call.list \in used /\ call.index \in 0..count[call.list] /\ count[call.list] \in Nat
         /\ curr[call.list] = NodeAt(call.list, call.index + 1) /\ call.saved = NodeAt(call.list, at[call.list])
         /\ call.saved \in Pointer
         /\ first' = first /\ last' = last /\ count' = count /\ next' = next /\ prev' = prev /\ data' = data
         /\ used' = used /\ allocated' = allocated /\ order' = order /\ at' = at /\ freed' = freed
         /\ \A m \in used : m \in List /\ (curr[m] # NodeAt(m, at[m]) => m = call.list)
<1>1. Looping /\ call.list \in used /\ call.index \in Nat /\ call.saved \in Pointer
  BY DEF LoopStep, LoopGoesOn, LoopReturns, NotFreeing, TypeInv, Call, Looping, NoCall
<1>2. count[call.list] \in Nat /\ call.index <= count[call.list]
  BY <1>1 DEF NotFreeing, TypeInv, LoopInPlace
<1>3. \A m \in used : CurrentInPlace(m) /\ ~Freeing(m)
  BY DEF NotFreeing, Freeing
<1>4. \A m \in used : m \in List /\ (curr[m] # NodeAt(m, at[m]) => m = call.list)
  BY <1>3 DEF CurrentInPlace, LoopOver, NotFreeing, TypeInv
<1>5. curr[call.list] = NodeAt(call.list, call.index + 1) /\ call.saved = NodeAt(call.list, at[call.list])
  BY <1>1, <1>3 DEF CurrentInPlace, LoopOver
<1>6. /\ first' = first /\ last' = last /\ count' = count /\ next' = next /\ prev' = prev /\ data' = data
      /\ used' = used /\ allocated' = allocated /\ order' = order /\ at' = at /\ freed' = freed
  BY DEF LoopStep, LoopGoesOn, LoopReturns, nodes, promised
<1> QED BY <1>1, <1>2, <1>4, <1>5, <1>6

LEMMA LoopKeepsInv == ASSUME NotFreeing, LoopStep PROVE NotFreeing'
<1> DEFINE l == call.list
<1>1. \A m \in List \ used : Unused(m)'
  <2>1. \A m \in List \ used : m # call.list
    BY LoopFacts
  <2>2. \A m \in List \ {call.list} : curr'[m] = curr[m]
    BY DEF LoopStep, LoopGoesOn, LoopReturns, NotFreeing, TypeInv
  <2> QED BY <2>1, <2>2, LoopFacts DEF NotFreeing, Unused
<1>2. Held1' /\ Held2' /\ Apart' /\ freed' = 0
  BY LoopFacts DEF NotFreeing, Held1, Held2, Apart
<1>3. \A m \in used : Links(m)'
  BY LoopFacts DEF NotFreeing, Links, NodeAt
<1>4. CASE LoopGoesOn
  <2>1. call.index + 1 \in 1..count[l] /\ curr[l] = order[l][call.index + 1] /\ Links(l)
    BY <1>4, LoopFacts DEF LoopGoesOn, LoopCurr, NodeAt, NotFreeing
  <2>2. next[curr[l]] = NodeAt(l, call.index + 1 + 1)
    BY <2>1 DEF Links
  <2>3. /\ call' = [call EXCEPT !.index = call.index + 1]
        /\ curr' = [curr EXCEPT ![l] = next[curr[l]]]
    BY <1>4 DEF LoopGoesOn
  <2>4. curr' \in [List -> Pointer] /\ call' \in Call'
    <3>1. next[curr[l]] \in Pointer
      <4>1. curr[l] \in Node
        BY <2>1, LoopFacts DEF NotFreeing, TypeInv
      <4> QED BY <4>1 DEF NotFreeing, TypeInv
    <3>2. curr' \in [List -> Pointer]
      BY <2>3, <3>1 DEF NotFreeing, TypeInv
    <3>3. call.index + 1 \in Nat
      BY LoopFacts
    <3>4. call' \in Call
      BY <2>3, <3>3, LoopFacts DEF NotFreeing, TypeInv, Call, Looping, NoCall
    <3>5. Call' = Call
      BY LoopFacts DEF Call, Pointer
    <3> QED BY <3>2, <3>4, <3>5
  <2>5. /\ call'.op = call.op /\ call'.list = l /\ call'.saved = call.saved /\ call'.what = call.what
        /\ call'.index = call.index + 1
    BY <2>3, LoopFacts DEF NotFreeing, TypeInv, Call, Looping, NoCall
  <2>6. TypeInv' /\ call'.op # "free"
    BY <2>4, <2>5, LoopFacts DEF NotFreeing, TypeInv
  <2>7. \A m \in used : CurrentInPlace(m)'
    <3> SUFFICES ASSUME NEW m \in used PROVE CurrentInPlace(m)'
      OBVIOUS
    <3>1. CASE m = l
      <4>1. curr'[l] = NodeAt(l, call.index + 1 + 1)
        BY <2>2, <2>3, LoopFacts DEF NotFreeing, TypeInv
      <4> QED BY <2>5, <2>6, <3>1, <4>1, LoopFacts DEF CurrentInPlace, Freeing, LoopOver, Looping, NodeAt
    <3>2. CASE m # l
      <4>1. curr'[m] = curr[m] /\ curr[m] = NodeAt(m, at[m])
        BY <2>3, <3>2, LoopFacts
      <4> QED BY <2>5, <2>6, <3>2, <4>1, LoopFacts DEF CurrentInPlace, Freeing, LoopOver, Looping, NodeAt
    <3> QED BY <3>1, <3>2
  <2>8. LoopInPlace'
    <3>1. call.op = "indexOf" => data[curr[l]] # call.what
      BY <1>4 DEF LoopGoesOn, LoopFound, LoopCurr
    <3>2. call.op = "elmtAt" => call.index # call.what /\ call.what \in Nat
      BY <1>4, LoopFacts DEF LoopGoesOn, LoopFound, LoopCurr, NotFreeing, TypeInv, Call, NoCall
    <3>3. \A i \in 1..(call.index + 1) : i \in 1..call.index \/ i = call.index + 1
      BY LoopFacts
    <3> QED BY <2>1, <2>5, <3>1, <3>2, <3>3, LoopFacts DEF LoopInPlace, NotFreeing, Looping
  <2> QED BY <1>1, <1>2, <1>3, <2>6, <2>7, <2>8, LoopFacts DEF NotFreeing
<1>5. CASE LoopReturns
  <2>1. call' = NoCall /\ curr' = [curr EXCEPT ![l] = call.saved]
    BY <1>5 DEF LoopReturns
  <2>2. call' \in Call' /\ call'.op = "none"
    BY <2>1 DEF Call, NoCall
  <2>3. curr' \in [List -> Pointer]
    BY <2>1, LoopFacts DEF NotFreeing, TypeInv
  <2>4. TypeInv' /\ call'.op # "free" /\ ~Looping'
    BY <2>2, <2>3, LoopFacts DEF NotFreeing, TypeInv, Looping
  <2>5. \A m \in used : CurrentInPlace(m)'
    <3> SUFFICES ASSUME NEW m \in used PROVE CurrentInPlace(m)'
      OBVIOUS
    <3>1. curr'[m] = NodeAt(m, at[m])
      BY <2>1, LoopFacts DEF NotFreeing, TypeInv
    <3> QED BY <2>4, <3>1, LoopFacts DEF CurrentInPlace, Freeing, LoopOver, NodeAt
  <2> QED BY <1>1, <1>2, <1>3, <2>4, <2>5, LoopFacts DEF NotFreeing, LoopInPlace
<1> QED BY <1>4, <1>5 DEF LoopStep

-----------------------------------------------------------------------------
(* Freeing a list node by node.                                            *)

LEMMA FreeBegins == ASSUME IdleInv, NEW l \in List, FreeList(l) PROVE Inv'
<1>1. /\ l \in used /\ call' = [op |-> "free", list |-> l, node |-> first[l]]
      /\ first' = first /\ last' = last /\ curr' = curr /\ count' = count /\ next' = next /\ prev' = prev
      /\ data' = data /\ used' = used /\ allocated' = allocated /\ order' = order /\ at' = at /\ freed' = freed
  BY DEF FreeList, AsnListFree, heads, nodes, promised
<1>2. count[l] \in Nat /\ freed = 0 /\ Shape(l) /\ first[l] \in Pointer
  BY <1>1 DEF IdleInv, TypeInv
<1>3. TypeInv' /\ (\A m \in List \ used : Unused(m))'
  BY <1>1, <1>2 DEF IdleInv, TypeInv, Unused, Call, Pointer
<1>4. \A m \in used : Kept(m)' = 1..count[m]
  BY <1>1, <1>2 DEF Kept, Freeing
<1>5. \A m \in used : Chained(m)'
  <2> SUFFICES ASSUME NEW m \in used PROVE Chained(m)'
    OBVIOUS
  <2>1. Shape(m) /\ count[m] \in Nat
    BY NodesOfLists DEF IdleInv
  <2> QED BY <1>1, <1>4, <2>1 DEF Chained, Shape, NodeAt
<1>6. \A m \in used : CurrentInPlace(m)'
  <2> SUFFICES ASSUME NEW m \in used PROVE CurrentInPlace(m)'
    OBVIOUS
  <2>1. curr[m] = NodeAt(m, at[m])' /\ first[l] = NodeAt(l, freed + 1)'
    BY <1>1, <1>2 DEF IdleInv, Shape, NodeAt
  <2> QED BY <1>1, <2>1 DEF CurrentInPlace, Freeing, LoopOver, Looping
<1>7. EachNodeOnce'
  <2>1. \A m \in used : \A i \in 1..count[m] : order[m][i] \in Node
    BY NodesOfLists
  <2>2. /\ \A n \in Node : n \in allocated <=> \E m \in used : \E i \in 1..count[m] : order[m][i] = n
        /\ Apart
    <3>1. Held1 /\ Held2 /\ Apart
      BY DEF IdleInv
    <3> QED BY <3>1 DEF Held1, Held2
  <2>3. ASSUME NEW n \in Node
        PROVE  n \in allocated <=> \E m \in used : \E i \in Kept(m)' : order[m][i] = n
    BY <1>4, <2>2
  <2>4. ASSUME NEW m1 \in used, NEW m2 \in used, NEW i \in Kept(m1)', NEW j \in Kept(m2)',
               order[m1][i] = order[m2][j]
        PROVE  m1 = m2 /\ i = j
    <3>1. i \in 1..count[m1] /\ j \in 1..count[m2]
      BY <1>4
    <3> QED BY <2>2, <2>4, <3>1 DEF Apart
  <2> QED BY <1>1, <2>3, <2>4 DEF EachNodeOnce
<1>8. LoopInPlace' /\ FreeInPlace'
  BY <1>1, <1>2 DEF LoopInPlace, FreeInPlace, Looping
<1> QED BY <1>1, <1>3, <1>5, <1>6, <1>7, <1>8 DEF Inv

LEMMA FreeFacts ==
  ASSUME Inv, call.op = "free"
  PROVE  /\ call.list \in used /\ call.list \in List /\ count[call.list] \in Nat
         /\ freed \in 0..count[call.list] /\ call.node = NodeAt(call.list, freed + 1) /\ call.node \in Pointer
         /\ Kept(call.list) = (freed + 1)..count[call.list]
         /\ \A m \in used : m \in List /\ count[m] \in Nat /\ (m # call.list => Kept(m) = 1..count[m])
         /\ \A m \in used : \A i \in Kept(m) : order[m][i] \in Node /\ order[m][i] # NULL
<1>1. call.list \in used /\ call.node \in Pointer
  BY DEF Inv, TypeInv, Call, NoCall
<1>2. \A m \in used : m \in List /\ count[m] \in Nat
  BY DEF Inv, TypeInv
<1>3. freed \in 0..count[call.list]
  BY <1>1, <1>2 DEF Inv, TypeInv, FreeInPlace
<1>4. CurrentInPlace(call.list)
  BY <1>1 DEF Inv
<1>5. call.node = NodeAt(call.list, freed + 1)
  BY <1>4 DEF CurrentInPlace, Freeing
<1>6. \A m \in used : Kept(m) \subseteq 1..count[m]
  BY <1>2, <1>3 DEF Kept, Freeing
<1>7. \A m \in used : \A i \in Kept(m) : order[m][i] \in Node /\ order[m][i] # NULL
  BY <1>2, <1>6, NullAssumption DEF Inv, TypeInv
<1>8. /\ Kept(call.list) = (freed + 1)..count[call.list]
      /\ \A m \in used : m # call.list => Kept(m) = 1..count[m]
  BY <1>2, <1>3 DEF Kept, Freeing
<1> QED BY <1>1, <1>2, <1>3, <1>5, <1>7, <1>8

LEMMA FreeGoesOn == ASSUME Inv, FreeNode, freed' = freed + 1, UNCHANGED <<order, at>> PROVE Inv'
<1> DEFINE l == call.list  n == call.node
<1>1. call.op = "free" /\ n # NULL
  BY DEF FreeNode
<1>2. /\ call' = [call EXCEPT !.node = next[n]] /\ allocated' = allocated \ {n}
      /\ prev' = [prev EXCEPT ![n] = NULL] /\ next' = [next EXCEPT ![n] = NULL] /\ data' = [data EXCEPT ![n] = NULL]
      /\ first' = first /\ last' = last /\ curr' = curr /\ count' = count
      /\ used' = used /\ order' = order /\ at' = at
  BY DEF FreeNode, heads
<1>3. l \in used /\ freed + 1 \in 1..count[l] /\ n = order[l][freed + 1] /\ freed + 1 \in Kept(l) /\ n \in Node
  BY <1>1, FreeFacts DEF NodeAt
<1>4. next[n] = NodeAt(l, freed + 1 + 1)
  BY <1>3 DEF Inv, Chained
<1>5. call' = [op |-> "free", list |-> l, node |-> next[n]]
  <2>1. call \in [op : {"free"}, list : used, node : Pointer]
    BY <1>1 DEF Inv, TypeInv, Call, NoCall
  <2> QED BY <1>2, <2>1
<1>6. TypeInv'
  <2>1. next[n] \in Pointer /\ freed + 1 \in Nat
    BY <1>3 DEF Inv, TypeInv
  <2>2. call' \in Call'
    <3>1. used' = used
      BY <1>2
    <3>2. call' \in [op : {"free"}, list : used', node : Pointer]
      BY <1>3, <1>5, <2>1, <3>1
    <3> QED BY <3>2 DEF Call, Pointer
  <2>3. prev' \in [Node -> Pointer] /\ next' \in [Node -> Pointer] /\ data' \in [Node -> Data \cup {NULL}]
    BY <1>2 DEF Inv, TypeInv, Pointer
  <2> QED BY <1>2, <2>1, <2>2, <2>3 DEF Inv, TypeInv
<1>7. \A m \in used : Kept(m)' = IF m = l THEN (freed + 2)..count[l] ELSE 1..count[m]
  <2>1. freed + 1 + 1 = freed + 2
    BY <1>1, FreeFacts
  <2>2. \A m : Freeing(m)' <=> m = l
    BY <1>5 DEF Freeing
  <2>3. count' = count /\ freed' = freed + 1
    BY <1>2
  <2> QED BY <2>1, <2>2, <2>3 DEF Kept
<1>8. \A m \in used : \A i \in Kept(m)' : i \in Kept(m) /\ order[m][i] # n
  <2>1. \A m \in used : \A i \in Kept(m)' : i \in Kept(m) /\ ~(m = l /\ i = freed + 1)
    BY <1>1, <1>7, FreeFacts
  <2> QED BY <1>3, <2>1 DEF Inv, EachNodeOnce
<1>9. \A m \in used : Chained(m)'
  <2> SUFFICES ASSUME NEW m \in used PROVE Chained(m)'
    OBVIOUS
  <2>1. Chained(m)
    BY DEF Inv
  <2>2. \A i \in Kept(m)' : i - 1 \in Kept(m)' => i - 1 \in Kept(m)
    BY <1>8
  <2>3. \A i \in Kept(m)' : next'[order[m][i]] = next[order[m][i]] /\ prev'[order[m][i]] = prev[order[m][i]]
    BY <1>2, <1>8
  <2>4. \A i : NodeAt(m, i)' = NodeAt(m, i)
    BY <1>2 DEF NodeAt
  <2> QED BY <1>2, <1>8, <2>1, <2>2, <2>3, <2>4 DEF Chained
<1>10. \A m \in used : CurrentInPlace(m)'
  <2> SUFFICES ASSUME NEW m \in used PROVE CurrentInPlace(m)'
    OBVIOUS
  <2>1. \A i : NodeAt(m, i)' = NodeAt(m, i)
    BY <1>2 DEF NodeAt
  <2>2. m # l => curr[m] = NodeAt(m, at[m])
    BY <1>1 DEF Inv, CurrentInPlace, Freeing, LoopOver, Looping
  <2>3. m = l => call'.node = NodeAt(l, freed + 1 + 1)
    BY <1>4, <1>5
  <2> QED BY <1>2, <1>5, <2>1, <2>2, <2>3 DEF CurrentInPlace, Freeing, LoopOver, Looping
<1>11. EachNodeOnce'
  <2>1. ASSUME NEW x \in Node
        PROVE  x \in allocated' <=> \E m \in used : \E i \in Kept(m)' : order[m][i] = x
    <3>1. CASE x = n
      BY <1>2, <1>8, <3>1
    <3>2. CASE x # n
      <4>1. \A m \in used : \A i \in Kept(m) : order[m][i] = x => i \in Kept(m)'
        BY <1>1, <1>3, <1>7, <3>2, FreeFacts
      <4>2. x \in allocated <=> \E m \in used : \E i \in Kept(m) : order[m][i] = x
        BY DEF Inv, EachNodeOnce
      <4> QED BY <1>2, <1>8, <3>2, <4>1, <4>2
    <3> QED BY <3>1, <3>2
  <2>2. ASSUME NEW m1 \in used, NEW m2 \in used, NEW i \in Kept(m1)', NEW j \in Kept(m2)',
               order[m1][i] = order[m2][j]
        PROVE  m1 = m2 /\ i = j
    BY <1>8, <2>2 DEF Inv, EachNodeOnce
  <2> QED BY <1>2, <2>1, <2>2 DEF EachNodeOnce
<1>12. LoopInPlace' /\ FreeInPlace'
  BY <1>2, <1>3, <1>5 DEF LoopInPlace, FreeInPlace, Looping
<1>13. \A m \in List \ used : Unused(m)'
  BY <1>2 DEF Inv, Unused
<1> QED BY <1>2, <1>6, <1>9, <1>10, <1>11, <1>12, <1>13 DEF Inv

LEMMA FreeEnds == ASSUME Inv, FreeHead, Dropped(call.list) PROVE IdleInv'
<1> DEFINE l == call.list
<1>1. /\ call.op = "free" /\ call.node = NULL /\ call' = NoCall /\ used' = used \ {l}
      /\ first' = [first EXCEPT ![l] = NULL] /\ last' = [last EXCEPT ![l] = NULL]
      /\ curr' = [curr EXCEPT ![l] = NULL] /\ count' = [count EXCEPT ![l] = 0]
      /\ next' = next /\ prev' = prev /\ data' = data /\ allocated' = allocated
      /\ order' = [order EXCEPT ![l] = << >>] /\ at' = [at EXCEPT ![l] = 0] /\ freed' = 0
  BY DEF FreeHead, nodes, Dropped
<1>2. l \in used /\ l \in List /\ Kept(l) = {}
  <2>1. freed + 1 \notin 1..count[l]
    BY <1>1, FreeFacts, NullAssumption DEF NodeAt, Inv, TypeInv
  <2>2. freed = count[l] /\ Kept(l) = (freed + 1)..count[l]
    BY <1>1, <2>1, FreeFacts
  <2> QED BY <1>1, <2>2, FreeFacts
<1>3. TypeInv' /\ Idle'
  <2>1. << >> \in [1..0 -> Node]
    BY EmptyOrder
  <2>2. \A m \in List : order'[m] \in [1..count'[m] -> Node] /\ at'[m] <= count'[m]
    BY <1>1, <1>2, <2>1 DEF Inv, TypeInv
  <2>3. call' \in Call' /\ Idle'
    BY <1>1 DEF Call, Idle
  <2> QED BY <1>1, <1>2, <2>2, <2>3 DEF Inv, TypeInv, Pointer
<1>4. \A m \in List \ used' : Unused(m)'
  BY <1>1, <1>2 DEF Inv, TypeInv, Unused
<1>5. \A m \in used \ {l} : /\ m \in List /\ order'[m] = order[m] /\ count'[m] = count[m] /\ at'[m] = at[m]
                            /\ first'[m] = first[m] /\ last'[m] = last[m] /\ curr'[m] = curr[m]
                            /\ count[m] \in Nat /\ Kept(m) = 1..count[m]
  BY <1>1, <1>2, FreeFacts DEF Inv, TypeInv
<1>6. \A m \in used \ {l} : Shape(m)'
  <2> SUFFICES ASSUME NEW m \in used \ {l} PROVE Shape(m)'
    OBVIOUS
  <2>1. Chained(m) /\ curr[m] = NodeAt(m, at[m])
    BY <1>1 DEF Inv, CurrentInPlace, Freeing, LoopOver, Looping
  <2>2. \A i : NodeAt(m, i)' = NodeAt(m, i)
    BY <1>5 DEF NodeAt
  <2>3. NodeAt(m, 1 - 1) = NULL
    BY DEF NodeAt
  <2> QED BY <1>1, <1>5, <2>1, <2>2, <2>3 DEF Chained, Shape
<1>7. Held1' /\ Held2' /\ Apart'
  <2>1. \A x \in allocated : \E m \in used \ {l} : \E i \in 1..count[m] : order[m][i] = x
    <3> SUFFICES ASSUME NEW x \in allocated
                 PROVE  \E m \in used \ {l} : \E i \in 1..count[m] : order[m][i] = x
      OBVIOUS
    <3>1. x \in Node
      BY DEF Inv, TypeInv
    <3>2. PICK m \in used : \E i \in Kept(m) : order[m][i] = x
      BY <3>1 DEF Inv, EachNodeOnce
    <3>3. m # l
      BY <1>2, <3>2
    <3>4. Kept(m) = 1..count[m]
      BY <1>5, <3>3
    <3> QED BY <3>2, <3>3, <3>4
  <2>2. \A m \in used \ {l} : \A i \in 1..count[m] : order[m][i] \in allocated
    BY <1>1, <1>5, FreeFacts DEF Inv, EachNodeOnce
  <2>3. \A m1, m2 \in used \ {l} : \A i \in 1..count[m1], j \in 1..count[m2] :
          order[m1][i] = order[m2][j] => m1 = m2 /\ i = j
    BY <1>5 DEF Inv, EachNodeOnce
  <2> QED BY <1>1, <1>5, <2>1, <2>2, <2>3 DEF Held1, Held2, Apart
<1> QED BY <1>1, <1>3, <1>4, <1>6, <1>7 DEF IdleInv

-----------------------------------------------------------------------------
LEMMA NotIdleOtherwise == ASSUME Inv, Idle PROVE IdleInv
BY NotFreeingIsInv, IdleIsNotFreeing DEF Inv, Idle, NoCall

LEMMA InitInv == SessionInit => Inv
<1> SUFFICES ASSUME SessionInit PROVE IdleInv
  BY NotFreeingIsInv, IdleIsNotFreeing DEF IdleInv, Idle, NoCall
<1>1. << >> \in [1..0 -> Node]
  BY EmptyOrder
<1>2. TypeInv
  BY <1>1 DEF SessionInit, ListInit, TypeInv, Call, Pointer
<1> QED BY <1>2 DEF SessionInit, ListInit, IdleInv, Idle, Unused, Held1, Held2, Apart

LEMMA NextInv == Inv /\ [SessionNext]_sessionVars => Inv'
<1> SUFFICES ASSUME Inv, [SessionNext]_sessionVars PROVE Inv'
  OBVIOUS
<1>1. (TypeInv /\ call.op # "free" => (Inv <=> NotFreeing))'
  BY NotFreeingIsInv, PTL
<1>2. CASE \E l \in List :
             \/ NewList(l) \/ RemoveNode(l) \/ GoFirst(l) \/ GoLast(l) \/ GoNext(l) \/ GoPrev(l)
             \/ \E n \in Node, d \in Data : AppendNode(l, n, d) \/ PrependNode(l, n, d) \/ AddNode(l, n, d) \/ InsertNode(l, n, d)
             \/ \E i \in 1..count[l] : GoBackTo(l, i)
             \/ \E l2 \in List : ConcatLists(l, l2)
  <2>1. PICK l \in List :
             \/ NewList(l) \/ RemoveNode(l) \/ GoFirst(l) \/ GoLast(l) \/ GoNext(l) \/ GoPrev(l)
             \/ \E n \in Node, d \in Data : AppendNode(l, n, d) \/ PrependNode(l, n, d) \/ AddNode(l, n, d) \/ InsertNode(l, n, d)
             \/ \E i \in 1..count[l] : GoBackTo(l, i)
             \/ \E l2 \in List : ConcatLists(l, l2)
    BY <1>2
  <2>2. Idle
    BY <2>1 DEF NewList, AsnListNew, RemoveNode, AsnListRemove, GoFirst, GoLast, GoNext, GoPrev, GoBackTo, SetCurr,
       AsnListFirst, AsnListLast, AsnListNext, AsnListPrev, AppendNode, PrependNode, AddNode, InsertNode, AsnListAppend,
       AsnListPrepend, AsnListAdd, AsnListInsert, NewNode, ConcatLists, AsnListConcat
  <2>3. IdleInv
    BY <2>2, NotIdleOtherwise
  <2>4. IdleInv'
    BY <2>1, <2>3, NewKeepsInv, RemoveKeepsInv, MovePlaces, InsertPlaces, ConcatKeepsInv
  <2> QED BY <2>3, <2>4, IdleSteps
<1>3. CASE \E l \in List : AskForPlace(l)
  <2>1. Idle
    BY <1>3 DEF AskForPlace, GetAsnListElmtIndex, GetAsnListElmt
  <2>2. NotFreeing'
    BY <1>3, <2>1, NotIdleOtherwise, AskKeepsInv
  <2> QED BY <1>1, <2>2 DEF NotFreeing
<1>4. CASE \E l \in List : FreeList(l)
  <2>1. Idle
    BY <1>4 DEF FreeList, AsnListFree
  <2> QED BY <1>4, <2>1, NotIdleOtherwise, FreeBegins
<1>5. CASE LoopStep
  <2>1. call.op # "free"
    BY <1>5 DEF LoopStep, LoopGoesOn, LoopReturns, Looping
  <2>2. NotFreeing'
    BY <1>5, <2>1, NotFreeingIsInv, LoopKeepsInv DEF Inv
  <2> QED BY <1>1, <2>2 DEF NotFreeing
<1>6. CASE FreeStep
  <2>1. CASE FreeNode /\ freed' = freed + 1 /\ UNCHANGED <<order, at>>
    BY <2>1, FreeGoesOn
  <2>2. CASE FreeHead /\ Dropped(call.list)
    <3>1. IdleInv'
      BY <2>2, FreeEnds
    <3>2. (Idle => (IdleInv <=> NotFreeing))'
      BY IdleIsNotFreeing, PTL
    <3> QED BY <1>1, <3>1, <3>2 DEF IdleInv, Idle, NoCall
  <2> QED BY <1>6, <2>1, <2>2 DEF FreeStep
<1>7. CASE UNCHANGED sessionVars
  <2> USE <1>7 DEF sessionVars, listVars, heads, nodes, promised
  <2>1. TypeInv' /\ LoopInPlace' /\ FreeInPlace' /\ (\A l \in List \ used : Unused(l))'
    BY DEF Inv, TypeInv, Call, Pointer, LoopInPlace, FreeInPlace, Looping, Unused
  <2>2. (\A l \in used : Chained(l) /\ CurrentInPlace(l))' /\ EachNodeOnce'
    BY DEF Inv, Chained, CurrentInPlace, EachNodeOnce, Kept, Freeing, LoopOver, Looping, NodeAt
  <2> QED BY <2>1, <2>2 DEF Inv
<1> QED BY <1>2, <1>3, <1>4, <1>5, <1>6, <1>7 DEF SessionNext

\* What the loop of a question has passed over decides its answer.
LEMMA InvAnswers == Inv => AnswerIsRight
<1> SUFFICES ASSUME Inv, Looping, LoopCurr = NULL \/ LoopFound
             PROVE  IF call.op = "elmtAt"
                    THEN LoopAnswer = IF call.what < count[call.list] THEN data[order[call.list][call.what + 1]] ELSE NULL
                    ELSE \/ /\ LoopAnswer \in 0..(count[call.list] - 1)
                            /\ data[order[call.list][LoopAnswer + 1]] = call.what
                            /\ \A i \in 1..LoopAnswer : data[order[call.list][i]] # call.what
                         \/ LoopAnswer = -1 /\ \A i \in 1..count[call.list] : data[order[call.list][i]] # call.what
  BY DEF AnswerIsRight
<1> DEFINE l == call.list
<1>1. /\ l \in used /\ count[l] \in Nat /\ call.index \in 0..count[l] /\ LoopCurr = NodeAt(l, call.index + 1)
      /\ call.op = "elmtAt" => call.what \in Nat
  <2>1. l \in used /\ call.index \in Nat /\ (call.op = "elmtAt" => call.what \in Nat)
    BY DEF Inv, TypeInv, Call, NoCall, Looping
  <2>2. count[l] \in Nat /\ call.index <= count[l] /\ CurrentInPlace(l)
    BY <2>1 DEF Inv, TypeInv, LoopInPlace
  <2> QED BY <2>1, <2>2 DEF CurrentInPlace, LoopOver, LoopCurr
<1>2. LoopCurr # NULL <=> call.index < count[l]
  BY <1>1, NullAssumption DEF NodeAt, Inv, TypeInv
<1>3. call.index < count[l] => LoopCurr = order[l][call.index + 1]
  BY <1>1 DEF NodeAt
<1>4. CASE call.op = "elmtAt"
  BY <1>1, <1>2, <1>3, <1>4 DEF LoopAnswer, LoopFound, Inv, LoopInPlace
<1>5. CASE call.op = "indexOf"
  BY <1>1, <1>2, <1>3, <1>5 DEF LoopAnswer, LoopFound, Inv, LoopInPlace
<1> QED BY <1>4, <1>5 DEF Looping

(* For any lists, nodes and data, and any sequence of calls, the pointers  *)
(* are the sequences that the callers count on (asn-list.c).               *)
THEOREM PointersAreSequences == SessionSpec => []ListsAreSequences
<1>1. Inv => ListsAreSequences
  BY InvAnswers DEF Inv, ListsAreSequences
<1> QED BY <1>1, InitInv, NextInv, PTL DEF SessionSpec
=============================================================================
