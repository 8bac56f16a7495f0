------------------------------ MODULE AsnList ------------------------------
(***************************************************************************)
(* The doubly linked lists of the C library (asn-list.c), of which the     *)
(* compiler and the type tables are made.  A list has one current node,    *)
(* which every routine and every loop over the list shares.                *)
(*                                                                         *)
(* A node holds one pointer, written by the caller into the place that the *)
(* allocating routine returned: here with the allocation.  A routine that  *)
(* returns a place returns that of the current node, NULL without one.     *)
(***************************************************************************)
EXTENDS Integers

CONSTANTS List, Node, Data, NULL

ASSUME NullAssumption == NULL \notin Node

\* A loop over a list ends early at a node that holds NULL: no caller
\* leaves one in a list.
ASSUME DataAssumption == NULL \notin Data

VARIABLES
  first, last, curr, count,   \* struct AsnList
  prev, next, data,           \* struct AsnListNode
  used, allocated,            \* the lists and nodes that are allocated
  call                        \* the routine that loops over nodes, if any

heads == <<first, last, curr, count>>
nodes == <<prev, next, data>>
listVars == <<heads, nodes, used, allocated, call>>

NoCall == [op |-> "none"]
Idle   == call = NoCall

\* Memory that is not allocated holds NULL: nothing reads it.
ListInit ==
  /\ first = [l \in List |-> NULL] /\ last = first /\ curr = first /\ count = [l \in List |-> 0]
  /\ prev = [n \in Node |-> NULL] /\ next = prev /\ data = prev
  /\ used = {} /\ allocated = {} /\ call = NoCall

-----------------------------------------------------------------------------
(* Allocating and inserting                                                *)

AsnListNew(l) ==
  /\ Idle /\ l \notin used
  /\ used' = used \cup {l}
  /\ UNCHANGED <<heads, nodes, allocated, call>>

\* A new node n between p and s, NULL at an end of the list.
NewNode(l, n, d, p, s) ==
  /\ Idle /\ l \in used /\ n \notin allocated
  /\ allocated' = allocated \cup {n}
  /\ prev' = [m \in Node |-> IF m = n THEN p ELSE IF m = s THEN n ELSE prev[m]]
  /\ next' = [m \in Node |-> IF m = n THEN s ELSE IF m = p THEN n ELSE next[m]]
  /\ data' = [data EXCEPT ![n] = d]
  /\ first' = IF p = NULL THEN [first EXCEPT ![l] = n] ELSE first
  /\ last'  = IF s = NULL THEN [last EXCEPT ![l] = n] ELSE last
  /\ curr'  = [curr EXCEPT ![l] = n]
  /\ count' = [count EXCEPT ![l] = @ + 1]
  /\ UNCHANGED <<used, call>>

AsnListAppend(l, n, d)  == NewNode(l, n, d, last[l], NULL)
AsnListPrepend(l, n, d) == NewNode(l, n, d, NULL, first[l])
AsnListAdd(l, n, d)     == curr[l] # NULL /\ NewNode(l, n, d, curr[l], next[curr[l]])
AsnListInsert(l, n, d)  == curr[l] # NULL /\ NewNode(l, n, d, prev[curr[l]], curr[l])

-----------------------------------------------------------------------------
(* Removing and joining                                                    *)

\* A plausible slip: the last pointer is not moved when the last node goes.
AsnListRemoveKeepsLast(l) ==
  LET c == curr[l] IN
  /\ Idle /\ l \in used /\ c # NULL
  /\ prev' = [m \in Node |-> IF m = c THEN NULL ELSE IF m = next[c] THEN prev[c] ELSE prev[m]]
  /\ next' = [m \in Node |-> IF m = c THEN NULL ELSE IF m = prev[c] THEN next[c] ELSE next[m]]
  /\ data' = [data EXCEPT ![c] = NULL]
  /\ first' = IF prev[c] = NULL THEN [first EXCEPT ![l] = next[c]] ELSE first
  /\ curr'  = [curr EXCEPT ![l] = next[c]]
  /\ count' = [count EXCEPT ![l] = @ - 1]
  /\ allocated' = allocated \ {c}
  /\ UNCHANGED <<last, used, call>>

\* The current node becomes the next one.
AsnListRemove(l) ==
  LET c == curr[l] IN
  /\ Idle /\ l \in used /\ c # NULL
  /\ prev' = [m \in Node |-> IF m = c THEN NULL ELSE IF m = next[c] THEN prev[c] ELSE prev[m]]
  /\ next' = [m \in Node |-> IF m = c THEN NULL ELSE IF m = prev[c] THEN next[c] ELSE next[m]]
  /\ data' = [data EXCEPT ![c] = NULL]
  /\ last'  = IF next[c] = NULL THEN [last EXCEPT ![l] = prev[c]] ELSE last
  /\ first' = IF prev[c] = NULL THEN [first EXCEPT ![l] = next[c]] ELSE first
  /\ curr'  = [curr EXCEPT ![l] = next[c]]
  /\ count' = [count EXCEPT ![l] = @ - 1]
  /\ allocated' = allocated \ {c}
  /\ UNCHANGED <<used, call>>

\* What AsnListConcat leaves in a list, and in the other whose head the
\* callers free.
Joined(f, l1, l2, new, unset) == [f EXCEPT ![l1] = new, ![l2] = unset]

AsnListConcat(l1, l2) ==
  /\ Idle /\ {l1, l2} \subseteq used /\ l1 # l2
  /\ used' = used \ {l2}
  /\ first' = Joined(first, l1, l2, IF count[l2] # 0 /\ count[l1] = 0 THEN first[l2] ELSE first[l1], NULL)
  /\ last'  = Joined(last, l1, l2, IF count[l2] # 0 THEN last[l2] ELSE last[l1], NULL)
  /\ curr'  = Joined(curr, l1, l2, IF count[l2] # 0 /\ count[l1] = 0 THEN first[l2] ELSE curr[l1], NULL)
  /\ count' = Joined(count, l1, l2, count[l1] + count[l2], 0)
  /\ IF count[l1] # 0 /\ count[l2] # 0
     THEN /\ next' = [next EXCEPT ![last[l1]] = first[l2]]
          /\ prev' = [prev EXCEPT ![first[l2]] = last[l1]]
     ELSE UNCHANGED <<prev, next>>
  /\ UNCHANGED <<data, allocated, call>>

\* AsnListFree: node by node, then the head.
AsnListFree(l) ==
  /\ Idle /\ l \in used
  /\ call' = [op |-> "free", list |-> l, node |-> first[l]]
  /\ UNCHANGED <<heads, nodes, used, allocated>>

FreeNode ==
  /\ call.op = "free" /\ call.node # NULL
  /\ allocated' = allocated \ {call.node}
  /\ call' = [call EXCEPT !.node = next[call.node]]
  /\ prev' = [prev EXCEPT ![call.node] = NULL]
  /\ next' = [next EXCEPT ![call.node] = NULL]
  /\ data' = [data EXCEPT ![call.node] = NULL]
  /\ UNCHANGED <<heads, used>>

FreeHead ==
  /\ call.op = "free" /\ call.node = NULL
  /\ used' = used \ {call.list}
  /\ first' = [first EXCEPT ![call.list] = NULL] /\ last' = [last EXCEPT ![call.list] = NULL]
  /\ curr' = [curr EXCEPT ![call.list] = NULL] /\ count' = [count EXCEPT ![call.list] = 0]
  /\ call' = NoCall
  /\ UNCHANGED <<nodes, allocated>>

-----------------------------------------------------------------------------
(* Moving the current node                                                 *)

SetCurr(l, n) ==
  /\ Idle /\ l \in used
  /\ curr' = [curr EXCEPT ![l] = n]
  /\ UNCHANGED <<first, last, count, nodes, used, allocated, call>>

AsnListFirst(l) == SetCurr(l, first[l])
AsnListLast(l)  == SetCurr(l, last[l])
AsnListNext(l)  == SetCurr(l, IF curr[l] = NULL THEN first[l] ELSE next[curr[l]])
AsnListPrev(l)  == SetCurr(l, IF curr[l] = NULL THEN last[l] ELSE prev[curr[l]])

-----------------------------------------------------------------------------
(* The loops of GetAsnListElmtIndex and GetAsnListElmt.  They use the      *)
(* current node, and set it back when they return.                         *)

\* GetAsnListElmt asks for nothing when the index is above the count.
GetAsnListElmtIndex(l, elmt) ==
  /\ Idle /\ l \in used
  /\ call' = [op |-> "indexOf", list |-> l, what |-> elmt, saved |-> curr[l], index |-> 0]
  /\ curr' = [curr EXCEPT ![l] = first[l]]
  /\ UNCHANGED <<first, last, count, nodes, used, allocated>>

GetAsnListElmt(l, i) ==
  /\ Idle /\ l \in used /\ i <= count[l]
  /\ call' = [op |-> "elmtAt", list |-> l, what |-> i, saved |-> curr[l], index |-> 0]
  /\ curr' = [curr EXCEPT ![l] = first[l]]
  /\ UNCHANGED <<first, last, count, nodes, used, allocated>>

Looping == call.op \in {"indexOf", "elmtAt"}
LoopCurr == curr[call.list]

LoopFound ==
  /\ LoopCurr # NULL
  /\ \/ call.op = "indexOf" /\ data[LoopCurr] = call.what
     \/ call.op = "elmtAt" /\ call.index = call.what

LoopGoesOn ==
  /\ Looping /\ LoopCurr # NULL /\ ~LoopFound
  /\ call' = [call EXCEPT !.index = @ + 1]
  /\ curr' = [curr EXCEPT ![call.list] = next[@]]
  /\ UNCHANGED <<first, last, count, nodes, used, allocated>>

\* -1 and NULL when the loop has come to the end.
LoopAnswer ==
  IF call.op = "indexOf" THEN IF LoopFound THEN call.index ELSE -1
  ELSE IF LoopFound THEN data[LoopCurr] ELSE NULL

LoopReturns ==
  /\ Looping /\ (LoopCurr = NULL \/ LoopFound)
  /\ call' = NoCall
  /\ curr' = [curr EXCEPT ![call.list] = call.saved]
  /\ UNCHANGED <<first, last, count, nodes, used, allocated>>
=============================================================================
