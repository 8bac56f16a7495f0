--------------------------- MODULE AsnListSession ---------------------------
(***************************************************************************)
(* Callers of asn-list.c, and the sequences of nodes they think their      *)
(* lists are: order and at say what each routine promises, and decide      *)
(* nothing.                                                                *)
(***************************************************************************)
EXTENDS AsnList

VARIABLES order,   \* the nodes of each list: order[l] has count[l] of them
          at,      \* the place of the current node, 0 without one
          freed    \* how many nodes AsnListFree has freed

promised == <<order, at, freed>>
sessionVars == <<listVars, promised>>

SessionInit ==
  /\ ListInit
  /\ order = [l \in List |-> << >>] /\ at = [l \in List |-> 0] /\ freed = 0

-----------------------------------------------------------------------------
\* What the routines do to a sequence.
Place(l, i) ==
  /\ at' = [at EXCEPT ![l] = i]
  /\ UNCHANGED <<order, freed>>

InsertedAt(l, i, n) ==
  /\ order' = [order EXCEPT ![l] = [k \in 1..(count[l] + 1) |->
                 IF k < i THEN order[l][k] ELSE IF k = i THEN n ELSE order[l][k - 1]]]
  /\ at' = [at EXCEPT ![l] = i]
  /\ UNCHANGED freed

RemovedAt(l, i) ==
  /\ order' = [order EXCEPT ![l] = [k \in 1..(count[l] - 1) |->
                 IF k < i THEN order[l][k] ELSE order[l][k + 1]]]
  /\ at' = [at EXCEPT ![l] = IF i = count[l] THEN 0 ELSE i]
  /\ UNCHANGED freed

Concatenated(l1, l2) ==
  /\ order' = [order EXCEPT
       ![l1] = [k \in 1..(count[l1] + count[l2]) |->
                  IF k <= count[l1] THEN order[l1][k] ELSE order[l2][k - count[l1]]],
       ![l2] = << >>]
  /\ at' = [at EXCEPT ![l1] = IF count[l1] = 0 /\ count[l2] # 0 THEN 1 ELSE @, ![l2] = 0]
  /\ UNCHANGED freed

Dropped(l) ==
  /\ order' = [order EXCEPT ![l] = << >>] /\ at' = [at EXCEPT ![l] = 0]
  /\ freed' = 0

-----------------------------------------------------------------------------
NewList(l)  == AsnListNew(l) /\ UNCHANGED promised
AppendNode(l, n, d)  == AsnListAppend(l, n, d) /\ InsertedAt(l, count[l] + 1, n)
PrependNode(l, n, d) == AsnListPrepend(l, n, d) /\ InsertedAt(l, 1, n)
AddNode(l, n, d)     == AsnListAdd(l, n, d) /\ InsertedAt(l, at[l] + 1, n)
InsertNode(l, n, d)  == AsnListInsert(l, n, d) /\ InsertedAt(l, at[l], n)
RemoveNode(l)  == AsnListRemove(l) /\ RemovedAt(l, at[l])
ConcatLists(l1, l2) == AsnListConcat(l1, l2) /\ Concatenated(l1, l2)

GoFirst(l) == AsnListFirst(l) /\ Place(l, IF count[l] = 0 THEN 0 ELSE 1)
GoLast(l)  == AsnListLast(l) /\ Place(l, count[l])
GoNext(l)  == AsnListNext(l) /\ Place(l, IF at[l] = count[l] THEN 0 ELSE at[l] + 1)
GoPrev(l)  == AsnListPrev(l) /\ Place(l, IF at[l] = 0 THEN count[l] ELSE at[l] - 1)

\* SET_CURR_LIST_NODE, to a node of the list that the caller kept.
GoBackTo(l, i) == SetCurr(l, order[l][i]) /\ Place(l, i)

AskForPlace(l) ==
  /\ \/ \E d \in Data : GetAsnListElmtIndex(l, d)
     \/ \E i \in 0..count[l] : GetAsnListElmt(l, i)
  /\ UNCHANGED promised
LoopStep == (LoopGoesOn \/ LoopReturns) /\ UNCHANGED promised

FreeList(l) == AsnListFree(l) /\ UNCHANGED promised
FreeStep == \/ FreeNode /\ freed' = freed + 1 /\ UNCHANGED <<order, at>>
            \/ FreeHead /\ Dropped(call.list)

SessionNext ==
  \/ \E l \in List :
       \/ NewList(l) \/ RemoveNode(l) \/ FreeList(l) \/ AskForPlace(l)
       \/ GoFirst(l) \/ GoLast(l) \/ GoNext(l) \/ GoPrev(l)
       \/ \E n \in Node, d \in Data :
            AppendNode(l, n, d) \/ PrependNode(l, n, d) \/ AddNode(l, n, d) \/ InsertNode(l, n, d)
       \/ \E i \in 1..count[l] : GoBackTo(l, i)
       \/ \E l2 \in List : ConcatLists(l, l2)
  \/ LoopStep \/ FreeStep

SessionSpec == SessionInit /\ [][SessionNext]_sessionVars

-----------------------------------------------------------------------------
NodeAt(l, i) == IF i \in 1..count[l] THEN order[l][i] ELSE NULL

Freeing(l) == call.op = "free" /\ call.list = l
LoopOver(l) == Looping /\ call.list = l

\* The places of the nodes that are not freed yet.
Kept(l) == (IF Freeing(l) THEN freed + 1 ELSE 1)..count[l]

Chained(l) ==
  /\ first[l] = NodeAt(l, 1) /\ last[l] = NodeAt(l, count[l])
  /\ \A i \in Kept(l) :
       /\ next[order[l][i]] = NodeAt(l, i + 1)
       /\ i = 1 \/ i - 1 \in Kept(l) => prev[order[l][i]] = NodeAt(l, i - 1)

CurrentInPlace(l) ==
  /\ ~Freeing(l) /\ ~LoopOver(l) => curr[l] = NodeAt(l, at[l])
  /\ LoopOver(l) => curr[l] = NodeAt(l, call.index + 1) /\ call.saved = NodeAt(l, at[l])
  /\ Freeing(l) => call.node = NodeAt(l, freed + 1)

\* No node is in two lists or twice in one, none is lost, none that is freed
\* is left.
EachNodeOnce ==
  /\ \A n \in Node : n \in allocated <=> \E l \in used : \E i \in Kept(l) : order[l][i] = n
  /\ \A l1, l2 \in used : \A i \in Kept(l1), j \in Kept(l2) :
       order[l1][i] = order[l2][j] => l1 = l2 /\ i = j

AnswerIsRight ==
  LET l == call.list IN
  Looping /\ (LoopCurr = NULL \/ LoopFound) =>
    IF call.op = "elmtAt"
    THEN LoopAnswer = IF call.what < count[l] THEN data[order[l][call.what + 1]] ELSE NULL
    ELSE \/ /\ LoopAnswer \in 0..(count[l] - 1) /\ data[order[l][LoopAnswer + 1]] = call.what
            /\ \A i \in 1..LoopAnswer : data[order[l][i]] # call.what
         \/ LoopAnswer = -1 /\ \A i \in 1..count[l] : data[order[l][i]] # call.what

(* Whatever is called, in whatever order, the pointers of a list are the   *)
(* sequence that its callers count on: forwards, backwards, from both      *)
(* ends, the current node where it should be, each node in one list        *)
(* (asn-list.c).  A question about an index is answered for that sequence. *)
ListsAreSequences ==
  /\ \A l \in used : Chained(l) /\ CurrentInPlace(l)
  /\ EachNodeOnce
  /\ AnswerIsRight
=============================================================================
