---------------------------- MODULE OrderProofs ----------------------------
(***************************************************************************)
(* The sort of dependency.c over any module: no definition is lost or      *)
(* repeated on the way through the lists, RemoveAndSortIndependents takes  *)
(* definitions out in an order of dependency, and the order that the       *)
(* passes leave them in is what the comments of dependency.c say of it,    *)
(* which rests on the flags that recursive.c has set.                      *)
(***************************************************************************)
EXTENDS CompilerProofs, SequenceTheorems

Distinct(list) == \A i, j \in DOMAIN list : list[i] = list[j] => i = j

-----------------------------------------------------------------------------
(* Sequences as the lists of definitions they hold                          *)

LEMMA AppendHolds ==
  ASSUME NEW s \in Seq(Nat), NEW x \in Nat
  PROVE  /\ Append(s, x) \in Seq(Nat)
         /\ Len(Append(s, x)) = Len(s) + 1
         /\ ToSet(Append(s, x)) = ToSet(s) \cup {x}
         /\ Distinct(s) /\ x \notin ToSet(s) => Distinct(Append(s, x))
<1>1. /\ Append(s, x) \in Seq(Nat)
      /\ Len(Append(s, x)) = Len(s) + 1
      /\ DOMAIN Append(s, x) = 1 .. Len(s) + 1
      /\ \A i \in 1 .. Len(s) : Append(s, x)[i] = s[i]
      /\ Append(s, x)[Len(s) + 1] = x
      /\ DOMAIN s = 1 .. Len(s)
      /\ Len(s) \in Nat
  OBVIOUS
<1>2. ToSet(Append(s, x)) = ToSet(s) \cup {x}
  <2>1. ASSUME NEW y \in ToSet(Append(s, x)) PROVE y \in ToSet(s) \cup {x}
    BY <2>1, <1>1 DEF ToSet
  <2>2. ASSUME NEW y \in ToSet(s) \cup {x} PROVE y \in ToSet(Append(s, x))
    <3>1. CASE y = x
      BY <3>1, <1>1 DEF ToSet
    <3>2. CASE y \in ToSet(s)
      <4>1. PICK i \in 1 .. Len(s) : y = s[i]
        BY <3>2, <1>1 DEF ToSet
      <4> QED
        BY <4>1, <1>1 DEF ToSet
    <3> QED
      BY <2>2, <3>1, <3>2
  <2> QED
    BY <2>1, <2>2
<1>3. Distinct(s) /\ x \notin ToSet(s) => Distinct(Append(s, x))
  BY <1>1 DEF Distinct, ToSet
<1> QED
  BY <1>1, <1>2, <1>3

LEMMA ConcatHolds ==
  ASSUME NEW s \in Seq(Nat), NEW t \in Seq(Nat)
  PROVE  /\ s \o t \in Seq(Nat)
         /\ Len(s \o t) = Len(s) + Len(t)
         /\ ToSet(s \o t) = ToSet(s) \cup ToSet(t)
<1>1. /\ s \o t \in Seq(Nat)
      /\ Len(s \o t) = Len(s) + Len(t)
      /\ DOMAIN (s \o t) = 1 .. Len(s) + Len(t)
      /\ \A i \in 1 .. Len(s) : (s \o t)[i] = s[i]
      /\ \A i \in 1 .. Len(t) : (s \o t)[Len(s) + i] = t[i]
      /\ \A i \in 1 .. Len(s) + Len(t) :
           i \notin 1 .. Len(s) => i - Len(s) \in 1 .. Len(t) /\ (s \o t)[i] = t[i - Len(s)]
      /\ DOMAIN s = 1 .. Len(s) /\ DOMAIN t = 1 .. Len(t)
      /\ Len(s) \in Nat /\ Len(t) \in Nat
  OBVIOUS
<1>2. ASSUME NEW y \in ToSet(s \o t) PROVE y \in ToSet(s) \cup ToSet(t)
  <2>1. PICK i \in 1 .. Len(s) + Len(t) : y = (s \o t)[i]
    BY <1>1, <1>2 DEF ToSet
  <2> QED
    BY <2>1, <1>1 DEF ToSet
<1>3. ASSUME NEW y \in ToSet(s) PROVE y \in ToSet(s \o t)
  <2>1. PICK i \in 1 .. Len(s) : y = s[i]
    BY <1>1, <1>3 DEF ToSet
  <2>2. i \in DOMAIN (s \o t) /\ (s \o t)[i] = s[i]
    BY <1>1
  <2> QED
    BY <2>1, <2>2 DEF ToSet
<1>4. ASSUME NEW y \in ToSet(t) PROVE y \in ToSet(s \o t)
  <2>1. PICK i \in 1 .. Len(t) : y = t[i]
    BY <1>1, <1>4 DEF ToSet
  <2>2. Len(s) + i \in DOMAIN (s \o t)
    BY <1>1
  <2> QED
    BY <2>1, <2>2, <1>1 DEF ToSet
<1> QED
  BY <1>1, <1>2, <1>3, <1>4

LEMMA ConcatAt ==
  ASSUME NEW s \in Seq(Nat), NEW t \in Seq(Nat)
  PROVE  \A k \in 1 .. Len(s) + Len(t) : (s \o t)[k] = IF k <= Len(s) THEN s[k] ELSE t[k - Len(s)]
OBVIOUS

\* What AsnListRemove at place i leaves.
LEMMA RemoveAtHolds ==
  ASSUME NEW s \in Seq(Nat), NEW i \in 1 .. Len(s)
  PROVE  /\ RemoveAt(s, i) \in Seq(Nat)
         /\ Len(RemoveAt(s, i)) = Len(s) - 1
         /\ ToSet(s) = ToSet(RemoveAt(s, i)) \cup {s[i]}
         /\ i < Len(s) => RemoveAt(s, i)[Len(s) - 1] = s[Len(s)]
         /\ Distinct(s) => Distinct(RemoveAt(s, i)) /\ s[i] \notin ToSet(RemoveAt(s, i))
<1> DEFINE r == RemoveAt(s, i)
<1>1. /\ r \in Seq(Nat)
      /\ Len(r) = Len(s) - 1
      /\ \A j \in 1 .. Len(s) - 1 : r[j] = IF j < i THEN s[j] ELSE s[j + 1]
  <2> DEFINE before == SubSeq(s, 1, i - 1)
             after  == SubSeq(s, i + 1, Len(s))
  <2>1. /\ before \in Seq(Nat)
        /\ Len(before) = i - 1
        /\ \A j \in 1 .. i - 1 : before[j] = s[j]
    OBVIOUS
  <2>2. /\ after \in Seq(Nat)
        /\ Len(after) = Len(s) - i
        /\ \A j \in 1 .. Len(s) - i : after[j] = s[i + j]
    OBVIOUS
  <2>3. r = before \o after
    BY DEF RemoveAt
  <2> HIDE DEF before, after, r
  <2>4. r \in Seq(Nat) /\ Len(r) = Len(s) - 1
    BY <2>1, <2>2, <2>3
  <2>5. ASSUME NEW j \in 1 .. Len(s) - 1 PROVE r[j] = IF j < i THEN s[j] ELSE s[j + 1]
    <3>0. \A k \in 1 .. Len(before) + Len(after) :
            (before \o after)[k] = IF k <= Len(before) THEN before[k] ELSE after[k - Len(before)]
      <4>1. before \in Seq(Nat) /\ after \in Seq(Nat)
        BY <2>1, <2>2
      <4> QED
        BY <4>1, ConcatAt
    <3>1. CASE j < i
      <4>0. j \in 1 .. i - 1 /\ i \in 1 .. Len(s) /\ Len(s) \in Nat
        BY <3>1
      <4>1. j \in 1 .. i - 1 /\ j \in 1 .. Len(before) + Len(after)
        <5>1. Len(before) = i - 1 /\ Len(after) = Len(s) - i
          BY <2>1, <2>2
        <5> QED
          BY <4>0, <5>1
      <4>2. r[j] = before[j]
        BY <4>1, <3>0, <2>1, <2>3
      <4> QED
        BY <3>1, <4>1, <4>2, <2>1
    <3>2. CASE j >= i
      <4>1. j - (i - 1) \in 1 .. Len(s) - i /\ i + (j - (i - 1)) = j + 1
        BY <3>2
      <4>2. j \in 1 .. Len(before) + Len(after) /\ ~(j <= Len(before))
        BY <3>2, <2>1, <2>2
      <4>3. r[j] = after[j - Len(before)]
        BY <4>2, <3>0, <2>3
      <4>4. after[j - (i - 1)] = s[j + 1]
        BY <4>1, <2>2
      <4> QED
        BY <3>2, <4>3, <4>4, <2>1
    <3> QED
      BY <3>1, <3>2
  <2> QED
    BY <2>4, <2>5
<1>2. /\ DOMAIN r = 1 .. Len(s) - 1
      /\ DOMAIN s = 1 .. Len(s)
      /\ Len(s) \in Nat
  BY <1>1
<1> HIDE DEF r
<1>3. ASSUME NEW y \in ToSet(s) PROVE y \in ToSet(r) \cup {s[i]}
  <2>1. PICK j \in 1 .. Len(s) : y = s[j]
    BY <1>2, <1>3 DEF ToSet
  <2>2. CASE j < i
    <3>1. j \in 1 .. Len(s) - 1
      BY <2>2, <1>2
    <3>2. r[j] = s[j]
      BY <3>1, <2>2, <1>1
    <3> QED
      BY <3>1, <3>2, <2>1, <1>2 DEF ToSet
  <2>3. CASE j > i
    <3>1. j - 1 \in 1 .. Len(s) - 1 /\ ~(j - 1 < i) /\ (j - 1) + 1 = j
      BY <2>3, <1>2
    <3>2. r[j - 1] = s[j]
      BY <3>1, <1>1
    <3> QED
      BY <3>1, <3>2, <2>1, <1>2 DEF ToSet
  <2> QED
    BY <2>1, <2>2, <2>3
<1>4. ASSUME NEW y \in ToSet(r) PROVE y \in ToSet(s) /\ (Distinct(s) => y # s[i])
  <2>1. PICK j \in 1 .. Len(s) - 1 : y = r[j]
    BY <1>2, <1>4 DEF ToSet
  <2>2. r[j] = IF j < i THEN s[j] ELSE s[j + 1]
    BY <1>1
  <2>3. j \in 1 .. Len(s) /\ j + 1 \in 1 .. Len(s) /\ i \in 1 .. Len(s)
    BY <1>2
  <2>4. PICK k \in DOMAIN s : y = s[k] /\ k # i
    <3>1. CASE j < i
      <4>1. j \in DOMAIN s /\ j # i
        BY <3>1, <2>3, <1>2
      <4> QED
        BY <3>1, <4>1, <2>1, <2>2
    <3>2. CASE ~(j < i)
      <4>1. j + 1 \in DOMAIN s /\ j + 1 # i
        BY <3>2, <2>3, <1>2
      <4> QED
        BY <3>2, <4>1, <2>1, <2>2
    <3> QED
      BY <3>1, <3>2
  <2> QED
    BY <2>3, <2>4, <1>2 DEF ToSet, Distinct
<1>5. s[i] \in ToSet(s)
  BY <1>2 DEF ToSet
<1>6. ASSUME Distinct(s), NEW j \in DOMAIN r, NEW k \in DOMAIN r, r[j] = r[k]
      PROVE  j = k
  <2>1. ASSUME NEW l \in DOMAIN r
        PROVE  /\ l < i => l \in DOMAIN s /\ r[l] = s[l]
               /\ ~(l < i) => l + 1 \in DOMAIN s /\ r[l] = s[l + 1]
    <3>1. l \in 1 .. Len(s) - 1
      BY <1>2
    <3>2. r[l] = IF l < i THEN s[l] ELSE s[l + 1]
      BY <1>1, <3>1
    <3>3. DOMAIN s = 1 .. Len(s) /\ Len(s) \in Nat
      BY <1>2
    <3>4. l \in DOMAIN s /\ l + 1 \in DOMAIN s
      BY <3>1, <3>3
    <3> QED
      BY <3>2, <3>4
  <2>2. j \in Nat /\ k \in Nat /\ i \in Nat
    BY <1>2
  <2>3. \A a, b \in DOMAIN s : s[a] = s[b] => a = b
    BY <1>6 DEF Distinct
  <2>4. CASE j < i /\ k < i
    BY <1>6, <2>1, <2>3, <2>4
  <2>5. CASE j < i /\ ~(k < i)
    <3>1. j = k + 1
      BY <1>6, <2>1, <2>3, <2>5
    <3> QED
      BY <2>2, <2>5, <3>1
  <2>6. CASE ~(j < i) /\ k < i
    <3>1. j + 1 = k
      BY <1>6, <2>1, <2>3, <2>6
    <3> QED
      BY <2>2, <2>6, <3>1
  <2>7. CASE ~(j < i) /\ ~(k < i)
    <3>1. j + 1 = k + 1
      BY <1>6, <2>1, <2>3, <2>7
    <3> QED
      BY <2>2, <3>1
  <2> QED
    BY <2>4, <2>5, <2>6, <2>7
<1>7. i < Len(s) => r[Len(s) - 1] = s[Len(s)]
  <2> SUFFICES ASSUME i < Len(s) PROVE r[Len(s) - 1] = s[Len(s)]
    OBVIOUS
  <2>1. Len(s) \in Nat /\ i \in 1 .. Len(s)
    BY <1>2
  <2>2. Len(s) - 1 \in 1 .. Len(s) - 1 /\ ~(Len(s) - 1 < i) /\ (Len(s) - 1) + 1 = Len(s)
    BY <2>1
  <2>3. r[Len(s) - 1] = IF Len(s) - 1 < i THEN s[Len(s) - 1] ELSE s[(Len(s) - 1) + 1]
    BY <1>1, <2>2
  <2> QED
    BY <2>2, <2>3
<1>8. ToSet(s) = ToSet(r) \cup {s[i]}
  BY <1>3, <1>4, <1>5
<1>9. Distinct(s) => Distinct(r)
  BY <1>6 DEF Distinct
<1>10. r \in Seq(Nat) /\ Len(r) = Len(s) - 1
  BY <1>1
<1>11. Distinct(s) => s[i] \notin ToSet(r)
  BY <1>4
<1> QED
  BY <1>7, <1>8, <1>9, <1>10, <1>11 DEF r

-----------------------------------------------------------------------------
(* The inductive invariant                                                  *)

ListsTypeOK ==
  /\ sorting \in Phase
  /\ at \in Nat
  /\ prims \in Seq(Nat) /\ noRefs \in Seq(Nat) /\ notRefd \in Seq(Nat)
  /\ tdl \in Seq(Nat) /\ subList \in Seq(Nat)
  /\ linear \in Seq(Nat) /\ nonRec \in Seq(Nat) /\ rec \in Seq(Nat)
  /\ sortedNonRec \in Seq(Nat) /\ cLists \in Seq(Nat)

\* The lists of the pass together: what they hold, and in how many places.
Held ==
  ToSet(prims) \cup ToSet(noRefs) \cup ToSet(notRefd) \cup ToSet(tdl) \cup ToSet(subList)
    \cup ToSet(linear) \cup ToSet(nonRec) \cup ToSet(rec) \cup ToSet(sortedNonRec)
    \cup ToSet(cLists)

Places ==
  Len(prims) + Len(noRefs) + Len(notRefd) + Len(tdl) + Len(subList)
    + Len(linear) + Len(nonRec) + Len(rec) + Len(sortedNonRec) + Len(cLists)

\* As many places as definitions seen, and every one of those in a place: no
\* definition is lost or in two places.
HeldOnce ==
  /\ sorting # "done" => Held = 1 .. Places
  /\ sorting \notin {"group", "done"} => Places = Len(types)

\* The lists that are empty where the pass is: those it is about to assign.
Unused ==
  /\ sorting \in {"group", "divide", "strip"} => subList = << >>
  /\ sorting \in {"group", "all"} => linear = << >> /\ nonRec = << >>
  /\ sorting \in {"nonRec", "strip", "weighted"} => nonRec = << >>
  /\ sorting \in {"group", "all", "divide", "strip", "weighted"} => rec = << >>
  /\ sorting \in {"group", "all", "divide", "nonRec"} => sortedNonRec = << >> /\ cLists = << >>

CursorInPlace ==
  /\ at > 0 => at <= Len(tdl) /\ last = tdl[Len(tdl)]
  /\ sorting \in {"group", "done"} => at = 0

ListsDistinct ==
  /\ Distinct(tdl) /\ Distinct(nonRec) /\ Distinct(rec)
  /\ sorting = "divide" => ToSet(tdl) \cap ToSet(nonRec) = {}

SortInv ==
  /\ types \in Module
  /\ ListsTypeOK /\ HeldOnce /\ Unused /\ CursorInPlace /\ ListsDistinct
  /\ TakenInOrder /\ NothingLost

graphVars == <<types, target, recursive>>

LEMMA EmptyHolds ==
  /\ << >> \in Seq(Nat) /\ Len(<< >>) = 0 /\ ToSet(<< >>) = {} /\ Distinct(<< >>)
  /\ \A s \in Seq(Nat) : (s = << >>) <=> (Len(s) = 0)
BY DEF ToSet, Distinct

\* The state between two calls and between two rounds.
LEMMA SeqFacts ==
  ASSUME SortInv
  PROVE  /\ Len(types) \in Nat /\ TypeDefs = 1 .. Len(types)
         /\ Len(prims) \in Nat /\ Len(noRefs) \in Nat /\ Len(notRefd) \in Nat
         /\ Len(tdl) \in Nat /\ Len(subList) \in Nat
         /\ Len(linear) \in Nat /\ Len(nonRec) \in Nat /\ Len(rec) \in Nat
         /\ Len(sortedNonRec) \in Nat /\ Len(cLists) \in Nat
<1>1. types \in Seq([kind : Kinds, refs : Seq([to : 1 .. Len(types), opt : BOOLEAN]), others : Nat])
  BY ModuleAssumption DEF SortInv, IsModule
<1>2. Len(types) \in Nat /\ TypeDefs = 1 .. Len(types)
  BY <1>1 DEF TypeDefs
<1> QED
  BY <1>2 DEF SortInv, ListsTypeOK

\* The references are those of the module and the target, which do not change.
LEMMA SameRefList ==
  ASSUME UNCHANGED <<sorting, types, target>>, NEW td
  PROVE  RefList(td)' = RefList(td)
<1>1. types' = types /\ target' = target /\ sorting' = sorting
  OBVIOUS
<1>2. ASSUME NEW d PROVE Chain(d)' = Chain(d)
  BY <1>1 DEF Chain, IsRef, Link, ElementsOf
<1>3. ASSUME NEW d PROVE Builtin(d)' = Builtin(d)
  BY <1>1, <1>2 DEF Builtin, IsRef
<1>4. ASSUME NEW d, NEW e PROVE IsPtr(d, e)' = IsPtr(d, e)
  BY <1>1, <1>3 DEF IsPtr, CPtr, CxxPtr, IsList
<1>5. ByValueRefsOf(td)' = ByValueRefsOf(td)
  BY <1>1, <1>4 DEF ByValueRefsOf, IsList, ElementsOf
<1>6. RefsOf(td)' = RefsOf(td)
  BY <1>1 DEF RefsOf, ElementsOf
<1> QED
  BY <1>1, <1>5, <1>6 DEF RefList

-----------------------------------------------------------------------------
(* Steps inside a loop                                                      *)

\* The cursor moves on: nothing else changes.
LEMMA GoOnKeeps ==
  ASSUME SortInv, GoOn, at > 0, sorting \notin {"group", "done"},
         UNCHANGED <<sorting, groups, subList, last, lastSLCount, lists, typeDefs, graphVars>>
  PROVE  SortInv'
<1>1. /\ types' = types /\ target' = target
      /\ sorting' = sorting /\ tdl' = tdl /\ subList' = subList /\ last' = last
      /\ prims' = prims /\ noRefs' = noRefs /\ notRefd' = notRefd
      /\ linear' = linear /\ nonRec' = nonRec /\ rec' = rec
      /\ sortedNonRec' = sortedNonRec /\ cLists' = cLists /\ typeDefs' = typeDefs
  BY DEF GoOn, groups, lists, graphVars
<1>2. at' \in Nat /\ CursorInPlace'
  BY <1>1, SeqFacts DEF SortInv, ListsTypeOK, CursorInPlace, GoOn
<1>3. ListsTypeOK' /\ HeldOnce' /\ Unused' /\ ListsDistinct'
  BY <1>1, <1>2 DEF SortInv, ListsTypeOK, HeldOnce, Held, Places, Unused, ListsDistinct
<1>4. TakenInOrder'
  BY <1>1, SameRefList DEF SortInv, TakenInOrder, Calling, graphVars
<1>5. NothingLost'
  BY <1>1 DEF SortInv, NothingLost, Done, TypeDefs
<1> QED
  BY <1>1, <1>2, <1>3, <1>4, <1>5 DEF SortInv

\* currTd moves from tdl to the end of another list.
LEMMA TakeOutMoves ==
  ASSUME SortInv, TakeOut, at > 0, UNCHANGED last
  PROVE  /\ tdl' \in Seq(Nat) /\ Len(tdl') = Len(tdl) - 1 /\ Len(tdl) > 0
         /\ tdl[at] \in Nat /\ tdl[at] \notin ToSet(tdl')
         /\ ToSet(tdl) = ToSet(tdl') \cup {tdl[at]}
         /\ Distinct(tdl')
         /\ at' \in Nat /\ (at' > 0 => at' <= Len(tdl') /\ last' = tdl'[Len(tdl')])
<1>1. tdl \in Seq(Nat) /\ at \in 1 .. Len(tdl) /\ last = tdl[Len(tdl)] /\ Distinct(tdl)
  BY SeqFacts DEF SortInv, ListsTypeOK, CursorInPlace, ListsDistinct
<1>2. tdl' = RemoveAt(tdl, at)
  BY DEF TakeOut
<1>3. /\ tdl' \in Seq(Nat) /\ Len(tdl') = Len(tdl) - 1
      /\ ToSet(tdl) = ToSet(tdl') \cup {tdl[at]}
      /\ at < Len(tdl) => tdl'[Len(tdl) - 1] = tdl[Len(tdl)]
      /\ Distinct(tdl') /\ tdl[at] \notin ToSet(tdl')
  BY <1>1, <1>2, RemoveAtHolds
<1>4. at' = IF tdl[at] = last THEN 0 ELSE at
  BY DEF TakeOut
<1>5. tdl[at] \in Nat /\ Len(tdl) > 0 /\ Len(tdl) \in Nat
  BY <1>1
<1>6. at' > 0 => at' = at /\ at < Len(tdl)
  BY <1>1, <1>4, <1>5
<1> QED
  BY <1>1, <1>3, <1>4, <1>5, <1>6

\* What a call takes out refers to nothing left in tdl, and what is taken out
\* after it was in tdl then.
LEMMA TakeTypeDefKeeps ==
  ASSUME SortInv, TakeTypeDef, UNCHANGED graphVars
  PROVE  SortInv'
<1> DEFINE x == tdl[at]
<1>1. /\ types' = types /\ sorting' = sorting /\ last' = last /\ TakeOut /\ at > 0 /\ Calling
      /\ subList' = Append(subList, x) /\ typeDefs' = typeDefs
      /\ prims' = prims /\ noRefs' = noRefs /\ notRefd' = notRefd
      /\ linear' = linear /\ nonRec' = nonRec /\ rec' = rec
      /\ sortedNonRec' = sortedNonRec /\ cLists' = cLists
  BY DEF TakeTypeDef, groups, lists, graphVars
<1>2. /\ tdl' \in Seq(Nat) /\ Len(tdl') = Len(tdl) - 1
      /\ x \in Nat /\ x \notin ToSet(tdl')
      /\ ToSet(tdl) = ToSet(tdl') \cup {x}
      /\ Distinct(tdl')
      /\ at' \in Nat /\ (at' > 0 => at' <= Len(tdl') /\ last' = tdl'[Len(tdl')])
  BY <1>1, TakeOutMoves
<1>3. ~MustStay(x)
  BY DEF TakeTypeDef
<1> HIDE DEF x
<1>4. /\ subList \in Seq(Nat) /\ subList' \in Seq(Nat)
      /\ Len(subList') = Len(subList) + 1
      /\ ToSet(subList') = ToSet(subList) \cup {x}
  BY <1>1, <1>2, AppendHolds DEF SortInv, ListsTypeOK
<1>5. Held' = Held
  BY <1>1, <1>2, <1>4 DEF Held
<1>6. Places' = Places
  BY <1>1, <1>2, <1>4, SeqFacts DEF Places
<1>7. ListsTypeOK' /\ HeldOnce' /\ Unused' /\ CursorInPlace' /\ NothingLost'
  BY <1>1, <1>2, <1>4, <1>5, <1>6
     DEF SortInv, ListsTypeOK, HeldOnce, Unused, CursorInPlace, NothingLost, Done, Calling, TypeDefs
<1>8. ListsDistinct'
  BY <1>1, <1>2 DEF SortInv, ListsDistinct, Calling
<1>9. TakenInOrder'
  <2>1. \A td : RefList(td)' = RefList(td)
    BY <1>1, SameRefList DEF TakeTypeDef, graphVars
  <2>2. RefList(x) \cap ToSet(tdl') = {}
    BY <1>2, <1>3 DEF MustStay
  <2>3. /\ DOMAIN subList = 1 .. Len(subList)
        /\ DOMAIN subList' = 1 .. Len(subList) + 1
        /\ \A i \in 1 .. Len(subList) : subList'[i] = subList[i]
        /\ subList'[Len(subList) + 1] = x
        /\ Len(subList) \in Nat
    BY <1>1, <1>2, <1>4
  <2>4. ASSUME NEW i \in DOMAIN subList', NEW y \in RefList(subList'[i])
        PROVE  y \notin ToSet(tdl') \cup {subList'[j] : j \in i + 1 .. Len(subList')}
    <3>1. CASE i = Len(subList) + 1
      BY <3>1, <2>2, <2>3, <2>4, <1>4
    <3>2. CASE i \in 1 .. Len(subList)
      <4>1. y \notin ToSet(tdl) \cup {subList[j] : j \in i + 1 .. Len(subList)}
        BY <3>2, <2>3, <2>4, <1>1 DEF SortInv, TakenInOrder
      <4>2. ASSUME NEW j \in i + 1 .. Len(subList') PROVE y # subList'[j]
        <5>1. CASE j = Len(subList) + 1
          <6>1. x \in ToSet(tdl) /\ subList'[j] = x
            BY <5>1, <1>2, <2>3
          <6> QED
            BY <4>1, <6>1
        <5>2. CASE j # Len(subList) + 1
          <6>1. j \in i + 1 .. Len(subList) /\ j \in 1 .. Len(subList)
            BY <5>2, <3>2, <2>3, <1>4
          <6>2. subList'[j] = subList[j]
            BY <6>1, <2>3
          <6> QED
            BY <4>1, <6>1, <6>2
        <5> QED
          BY <5>1, <5>2
      <4> QED
        BY <4>1, <4>2, <1>2
    <3> QED
      BY <2>3, <3>1, <3>2
  <2> QED
    BY <2>1, <2>4 DEF TakenInOrder
<1> QED
  BY <1>1, <1>7, <1>8, <1>9 DEF SortInv

LEMMA MoveNonRecursiveKeeps ==
  ASSUME SortInv, MoveNonRecursive, UNCHANGED graphVars
  PROVE  SortInv'
<1> DEFINE x == tdl[at]
<1>1. /\ types' = types /\ sorting' = sorting /\ sorting = "divide" /\ last' = last
      /\ TakeOut /\ at > 0 /\ subList' = subList
      /\ nonRec' = Append(nonRec, x) /\ typeDefs' = typeDefs
      /\ prims' = prims /\ noRefs' = noRefs /\ notRefd' = notRefd
      /\ linear' = linear /\ rec' = rec /\ sortedNonRec' = sortedNonRec /\ cLists' = cLists
  BY DEF MoveNonRecursive, groups, graphVars
<1>2. /\ tdl' \in Seq(Nat) /\ Len(tdl') = Len(tdl) - 1
      /\ x \in Nat /\ x \notin ToSet(tdl')
      /\ ToSet(tdl) = ToSet(tdl') \cup {x}
      /\ Distinct(tdl')
      /\ at' \in Nat /\ (at' > 0 => at' <= Len(tdl') /\ last' = tdl'[Len(tdl')])
  BY <1>1, TakeOutMoves
<1> HIDE DEF x
<1>3. x \notin ToSet(nonRec) /\ Distinct(nonRec)
  BY <1>1, <1>2 DEF SortInv, ListsDistinct
<1>4. /\ nonRec' \in Seq(Nat)
      /\ Len(nonRec') = Len(nonRec) + 1
      /\ ToSet(nonRec') = ToSet(nonRec) \cup {x}
      /\ Distinct(nonRec')
  BY <1>1, <1>2, <1>3, AppendHolds DEF SortInv, ListsTypeOK
<1>5. Held' = Held
  BY <1>1, <1>2, <1>4 DEF Held
<1>6. Places' = Places
  BY <1>1, <1>2, <1>4, SeqFacts DEF Places
<1>7. ListsTypeOK' /\ HeldOnce' /\ Unused' /\ CursorInPlace' /\ NothingLost' /\ TakenInOrder'
  BY <1>1, <1>2, <1>4, <1>5, <1>6
     DEF SortInv, ListsTypeOK, HeldOnce, Unused, CursorInPlace, NothingLost, Done, TakenInOrder, Calling
<1>8. ListsDistinct'
  BY <1>1, <1>2, <1>4 DEF SortInv, ListsDistinct
<1> QED
  BY <1>1, <1>7, <1>8 DEF SortInv

LEMMA StripCListKeeps ==
  ASSUME SortInv, StripCList, UNCHANGED graphVars
  PROVE  SortInv'
<1> DEFINE x == tdl[at]
<1>1. /\ types' = types /\ sorting' = sorting /\ sorting = "strip" /\ last' = last
      /\ TakeOut /\ at > 0 /\ subList' = subList
      /\ cLists' = Append(cLists, x) /\ typeDefs' = typeDefs
      /\ prims' = prims /\ noRefs' = noRefs /\ notRefd' = notRefd
      /\ linear' = linear /\ nonRec' = nonRec /\ rec' = rec /\ sortedNonRec' = sortedNonRec
  BY DEF StripCList, groups, graphVars
<1>2. /\ tdl' \in Seq(Nat) /\ Len(tdl') = Len(tdl) - 1
      /\ x \in Nat /\ ToSet(tdl) = ToSet(tdl') \cup {x} /\ Distinct(tdl')
      /\ at' \in Nat /\ (at' > 0 => at' <= Len(tdl') /\ last' = tdl'[Len(tdl')])
  BY <1>1, TakeOutMoves
<1> HIDE DEF x
<1>3. /\ cLists' \in Seq(Nat)
      /\ Len(cLists') = Len(cLists) + 1
      /\ ToSet(cLists') = ToSet(cLists) \cup {x}
  BY <1>1, <1>2, AppendHolds DEF SortInv, ListsTypeOK
<1>4. Held' = Held
  BY <1>1, <1>2, <1>3 DEF Held
<1>5. Places' = Places
  BY <1>1, <1>2, <1>3, SeqFacts DEF Places
<1>6. ListsTypeOK' /\ HeldOnce' /\ Unused' /\ CursorInPlace' /\ NothingLost' /\ TakenInOrder'
  BY <1>1, <1>2, <1>3, <1>4, <1>5
     DEF SortInv, ListsTypeOK, HeldOnce, Unused, CursorInPlace, NothingLost, Done, TakenInOrder, Calling
<1>7. ListsDistinct'
  BY <1>1, <1>2 DEF SortInv, ListsDistinct
<1> QED
  BY <1>1, <1>6, <1>7 DEF SortInv

-----------------------------------------------------------------------------
(* Steps between the loops                                                  *)

\* A definition goes to one group.
LEMMA GroupTypeDefKeeps ==
  ASSUME SortInv, GroupTypeDef, UNCHANGED graphVars
  PROVE  SortInv'
<1> DEFINE x == Grouped + 1
<1>1. /\ types' = types /\ sorting' = sorting /\ sorting = "group" /\ last' = last /\ at' = at
      /\ subList' = subList /\ typeDefs' = typeDefs
      /\ linear' = linear /\ nonRec' = nonRec /\ rec' = rec
      /\ sortedNonRec' = sortedNonRec /\ cLists' = cLists
  BY DEF GroupTypeDef, call, lists, graphVars
<1>2. at = 0
  BY <1>1 DEF SortInv, CursorInPlace
<1>3. /\ subList = << >> /\ linear = << >> /\ nonRec = << >> /\ rec = << >>
      /\ sortedNonRec = << >> /\ cLists = << >>
  BY <1>1 DEF SortInv, Unused
<1>4. Places = Grouped /\ Grouped \in Nat /\ Held = 1 .. Grouped
  BY <1>1, <1>3, SeqFacts, EmptyHolds DEF Places, Grouped, SortInv, HeldOnce
<1>5. x \in Nat /\ x \notin ToSet(tdl)
  BY <1>4 DEF Held
<1>6. ASSUME NEW s \in Seq(Nat)
      PROVE  /\ Append(s, x) \in Seq(Nat) /\ Len(Append(s, x)) = Len(s) + 1
             /\ ToSet(Append(s, x)) = ToSet(s) \cup {x}
  BY <1>5, AppendHolds
<1>7. Distinct(Append(tdl, x)) /\ Distinct(tdl)
  BY <1>5, AppendHolds DEF SortInv, ListsTypeOK, ListsDistinct
<1>8. \/ prims' = Append(prims, x) /\ noRefs' = noRefs /\ notRefd' = notRefd /\ tdl' = tdl
      \/ prims' = prims /\ noRefs' = Append(noRefs, x) /\ notRefd' = notRefd /\ tdl' = tdl
      \/ prims' = prims /\ noRefs' = noRefs /\ notRefd' = Append(notRefd, x) /\ tdl' = tdl
      \/ prims' = prims /\ noRefs' = noRefs /\ notRefd' = notRefd /\ tdl' = Append(tdl, x)
  BY Zenon DEF GroupTypeDef, Grows
<1> HIDE DEF x
<1>9. prims \in Seq(Nat) /\ noRefs \in Seq(Nat) /\ notRefd \in Seq(Nat) /\ tdl \in Seq(Nat)
  BY DEF SortInv, ListsTypeOK
<1>10. prims' \in Seq(Nat) /\ noRefs' \in Seq(Nat) /\ notRefd' \in Seq(Nat) /\ tdl' \in Seq(Nat)
  BY <1>6, <1>8, <1>9
<1>11. Held' = Held \cup {x}
  <2>1. CASE prims' = Append(prims, x) /\ noRefs' = noRefs /\ notRefd' = notRefd /\ tdl' = tdl
    BY <2>1, <1>1, <1>6, <1>9 DEF Held
  <2>2. CASE prims' = prims /\ noRefs' = Append(noRefs, x) /\ notRefd' = notRefd /\ tdl' = tdl
    BY <2>2, <1>1, <1>6, <1>9 DEF Held
  <2>3. CASE prims' = prims /\ noRefs' = noRefs /\ notRefd' = Append(notRefd, x) /\ tdl' = tdl
    BY <2>3, <1>1, <1>6, <1>9 DEF Held
  <2>4. CASE prims' = prims /\ noRefs' = noRefs /\ notRefd' = notRefd /\ tdl' = Append(tdl, x)
    BY <2>4, <1>1, <1>6, <1>9 DEF Held
  <2> QED
    BY <1>8, <2>1, <2>2, <2>3, <2>4
<1>12. Places' = Places + 1
  <2>1. /\ Len(Append(prims, x)) = Len(prims) + 1 /\ Len(Append(noRefs, x)) = Len(noRefs) + 1
        /\ Len(Append(notRefd, x)) = Len(notRefd) + 1 /\ Len(Append(tdl, x)) = Len(tdl) + 1
    BY <1>6, <1>9
  <2>2. /\ Len(prims) \in Nat /\ Len(noRefs) \in Nat /\ Len(notRefd) \in Nat /\ Len(tdl) \in Nat
        /\ Len(subList) = 0 /\ Len(linear) = 0 /\ Len(nonRec) = 0 /\ Len(rec) = 0
        /\ Len(sortedNonRec) = 0 /\ Len(cLists) = 0
    BY <1>3, <1>9
  <2>3. Len(prims') + Len(noRefs') + Len(notRefd') + Len(tdl')
          = Len(prims) + Len(noRefs) + Len(notRefd) + Len(tdl) + 1
    <3>1. CASE prims' = Append(prims, x) /\ noRefs' = noRefs /\ notRefd' = notRefd /\ tdl' = tdl
      BY <3>1, <2>1, <2>2
    <3>2. CASE prims' = prims /\ noRefs' = Append(noRefs, x) /\ notRefd' = notRefd /\ tdl' = tdl
      BY <3>2, <2>1, <2>2
    <3>3. CASE prims' = prims /\ noRefs' = noRefs /\ notRefd' = Append(notRefd, x) /\ tdl' = tdl
      BY <3>3, <2>1, <2>2
    <3>4. CASE prims' = prims /\ noRefs' = noRefs /\ notRefd' = notRefd /\ tdl' = Append(tdl, x)
      BY <3>4, <2>1, <2>2
    <3> QED
      BY <1>8, <3>1, <3>2, <3>3, <3>4
  <2>4. /\ subList' = subList /\ linear' = linear /\ nonRec' = nonRec /\ rec' = rec
        /\ sortedNonRec' = sortedNonRec /\ cLists' = cLists
    BY <1>1
  <2> QED
    BY <2>2, <2>3, <2>4 DEF Places
<1>13. HeldOnce'
  BY <1>1, <1>4, <1>11, <1>12 DEF HeldOnce, x
<1>14. ListsTypeOK' /\ Unused' /\ CursorInPlace' /\ NothingLost' /\ TakenInOrder'
  BY <1>1, <1>2, <1>10
     DEF SortInv, ListsTypeOK, Unused, CursorInPlace, NothingLost, Done, TakenInOrder, Calling
<1>15. ListsDistinct'
  BY <1>1, <1>7, <1>8 DEF SortInv, ListsDistinct
<1> QED
  BY <1>1, <1>13, <1>14, <1>15 DEF SortInv

\* The order is assigned from lists that hold all there is.
LEMMA FinishKeeps ==
  ASSUME SortInv, NEW refs \in Seq(Nat), Finish(refs), at = 0,
         UNCHANGED <<lists, graphVars>>,
         Len(prims) + Len(noRefs) + Len(refs) + Len(notRefd) = Len(types),
         ToSet(prims) \cup ToSet(noRefs) \cup ToSet(refs) \cup ToSet(notRefd) = 1 .. Len(types)
  PROVE  SortInv'
<1>1. /\ types' = types /\ sorting' = "done" /\ at' = at /\ subList' = subList /\ tdl' = tdl
      /\ prims' = prims /\ noRefs' = noRefs /\ notRefd' = notRefd
      /\ linear' = linear /\ nonRec' = nonRec /\ rec' = rec
      /\ sortedNonRec' = sortedNonRec /\ cLists' = cLists
      /\ typeDefs' = prims \o noRefs \o refs \o notRefd
  BY DEF Finish, groups, call, lists, graphVars
<1>2. prims \in Seq(Nat) /\ noRefs \in Seq(Nat) /\ notRefd \in Seq(Nat)
  BY DEF SortInv, ListsTypeOK
<1>3. /\ prims \o noRefs \in Seq(Nat)
      /\ Len(prims \o noRefs) = Len(prims) + Len(noRefs)
      /\ ToSet(prims \o noRefs) = ToSet(prims) \cup ToSet(noRefs)
  BY <1>2, ConcatHolds
<1>4. /\ prims \o noRefs \o refs \in Seq(Nat)
      /\ Len(prims \o noRefs \o refs) = Len(prims) + Len(noRefs) + Len(refs)
      /\ ToSet(prims \o noRefs \o refs) = ToSet(prims) \cup ToSet(noRefs) \cup ToSet(refs)
  BY <1>3, ConcatHolds
<1>5. /\ Len(typeDefs') = Len(prims) + Len(noRefs) + Len(refs) + Len(notRefd)
      /\ ToSet(typeDefs') = ToSet(prims) \cup ToSet(noRefs) \cup ToSet(refs) \cup ToSet(notRefd)
  BY <1>1, <1>2, <1>4, ConcatHolds
<1>6. TypeDefs' = 1 .. Len(types) /\ Len(types') = Len(types)
  BY <1>1, SeqFacts DEF TypeDefs
<1>7. NothingLost'
  BY <1>5, <1>6 DEF NothingLost
<1>8. ListsTypeOK' /\ HeldOnce' /\ Unused' /\ CursorInPlace' /\ ListsDistinct' /\ TakenInOrder'
  BY <1>1 DEF SortInv, ListsTypeOK, HeldOnce, Unused, CursorInPlace, ListsDistinct,
              TakenInOrder, Calling, Phase
<1> QED
  BY <1>1, <1>7, <1>8 DEF SortInv

LEMMA NothingToSortKeeps ==
  ASSUME SortInv, NothingToSort, UNCHANGED graphVars
  PROVE  SortInv'
<1>1. /\ sorting = "group" /\ Finish(<< >>) /\ Grouped = Len(types) /\ tdl = << >>
      /\ at = 0 /\ UNCHANGED lists
  BY DEF NothingToSort, SortInv, CursorInPlace
<1>2. /\ subList = << >> /\ linear = << >> /\ nonRec = << >> /\ rec = << >>
      /\ sortedNonRec = << >> /\ cLists = << >>
  BY <1>1 DEF SortInv, Unused
<1>3. Places = Len(types)
  BY <1>1, <1>2, SeqFacts, EmptyHolds DEF Places, Grouped
<1>4. Len(prims) + Len(noRefs) + Len(<< >>) + Len(notRefd) = Len(types)
  BY <1>1, SeqFacts, EmptyHolds DEF Grouped
<1>5. ToSet(prims) \cup ToSet(noRefs) \cup ToSet(<< >>) \cup ToSet(notRefd) = Held
  BY <1>1, <1>2, EmptyHolds DEF Held
<1>6. Held = 1 .. Len(types)
  BY <1>1, <1>3 DEF SortInv, HeldOnce
<1> QED
  BY <1>1, <1>4, <1>5, <1>6, FinishKeeps, EmptyHolds

LEMMA SimpleSortWorkedKeeps ==
  ASSUME SortInv, SimpleSortWorked, UNCHANGED graphVars
  PROVE  SortInv'
<1>1. /\ sorting = "all" /\ Finish(subList) /\ tdl = << >> /\ at = 0 /\ UNCHANGED lists
  BY DEF SimpleSortWorked, Returns
<1>2. /\ linear = << >> /\ nonRec = << >> /\ rec = << >>
      /\ sortedNonRec = << >> /\ cLists = << >>
  BY <1>1 DEF SortInv, Unused
<1>3. Places = Len(types) /\ Held = 1 .. Len(types)
  BY <1>1 DEF SortInv, HeldOnce
<1>4. Len(prims) + Len(noRefs) + Len(subList) + Len(notRefd) = Len(types)
  BY <1>1, <1>2, <1>3, SeqFacts, EmptyHolds DEF Places
<1>5. ToSet(prims) \cup ToSet(noRefs) \cup ToSet(subList) \cup ToSet(notRefd) = Held
  BY <1>1, <1>2, EmptyHolds DEF Held
<1>6. subList \in Seq(Nat)
  BY DEF SortInv, ListsTypeOK
<1> QED
  BY <1>1, <1>3, <1>4, <1>5, <1>6, FinishKeeps

LEMMA SortedRecKeeps ==
  ASSUME SortInv, SortedRec, UNCHANGED graphVars
  PROVE  SortInv'
<1>1. /\ sorting = "weighted" /\ Finish(Merged) /\ at = 0 /\ UNCHANGED lists
  BY DEF SortedRec, Returns
<1>2. nonRec = << >> /\ rec = << >>
  BY <1>1 DEF SortInv, Unused
<1>3. Places = Len(types) /\ Held = 1 .. Len(types)
  BY <1>1 DEF SortInv, HeldOnce
<1>4. /\ linear \in Seq(Nat) /\ cLists \in Seq(Nat) /\ subList \in Seq(Nat)
      /\ tdl \in Seq(Nat) /\ sortedNonRec \in Seq(Nat)
  BY DEF SortInv, ListsTypeOK
<1>5. /\ linear \o cLists \in Seq(Nat)
      /\ Len(linear \o cLists) = Len(linear) + Len(cLists)
      /\ ToSet(linear \o cLists) = ToSet(linear) \cup ToSet(cLists)
  BY <1>4, ConcatHolds
<1>6. /\ linear \o cLists \o subList \in Seq(Nat)
      /\ Len(linear \o cLists \o subList) = Len(linear) + Len(cLists) + Len(subList)
      /\ ToSet(linear \o cLists \o subList) = ToSet(linear) \cup ToSet(cLists) \cup ToSet(subList)
  BY <1>4, <1>5, ConcatHolds
<1>7. /\ linear \o cLists \o subList \o tdl \in Seq(Nat)
      /\ Len(linear \o cLists \o subList \o tdl)
           = Len(linear) + Len(cLists) + Len(subList) + Len(tdl)
      /\ ToSet(linear \o cLists \o subList \o tdl)
           = ToSet(linear) \cup ToSet(cLists) \cup ToSet(subList) \cup ToSet(tdl)
  BY <1>4, <1>6, ConcatHolds
<1>8. /\ Merged \in Seq(Nat)
      /\ Len(Merged) = Len(linear) + Len(cLists) + Len(subList) + Len(tdl) + Len(sortedNonRec)
      /\ ToSet(Merged) = ToSet(linear) \cup ToSet(cLists) \cup ToSet(subList) \cup ToSet(tdl)
                           \cup ToSet(sortedNonRec)
  BY <1>4, <1>7, ConcatHolds DEF Merged
<1>9. Len(prims) + Len(noRefs) + Len(Merged) + Len(notRefd) = Len(types)
  BY <1>2, <1>3, <1>8, SeqFacts, EmptyHolds DEF Places
<1>10. ToSet(prims) \cup ToSet(noRefs) \cup ToSet(Merged) \cup ToSet(notRefd) = Held
  BY <1>2, <1>8, EmptyHolds DEF Held
<1> QED
  BY <1>1, <1>3, <1>8, <1>9, <1>10, FinishKeeps

\* A call begins on the list that is in tdl.
LEMMA CallKeeps ==
  ASSUME SortInv, NEW which \in {"all", "nonRec", "weighted"}, Call(which),
         subList = << >>, ListsTypeOK', HeldOnce', Unused', ListsDistinct',
         UNCHANGED <<typeDefs, graphVars>>
  PROVE  SortInv'
<1>1. /\ types' = types /\ sorting' = which /\ subList' = << >> /\ at' = 0
  BY DEF Call, graphVars
<1>2. CursorInPlace' /\ NothingLost' /\ TakenInOrder'
  BY <1>1 DEF CursorInPlace, NothingLost, Done, TakenInOrder
<1> QED
  BY <1>1, <1>2 DEF SortInv

LEMMA SortTypeDefsKeeps ==
  ASSUME SortInv, SortTypeDefs, UNCHANGED graphVars
  PROVE  SortInv'
<1>1. /\ types' = types /\ sorting = "group" /\ Call("all") /\ sorting' = "all" /\ tdl' = tdl
      /\ prims' = prims /\ noRefs' = noRefs /\ notRefd' = notRefd
      /\ linear' = linear /\ nonRec' = nonRec /\ rec' = rec
      /\ sortedNonRec' = sortedNonRec /\ cLists' = cLists /\ typeDefs' = typeDefs
      /\ subList' = << >> /\ at' = 0 /\ Grouped = Len(types)
  BY DEF SortTypeDefs, Call, groups, lists, graphVars
<1>2. /\ subList = << >> /\ linear = << >> /\ nonRec = << >> /\ rec = << >>
      /\ sortedNonRec = << >> /\ cLists = << >>
  BY <1>1 DEF SortInv, Unused
<1>3. Places = Len(types)
  BY <1>1, <1>2, SeqFacts, EmptyHolds DEF Places, Grouped
<1>4. Held' = Held /\ Places' = Places
  BY <1>1, <1>2 DEF Held, Places
<1>5. ListsTypeOK'
  BY <1>1, EmptyHolds DEF SortInv, ListsTypeOK, Phase
<1>6. HeldOnce' /\ Unused' /\ ListsDistinct'
  BY <1>1, <1>2, <1>3, <1>4 DEF SortInv, HeldOnce, Unused, ListsDistinct
<1> QED
  BY <1>1, <1>2, <1>5, <1>6, CallKeeps DEF SortTypeDefs

LEMMA StrippedKeeps ==
  ASSUME SortInv, Stripped, UNCHANGED graphVars
  PROVE  SortInv'
<1>1. /\ types' = types /\ sorting = "strip" /\ Call("weighted") /\ sorting' = "weighted"
      /\ tdl' = tdl /\ prims' = prims /\ noRefs' = noRefs /\ notRefd' = notRefd
      /\ linear' = linear /\ nonRec' = nonRec /\ rec' = rec
      /\ sortedNonRec' = sortedNonRec /\ cLists' = cLists /\ typeDefs' = typeDefs
      /\ subList' = << >> /\ at' = 0
  BY DEF Stripped, Call, groups, lists, graphVars
<1>2. subList = << >>
  BY <1>1 DEF SortInv, Unused
<1>3. Held' = Held /\ Places' = Places
  BY <1>1, <1>2 DEF Held, Places
<1>4. ListsTypeOK'
  BY <1>1, EmptyHolds DEF SortInv, ListsTypeOK, Phase
<1>5. HeldOnce' /\ Unused' /\ ListsDistinct'
  BY <1>1, <1>2, <1>3 DEF SortInv, HeldOnce, Unused, ListsDistinct
<1> QED
  BY <1>1, <1>2, <1>4, <1>5, CallKeeps DEF Stripped

LEMMA DividedKeeps ==
  ASSUME SortInv, Divided, UNCHANGED graphVars
  PROVE  SortInv'
<1>1. /\ types' = types /\ sorting = "divide" /\ Call("nonRec") /\ sorting' = "nonRec"
      /\ rec' = tdl /\ tdl' = nonRec /\ nonRec' = << >>
      /\ prims' = prims /\ noRefs' = noRefs /\ notRefd' = notRefd
      /\ linear' = linear /\ sortedNonRec' = sortedNonRec /\ cLists' = cLists
      /\ typeDefs' = typeDefs /\ subList' = << >> /\ at' = 0
  BY DEF Divided, Call, groups, lists, graphVars
<1>2. subList = << >> /\ rec = << >> /\ sortedNonRec = << >> /\ cLists = << >>
  BY <1>1 DEF SortInv, Unused
<1>3. Held' = Held
  BY <1>1, <1>2, EmptyHolds DEF Held
<1>4. Places' = Places
  BY <1>1, <1>2, EmptyHolds, SeqFacts DEF Places
<1>5. ListsTypeOK'
  BY <1>1, EmptyHolds DEF SortInv, ListsTypeOK, Phase
<1>6. HeldOnce' /\ Unused'
  BY <1>1, <1>2, <1>3, <1>4 DEF SortInv, HeldOnce, Unused
<1>7. ListsDistinct'
  BY <1>1, EmptyHolds DEF SortInv, ListsDistinct
<1> QED
  BY <1>1, <1>2, <1>5, <1>6, <1>7, CallKeeps DEF Divided

LEMMA StartRoundKeeps ==
  ASSUME SortInv, StartRound, UNCHANGED graphVars
  PROVE  SortInv'
<1>1. /\ types' = types /\ target' = target /\ recursive' = recursive
      /\ sorting' = sorting /\ tdl' = tdl /\ subList' = subList
      /\ prims' = prims /\ noRefs' = noRefs /\ notRefd' = notRefd
      /\ linear' = linear /\ nonRec' = nonRec /\ rec' = rec
      /\ sortedNonRec' = sortedNonRec /\ cLists' = cLists /\ typeDefs' = typeDefs
      /\ Calling /\ tdl # << >> /\ last' = tdl[Len(tdl)] /\ at' = 1
  BY DEF StartRound, groups, lists, graphVars
<1>2. Len(tdl) \in Nat /\ Len(tdl) # 0
  BY <1>1, EmptyHolds DEF SortInv, ListsTypeOK
<1>3. CursorInPlace'
  BY <1>1, <1>2 DEF CursorInPlace, Calling
<1>4. ListsTypeOK' /\ HeldOnce' /\ Unused' /\ ListsDistinct'
  BY <1>1 DEF SortInv, ListsTypeOK, HeldOnce, Held, Places, Unused, ListsDistinct
<1>5. TakenInOrder'
  BY <1>1, SameRefList DEF SortInv, TakenInOrder, Calling, graphVars
<1>6. NothingLost'
  BY <1>1 DEF SortInv, NothingLost, Done, Calling
<1> QED
  BY <1>1, <1>3, <1>4, <1>5, <1>6 DEF SortInv

LEMMA StartDividingKeeps ==
  ASSUME SortInv, StartDividing, UNCHANGED graphVars
  PROVE  SortInv'
<1>1. /\ types' = types /\ sorting = "all" /\ sorting' = "divide" /\ tdl' = tdl
      /\ linear' = subList /\ subList' = << >> /\ tdl # << >>
      /\ prims' = prims /\ noRefs' = noRefs /\ notRefd' = notRefd
      /\ nonRec' = nonRec /\ rec' = rec /\ sortedNonRec' = sortedNonRec /\ cLists' = cLists
      /\ typeDefs' = typeDefs /\ at' = 1 /\ last' = tdl[Len(tdl)]
  BY DEF StartDividing, LoopOver, Returns, groups, graphVars
<1>2. linear = << >> /\ nonRec = << >> /\ rec = << >> /\ sortedNonRec = << >> /\ cLists = << >>
  BY <1>1 DEF SortInv, Unused
<1>3. Len(tdl) \in Nat /\ Len(tdl) # 0
  BY <1>1, EmptyHolds DEF SortInv, ListsTypeOK
<1>4. Held' = Held
  BY <1>1, <1>2, EmptyHolds DEF Held
<1>5. Places' = Places
  BY <1>1, <1>2, EmptyHolds, SeqFacts DEF Places
<1>6. ListsTypeOK'
  BY <1>1, EmptyHolds DEF SortInv, ListsTypeOK, Phase
<1>7. HeldOnce' /\ Unused' /\ CursorInPlace' /\ NothingLost' /\ TakenInOrder'
  BY <1>1, <1>2, <1>3, <1>4, <1>5
     DEF SortInv, HeldOnce, Unused, CursorInPlace, NothingLost, Done, TakenInOrder, Calling
<1>8. ListsDistinct'
  BY <1>1, <1>2, EmptyHolds DEF SortInv, ListsDistinct
<1> QED
  BY <1>1, <1>6, <1>7, <1>8 DEF SortInv

LEMMA SortedNonRecKeeps ==
  ASSUME SortInv, SortedNonRec, UNCHANGED graphVars
  PROVE  SortInv'
<1>1. /\ types' = types /\ sorting = "nonRec" /\ sorting' = "strip"
      /\ sortedNonRec' = subList \o tdl /\ subList' = << >> /\ tdl' = rec /\ rec' = << >>
      /\ prims' = prims /\ noRefs' = noRefs /\ notRefd' = notRefd
      /\ linear' = linear /\ nonRec' = nonRec /\ cLists' = cLists /\ typeDefs' = typeDefs
      /\ at' = IF rec = << >> THEN 0 ELSE 1
      /\ rec # << >> => last' = rec[Len(rec)]
  BY DEF SortedNonRec, Returns, groups, graphVars
<1>2. nonRec = << >> /\ sortedNonRec = << >> /\ cLists = << >>
  BY <1>1 DEF SortInv, Unused
<1>3. tdl \in Seq(Nat) /\ subList \in Seq(Nat) /\ rec \in Seq(Nat)
  BY DEF SortInv, ListsTypeOK
<1>4. /\ sortedNonRec' \in Seq(Nat)
      /\ Len(sortedNonRec') = Len(subList) + Len(tdl)
      /\ ToSet(sortedNonRec') = ToSet(subList) \cup ToSet(tdl)
  BY <1>1, <1>3, ConcatHolds
<1>5. Held' = Held
  BY <1>1, <1>2, <1>4, EmptyHolds DEF Held
<1>6. Places' = Places
  BY <1>1, <1>2, <1>4, EmptyHolds, SeqFacts DEF Places
<1>7. ListsTypeOK'
  BY <1>1, <1>3, <1>4, EmptyHolds DEF SortInv, ListsTypeOK, Phase
<1>8. CursorInPlace'
  BY <1>1, <1>3, EmptyHolds DEF CursorInPlace
<1>9. HeldOnce' /\ Unused' /\ NothingLost' /\ TakenInOrder'
  BY <1>1, <1>2, <1>5, <1>6
     DEF SortInv, HeldOnce, Unused, NothingLost, Done, TakenInOrder, Calling
<1>10. ListsDistinct'
  BY <1>1, EmptyHolds DEF SortInv, ListsDistinct
<1> QED
  BY <1>1, <1>7, <1>8, <1>9, <1>10 DEF SortInv

-----------------------------------------------------------------------------
(* The theorems                                                             *)

LEMMA InitSortInv == Init => SortInv
<1> SUFFICES ASSUME Init PROVE SortInv
  OBVIOUS
<1>1. /\ types \in Module /\ sorting = "group" /\ at = 0
      /\ prims = << >> /\ noRefs = << >> /\ notRefd = << >> /\ tdl = << >> /\ subList = << >>
      /\ linear = << >> /\ nonRec = << >> /\ rec = << >> /\ sortedNonRec = << >> /\ cLists = << >>
  BY DEF Init, DependencyInit
<1>2. ListsTypeOK /\ Unused /\ CursorInPlace /\ ListsDistinct
  BY <1>1, EmptyHolds DEF ListsTypeOK, Phase, Unused, CursorInPlace, ListsDistinct
<1>3. Places = 0 /\ Held = {}
  BY <1>1, EmptyHolds DEF Places, Held
<1>4. HeldOnce /\ TakenInOrder /\ NothingLost
  BY <1>1, <1>3 DEF HeldOnce, TakenInOrder, Calling, NothingLost, Done
<1> QED
  BY <1>1, <1>2, <1>4 DEF SortInv

\* The passes before the sort, and a step that is not one, leave its lists alone
\* and do not sort: the flags they set are no part of the invariant.
LEMMA OtherStepKeeps ==
  ASSUME SortInv, UNCHANGED <<types, target, dependencyVars>>
  PROVE  SortInv'
<1>1. /\ types' = types /\ target' = target /\ sorting' = sorting /\ at' = at /\ last' = last
      /\ prims' = prims /\ noRefs' = noRefs /\ notRefd' = notRefd
      /\ tdl' = tdl /\ subList' = subList
      /\ linear' = linear /\ nonRec' = nonRec /\ rec' = rec
      /\ sortedNonRec' = sortedNonRec /\ cLists' = cLists /\ typeDefs' = typeDefs
  BY DEF dependencyVars, groups, call, lists
<1>2. ListsTypeOK' /\ HeldOnce' /\ Unused' /\ ListsDistinct' /\ CursorInPlace'
  <2>1. Held' = Held /\ Places' = Places
    BY <1>1 DEF Held, Places
  <2>2. ListsTypeOK'
    BY <1>1 DEF SortInv, ListsTypeOK
  <2>3. HeldOnce'
    BY <1>1, <2>1 DEF SortInv, HeldOnce
  <2>4. Unused'
    BY <1>1 DEF SortInv, Unused
  <2>5. ListsDistinct'
    BY <1>1 DEF SortInv, ListsDistinct
  <2>6. CursorInPlace'
    BY <1>1 DEF SortInv, CursorInPlace
  <2> QED
    BY <2>2, <2>3, <2>4, <2>5, <2>6
<1>3. TakenInOrder'
  BY <1>1, SameRefList DEF SortInv, TakenInOrder, Calling
<1>4. NothingLost'
  BY <1>1 DEF SortInv, NothingLost, Done, TypeDefs
<1> QED
  BY <1>1, <1>2, <1>3, <1>4 DEF SortInv

LEMMA NextSortInv == SortInv /\ [Next]_vars => SortInv'
<1> SUFFICES ASSUME SortInv, [Next]_vars PROVE SortInv'
  OBVIOUS
<1>1. CASE Sort
  <2>1. DependencyNext /\ UNCHANGED graphVars
    BY <1>1 DEF Sort, graphVars
  <2>2. CASE GroupTypeDef
    BY <2>1, <2>2, GroupTypeDefKeeps
  <2>3. CASE NothingToSort
    BY <2>1, <2>3, NothingToSortKeeps
  <2>4. CASE SortTypeDefs
    BY <2>1, <2>4, SortTypeDefsKeeps
  <2>5. CASE StartRound
    BY <2>1, <2>5, StartRoundKeeps
  <2>6. CASE KeepTypeDef
    BY <2>1, <2>6, GoOnKeeps DEF KeepTypeDef, Calling
  <2>7. CASE TakeTypeDef
    BY <2>1, <2>7, TakeTypeDefKeeps
  <2>8. CASE SimpleSortWorked
    BY <2>1, <2>8, SimpleSortWorkedKeeps
  <2>9. CASE StartDividing
    BY <2>1, <2>9, StartDividingKeeps
  <2>10. CASE KeepRecursive
    BY <2>1, <2>10, GoOnKeeps DEF KeepRecursive
  <2>11. CASE MoveNonRecursive
    BY <2>1, <2>11, MoveNonRecursiveKeeps
  <2>12. CASE Divided
    BY <2>1, <2>12, DividedKeeps
  <2>13. CASE SortedNonRec
    BY <2>1, <2>13, SortedNonRecKeeps
  <2>14. CASE KeepOther
    BY <2>1, <2>14, GoOnKeeps DEF KeepOther
  <2>15. CASE StripCList
    BY <2>1, <2>15, StripCListKeeps
  <2>16. CASE Stripped
    BY <2>1, <2>16, StrippedKeeps
  <2>17. CASE SortedRec
    BY <2>1, <2>17, SortedRecKeeps
  <2> QED
    BY <2>1, <2>2, <2>3, <2>4, <2>5, <2>6, <2>7, <2>8, <2>9, <2>10, <2>11, <2>12, <2>13,
       <2>14, <2>15, <2>16, <2>17 DEF DependencyNext
<1>2. CASE Mark \/ FillTDIDefaults \/ GetTypeFollows \/ GetTypeReturns \/ UNCHANGED vars
  <2>1. UNCHANGED <<types, target, dependencyVars>>
    BY <1>2 DEF Mark, FillTDIDefaults, GetTypeFollows, GetTypeReturns, vars
  <2> QED
    BY <2>1, OtherStepKeeps
<1> QED
  BY <1>1, <1>2 DEF Next

LEMMA SortInvHolds == Spec => []SortInv
BY InitSortInv, NextSortInv, PTL DEF Spec

\* Whatever the module, the sorted list has each of its definitions once:
\* the lists a definition goes through hand it on (dependency.c:474-482).
THEOREM NoDefinitionLost == Spec => []NothingLost
<1>1. SortInv => NothingLost
  BY DEF SortInv
<1> QED
  BY <1>1, SortInvHolds, PTL

\* Whatever the module and the back end, a definition that a call of
\* RemoveAndSortIndependents has taken out names none that the call left or
\* took out after it (dependency.c:281-307).
THEOREM IndependentsInOrder == Spec => []TakenInOrder
<1>1. SortInv => TakenInOrder
  BY DEF SortInv
<1> QED
  BY <1>1, SortInvHolds, PTL

-----------------------------------------------------------------------------
(* Places in a list                                                         *)

Precedes(list, a, b) == \E i, j \in DOMAIN list : i < j /\ list[i] = a /\ list[j] = b

LEMMA PrecedesInConcat ==
  ASSUME NEW s \in Seq(Nat), NEW t \in Seq(Nat), NEW a, NEW b,
         \/ Precedes(s, a, b)
         \/ Precedes(t, a, b)
         \/ a \in ToSet(s) /\ b \in ToSet(t)
  PROVE  Precedes(s \o t, a, b)
<1>1. /\ DOMAIN (s \o t) = 1 .. Len(s) + Len(t)
      /\ \A i \in 1 .. Len(s) : (s \o t)[i] = s[i]
      /\ \A i \in 1 .. Len(t) : (s \o t)[Len(s) + i] = t[i]
      /\ DOMAIN s = 1 .. Len(s) /\ DOMAIN t = 1 .. Len(t)
      /\ Len(s) \in Nat /\ Len(t) \in Nat
  OBVIOUS
<1>2. /\ \A i \in DOMAIN s : i \in DOMAIN (s \o t) /\ i <= Len(s) /\ (s \o t)[i] = s[i]
      /\ \A i \in DOMAIN t : /\ Len(s) + i \in DOMAIN (s \o t) /\ Len(s) < Len(s) + i
                             /\ (s \o t)[Len(s) + i] = t[i]
  BY <1>1
<1>3. CASE Precedes(s, a, b)
  BY <1>2, <1>3 DEF Precedes
<1>4. CASE Precedes(t, a, b)
  <2>1. PICK i, j \in DOMAIN t : i < j /\ t[i] = a /\ t[j] = b
    BY <1>4 DEF Precedes
  <2>2. Len(s) + i < Len(s) + j
    BY <1>1, <2>1
  <2> QED
    BY <1>2, <2>1, <2>2 DEF Precedes
<1>5. CASE a \in ToSet(s) /\ b \in ToSet(t)
  <2>1. PICK i \in DOMAIN s, j \in DOMAIN t : s[i] = a /\ t[j] = b
    BY <1>5 DEF ToSet
  <2>2. i < Len(s) + j
    BY <1>1
  <2> QED
    BY <1>2, <2>1, <2>2 DEF Precedes
<1> QED
  BY <1>3, <1>4, <1>5

\* A list of all the numbers to n, as long as n, has each of them once.
LEMMA PrecedesIsBefore ==
  ASSUME NEW n \in Nat, NEW list \in Seq(Nat), Len(list) = n, ToSet(list) = 1 .. n,
         NEW a, NEW b, Precedes(list, a, b)
  PROVE  (CHOOSE i \in DOMAIN list : list[i] = a) < (CHOOSE i \in DOMAIN list : list[i] = b)
<1>1. DOMAIN list = 1 .. n /\ list \in [1 .. n -> 1 .. n]
  <2>1. DOMAIN list = 1 .. n
    OBVIOUS
  <2>2. \A i \in 1 .. n : list[i] \in 1 .. n
    BY <2>1 DEF ToSet
  <2> QED
    BY <2>1, <2>2
<1>2. list \in Surjection(1 .. n, 1 .. n)
  <2>1. \A k \in 1 .. n : \E i \in 1 .. n : list[i] = k
    BY <1>1 DEF ToSet
  <2> QED
    BY <1>1, <2>1 DEF Surjection
<1>3. IsFiniteSet(1 .. n)
  BY FS_Interval
<1>4. \A i, j \in 1 .. n : list[i] = list[j] => i = j
  <2>1. list \in Injection(1 .. n, 1 .. n)
    BY <1>2, <1>3, FS_SurjSameCardinalityImpliesInj
  <2> QED
    BY <2>1 DEF Injection, IsInjective
<1>5. PICK i, j \in 1 .. n : i < j /\ list[i] = a /\ list[j] = b
  BY <1>1 DEF Precedes
<1>6. (CHOOSE k \in DOMAIN list : list[k] = a) = i /\ (CHOOSE k \in DOMAIN list : list[k] = b) = j
  BY <1>1, <1>4, <1>5
<1> QED
  BY <1>5, <1>6

\* What is at no later place is at an earlier one.
LEMMA NotLaterPrecedes ==
  ASSUME NEW s \in Seq(Nat), NEW td \in ToSet(s), NEW d \in ToSet(s), d # td,
         \A i \in DOMAIN s : s[i] = td => d \notin {s[j] : j \in i+1 .. Len(s)}
  PROVE  Precedes(s, d, td)
<1>1. DOMAIN s = 1 .. Len(s) /\ Len(s) \in Nat
  OBVIOUS
<1>2. PICK i, j \in 1 .. Len(s) : s[i] = d /\ s[j] = td
  BY <1>1 DEF ToSet
<1>3. i # j /\ ~(i \in j+1 .. Len(s))
  BY <1>1, <1>2
<1>4. i < j
  BY <1>1, <1>3
<1> QED
  BY <1>1, <1>2, <1>4 DEF Precedes

-----------------------------------------------------------------------------
(* Types                                                                    *)

CursorsInElements ==
  \A i \in DOMAIN frames : frames[i].at <= Len(ElementsOf(frames[i].td)) + 1

FlagsAreTypeDefs == Flagged \subseteq TypeDefs

HeldAreTypeDefs == Held \subseteq TypeDefs

UnsortedBefore == sorting # "done" => typeDefs = [td \in TypeDefs |-> td]

TypesInv == CursorsInElements /\ FlagsAreTypeDefs /\ HeldAreTypeDefs /\ UnsortedBefore

LEMMA TypesInvIsEnough ==
  ASSUME WalkInv, LinkedInv, SortInv, TypesInv
  PROVE  TypeOK
<1>1. IsModule(types)
  BY ModuleAssumption DEF WalkInv, WalkTypeOK
<1>2. original \in 0 .. Len(types) /\ asked \in 0 .. Len(types) /\ linked \in 0 .. Len(types)
  BY DEF WalkInv, WalkTypeOK, LinkedInv
<1>3. \A i \in DOMAIN frames :
        frames[i].td \in TypeDefs /\ frames[i].at \in 1 .. Len(ElementsOf(frames[i].td)) + 1
  <2> TAKE i \in DOMAIN frames
  <2>1. frames[i] \in FrameType
    BY DEF WalkInv, WalkTypeOK
  <2>2. frames[i].td \in TypeDefs /\ frames[i].at \in Nat \ {0}
    BY <2>1 DEF FrameType
  <2>3. Len(ElementsOf(frames[i].td)) \in Nat
    BY <1>1, <2>2, ModuleFacts
  <2> QED
    BY <2>2, <2>3 DEF TypesInv, CursorsInElements
<1>4. Flagged \cup entered \subseteq TypeDefs
  <2>1. frames \in Seq(FrameType)
    BY DEF WalkInv, WalkTypeOK
  <2>2. \A i \in 2 .. Len(frames) : i \in DOMAIN frames
    BY <2>1
  <2>3. entered \subseteq TypeDefs
    BY <1>3, <2>2 DEF WalkInv, EnteredIsPath
  <2> QED
    BY <2>3 DEF TypesInv, FlagsAreTypeDefs
<1>5. sorting \in Phase /\ at \in 0 .. Len(tdl)
  BY SeqFacts DEF SortInv, ListsTypeOK, CursorInPlace
<1>6. ToSet(typeDefs) \subseteq TypeDefs
  <2>1. CASE sorting = "done"
    BY <2>1 DEF SortInv, NothingLost, Done
  <2>2. CASE sorting # "done"
    BY <2>2 DEF TypesInv, UnsortedBefore, ToSet
  <2> QED
    BY <2>1, <2>2
<1>7. \A list \in {prims, noRefs, notRefd, tdl, subList, linear, nonRec, rec, sortedNonRec,
                   cLists, typeDefs} : ToSet(list) \subseteq TypeDefs
  BY <1>6 DEF TypesInv, HeldAreTypeDefs, Held
<1> QED
  BY <1>2, <1>3, <1>4, <1>5, <1>7 DEF TypeOK

\* The walk: a cursor moves on only from an element, and only the definition
\* the walk began at is flagged.
LEMMA MarkKeepsTypes ==
  ASSUME WalkInv, TypesInv, Mark
  PROVE  CursorsInElements' /\ FlagsAreTypeDefs'
<1>1. types' = types /\ TypeDefs' = TypeDefs /\ (\A td : ElementsOf(td)' = ElementsOf(td))
  BY SameTypes DEF Mark
<1>2. IsModule(types) /\ frames \in Seq(FrameType) /\ WalkTypeOK
  BY ModuleAssumption DEF WalkInv, WalkTypeOK
<1>3. ASSUME AtElement
      PROVE  /\ \A i \in DOMAIN Advanced : Advanced[i].at <= Len(ElementsOf(Advanced[i].td)) + 1
             /\ original \in TypeDefs
  <2>1. LET n == Len(frames)
        IN  /\ n \in Nat \ {0} /\ DOMAIN frames = 1 .. n /\ DOMAIN Advanced = 1 .. n
            /\ Advanced \in Seq(FrameType) /\ Len(Advanced) = n
            /\ \A i \in 1 .. n :
                 /\ Advanced[i].td = frames[i].td /\ Advanced[i].empty = frames[i].empty
                 /\ Advanced[i].optional = frames[i].optional
                 /\ i < n => Advanced[i].at = frames[i].at
            /\ Advanced[n].at = frames[n].at + 1
    BY <1>2, <1>3, AdvancedFields
  <2>2. ASSUME NEW i \in DOMAIN Advanced
        PROVE  Advanced[i].at <= Len(ElementsOf(Advanced[i].td)) + 1
    <3>1. i \in DOMAIN frames /\ Advanced[i].td = frames[i].td
      BY <2>1, <2>2
    <3>2. frames[i] \in FrameType
      BY <1>2, <3>1
    <3>3. frames[i].at \in Nat /\ Len(ElementsOf(frames[i].td)) \in Nat
      BY <1>2, <3>2, ModuleFacts DEF FrameType
    <3>4. CASE i < Len(frames)
      BY <2>1, <3>1, <3>4 DEF TypesInv, CursorsInElements
    <3>5. CASE i = Len(frames)
      <4>1. frames[i].at <= Len(ElementsOf(frames[i].td))
        BY <1>3, <3>5 DEF AtElement, Top
      <4> QED
        BY <2>1, <3>1, <3>3, <3>5, <4>1
    <3> QED
      BY <2>1, <2>2, <3>4, <3>5
  <2>3. original \in TypeDefs
    BY <1>3 DEF WalkInv, BeganAtOriginal, AtElement
  <2> QED
    BY <2>2, <2>3
<1>4. ASSUME NEW td \in TypeDefs, NEW o, NEW e
      PROVE  Frame(td, o, e).at <= Len(ElementsOf(Frame(td, o, e).td)) + 1
  BY <1>2, ModuleFacts DEF Frame
<1>5. CASE MkRecTypeDef
  <2>1. original + 1 \in TypeDefs
    BY <1>2, <1>5, ModuleFacts DEF MkRecTypeDef, WalkTypeOK
  <2>2. DOMAIN frames' = 1 .. 1 /\ frames'[1] = Frame(original + 1, FALSE, TRUE)
    BY <1>5 DEF MkRecTypeDef
  <2>3. frames'[1].at <= Len(ElementsOf(frames'[1].td)) + 1
    BY <1>4, <2>1, <2>2
  <2>4. CursorsInElements'
    <3> SUFFICES ASSUME NEW i \in DOMAIN frames'
                 PROVE  frames'[i].at <= Len(ElementsOf(frames'[i].td)) + 1
      BY <1>1 DEF CursorsInElements
    <3>1. i = 1
      BY <2>2
    <3> QED
      BY <2>3, <3>1
  <2> QED
    BY <1>1, <1>5, <2>4 DEF MkRecTypeDef, TypesInv, FlagsAreTypeDefs, Flagged
<1>6. CASE RefToOriginal
  BY <1>1, <1>3, <1>6 DEF RefToOriginal, CursorsInElements, TypesInv, FlagsAreTypeDefs, Flagged
<1>7. CASE PassRef
  BY <1>1, <1>3, <1>7 DEF PassRef, CursorsInElements, TypesInv, FlagsAreTypeDefs, Flagged
<1>8. CASE EnterRef
  <2> DEFINE new == Frame(Element.to, Optional, Empty)
  <2>1. AtElement /\ frames' = Append(Advanced, new)
    BY <1>8 DEF EnterRef
  <2>2. new.at <= Len(ElementsOf(new.td)) + 1
    BY <1>2, <1>4, <2>1, ElementIsATypeDef
  <2>3. Advanced \in Seq(FrameType)
    BY <1>2, <2>1, AdvancedSamePath
  <2> HIDE DEF new
  <2>4. \A i \in DOMAIN frames' : (i \in DOMAIN Advanced /\ frames'[i] = Advanced[i]) \/ frames'[i] = new
    BY <2>1, <2>3
  <2>5. CursorsInElements'
    <3> SUFFICES ASSUME NEW i \in DOMAIN frames'
                 PROVE  frames'[i].at <= Len(ElementsOf(frames'[i].td)) + 1
      BY <1>1 DEF CursorsInElements
    <3> QED
      BY <1>3, <2>1, <2>2, <2>4
  <2> QED
    BY <1>1, <1>8, <2>5 DEF EnterRef, TypesInv, FlagsAreTypeDefs, Flagged
<1>9. CASE MkRecTypeReturns
  <2>1. \A i \in DOMAIN frames' : i \in DOMAIN frames /\ frames'[i] = frames[i]
    BY <1>2, <1>9 DEF MkRecTypeReturns
  <2>2. CursorsInElements'
    BY <1>1, <2>1 DEF CursorsInElements, TypesInv
  <2> QED
    BY <1>1, <1>9, <2>2 DEF MkRecTypeReturns, TypesInv, FlagsAreTypeDefs, Flagged
<1> QED
  BY <1>5, <1>6, <1>7, <1>8, <1>9 DEF Mark, RecursiveNext

\* The sort: what a group takes is the definition that comes next, and every
\* other step hands on what the lists hold.
LEMMA SortKeepsTypes ==
  ASSUME SortInv, SortInv', TypesInv, Sort
  PROVE  TypesInv'
<1>1. /\ types' = types /\ TypeDefs' = TypeDefs /\ (\A td : ElementsOf(td)' = ElementsOf(td))
      /\ frames' = frames /\ recursive' = recursive /\ noValues' = noValues /\ infinite' = infinite
  BY SameTypes DEF Sort, recursiveVars
<1>2. CursorsInElements' /\ FlagsAreTypeDefs'
  BY <1>1 DEF TypesInv, CursorsInElements, FlagsAreTypeDefs, Flagged
<1>3. \/ GroupTypeDef
      \/ \E refs : Finish(refs) /\ UNCHANGED lists
      \/ sorting' \notin {"group", "done"} /\ typeDefs' = typeDefs /\ sorting # "done"
  BY Zenon DEF Sort, DependencyNext, Calling, NothingToSort, SortTypeDefs, Call, StartRound, KeepTypeDef,
         TakeTypeDef, SimpleSortWorked, Returns, StartDividing, LoopOver, KeepRecursive,
         MoveNonRecursive, Divided, SortedNonRec, KeepOther, StripCList, Stripped, SortedRec
<1>4. TypeDefs = 1 .. Len(types)
  BY SeqFacts
<1>5. CASE GroupTypeDef
  <2> DEFINE x == Grouped + 1
  <2>1. /\ sorting = "group" /\ sorting' = "group" /\ Grouped < Len(types) /\ typeDefs' = typeDefs
        /\ subList' = subList /\ linear' = linear /\ nonRec' = nonRec /\ rec' = rec
        /\ sortedNonRec' = sortedNonRec /\ cLists' = cLists
    BY <1>5 DEF GroupTypeDef, call, lists
  <2>2. Grouped \in Nat /\ x \in TypeDefs
    BY <1>4, <2>1, SeqFacts DEF Grouped
  <2>3. ASSUME NEW s \in Seq(Nat), NEW b PROVE ToSet(Grows(s, b)) \subseteq ToSet(s) \cup {x}
    <3>1. x \in Nat
      BY <2>2
    <3> QED
      BY <3>1, AppendHolds DEF Grows
  <2>4. \E p, r, m, t : /\ prims' = Grows(prims, p) /\ noRefs' = Grows(noRefs, r)
                        /\ notRefd' = Grows(notRefd, m) /\ tdl' = Grows(tdl, t)
    BY <1>5 DEF GroupTypeDef
  <2>5. prims \in Seq(Nat) /\ noRefs \in Seq(Nat) /\ notRefd \in Seq(Nat) /\ tdl \in Seq(Nat)
    BY DEF SortInv, ListsTypeOK
  <2>6. /\ ToSet(prims') \subseteq ToSet(prims) \cup {x} /\ ToSet(noRefs') \subseteq ToSet(noRefs) \cup {x}
        /\ ToSet(notRefd') \subseteq ToSet(notRefd) \cup {x} /\ ToSet(tdl') \subseteq ToSet(tdl) \cup {x}
    BY <2>3, <2>4, <2>5
  <2> HIDE DEF x
  <2>7. Held' \subseteq Held \cup {x}
    BY <2>1, <2>6 DEF Held
  <2> QED
    BY <1>1, <1>2, <2>1, <2>2, <2>7 DEF TypesInv, HeldAreTypeDefs, UnsortedBefore
<1>6. CASE \E refs : Finish(refs) /\ UNCHANGED lists
  <2>1. Held' = Held /\ sorting' = "done"
    BY <1>6 DEF Finish, Held, groups, call, lists
  <2> QED
    BY <1>1, <1>2, <2>1 DEF TypesInv, HeldAreTypeDefs, UnsortedBefore
<1>7. CASE sorting' \notin {"group", "done"} /\ typeDefs' = typeDefs /\ sorting # "done"
  <2>1. Held' = 1 .. Len(types)
    BY <1>1, <1>7 DEF SortInv, HeldOnce
  <2> QED
    BY <1>1, <1>2, <1>4, <1>7, <2>1 DEF TypesInv, HeldAreTypeDefs, UnsortedBefore
<1> QED
  BY <1>3, <1>5, <1>6, <1>7

LEMMA NextKeepsTypes == WalkInv /\ SortInv /\ SortInv' /\ TypesInv /\ [Next]_vars => TypesInv'
<1> SUFFICES ASSUME WalkInv, SortInv, SortInv', TypesInv, [Next]_vars PROVE TypesInv'
  OBVIOUS
<1>1. CASE Sort
  BY <1>1, SortKeepsTypes
<1>2. ASSUME UNCHANGED <<types, dependencyVars>> PROVE HeldAreTypeDefs' /\ UnsortedBefore'
  <2>1. Held' = Held /\ TypeDefs' = TypeDefs /\ typeDefs' = typeDefs /\ sorting' = sorting
    BY <1>2 DEF Held, TypeDefs, dependencyVars, groups, call, lists
  <2> QED
    BY <2>1 DEF TypesInv, HeldAreTypeDefs, UnsortedBefore
<1>3. CASE Mark
  <2>1. UNCHANGED <<types, dependencyVars>>
    BY <1>3 DEF Mark
  <2> QED
    BY <1>2, <1>3, <2>1, MarkKeepsTypes DEF TypesInv
<1>4. CASE FillTDIDefaults \/ GetTypeFollows \/ GetTypeReturns \/ UNCHANGED vars
  <2>1. UNCHANGED <<types, recursive, dependencyVars, recursiveVars>>
    BY <1>4 DEF FillTDIDefaults, GetTypeFollows, GetTypeReturns, vars
  <2>2. CursorsInElements' /\ FlagsAreTypeDefs'
    BY <2>1 DEF TypesInv, CursorsInElements, FlagsAreTypeDefs, Flagged, recursiveVars, TypeDefs, ElementsOf
  <2> QED
    BY <1>2, <2>1, <2>2 DEF TypesInv
<1> QED
  BY <1>1, <1>3, <1>4 DEF Next

LEMMA InitTypesInv == Init => TypesInv
<1> SUFFICES ASSUME Init PROVE TypesInv
  OBVIOUS
<1>1. Held = {}
  BY EmptyHolds DEF Init, DependencyInit, Held
<1> QED
  BY <1>1 DEF Init, DependencyInit, RecursiveInit, TypesInv, CursorsInElements, FlagsAreTypeDefs, Flagged,
              HeldAreTypeDefs, UnsortedBefore

\* Whatever the module, the walk, GetType and the sort stay within it: every
\* cursor is at an element or a place of the list it goes over, or behind the
\* last one.
THEOREM CompilerTypeCorrect == Spec => []TypeOK
<1> DEFINE Inv == WalkInv /\ LinkedInv /\ SortInv /\ TypesInv
<1>1. Init => Inv
  <2>1. Init => Len(types) \in Nat
    BY ModuleAssumption, ModuleFacts DEF Init
  <2> QED
    BY <2>1, InitWalkInv, InitSortInv, InitTypesInv DEF Init, LinkedInv
<1>2. Inv /\ [Next]_vars => Inv'
  BY NextKeepsWalkInv, NextKeepsLinked, NextSortInv, NextKeepsTypes
<1>3. Inv => TypeOK
  BY TypesInvIsEnough
<1> QED
  BY <1>1, <1>2, <1>3, PTL DEF Spec

-----------------------------------------------------------------------------
(* What the sort knows of its lists                                         *)

SortsMarked == sorting # "group" => AllMarked

Groups ==
  /\ \A td \in ToSet(prims) \cup ToSet(noRefs) : RefsOf(td) = {}
  /\ \A td \in ToSet(notRefd) : ~Referenced(td)

\* The places of tdl that the running loop has passed.
Passed == 1 .. (IF at = 0 THEN Len(tdl) ELSE at - 1)

\* While a round has taken nothing out, what it has passed must stay.
Rounds ==
  Calling =>
    /\ lastSLCount \in Int /\ lastSLCount <= Len(subList)
    /\ lastSLCount = Len(subList) => \A i \in Passed : MustStay(tdl[i])

\* The recursive definitions that the first call left, and the others.
Parted ==
  /\ sorting = "divide" =>
       /\ ToSet(nonRec) \cap recursive = {}
       /\ \A i \in Passed : tdl[i] \in recursive
  /\ sorting = "nonRec" =>
       /\ (ToSet(tdl) \cup ToSet(subList)) \cap recursive = {}
       /\ ToSet(rec) \subseteq recursive
  /\ sorting \in {"strip", "weighted"} =>
       /\ ToSet(tdl) \cup ToSet(subList) \cup ToSet(cLists) \subseteq recursive
       /\ ToSet(sortedNonRec) \cap recursive = {}
  /\ \A td \in ToSet(cLists) : IsCList(td)

InOrder(list) ==
  \A i \in DOMAIN list : RefsOf(list[i]) \cap {list[j] : j \in i+1 .. Len(list)} = {}

Rest ==
  ToSet(tdl) \cup ToSet(subList) \cup ToSet(nonRec) \cup ToSet(rec) \cup ToSet(sortedNonRec)
    \cup ToSet(cLists)

\* What the first call took out names nothing that is sorted after it, and
\* nothing that is not recursive names what comes after it.
Ordered ==
  /\ InOrder(linear) /\ InOrder(sortedNonRec)
  /\ sorting \notin {"group", "all"} =>
       \A td \in ToSet(linear) : RefsOf(td) \cap Rest = {}

\* What has to come before a definition, by ReferredFirst or by ByValueFirst.
Earlier(td) ==
  IF td \in recursive
  THEN {d \in ByValueRefsOf(td) \cap recursive : Unknotted(td)}
  ELSE RefsOf(td)

DoneInOrder == Done => \A td \in TypeDefs : \A d \in Earlier(td) : Before(d, td)

OrderInv == SortsMarked /\ Groups /\ Rounds /\ Parted /\ Ordered /\ DoneInOrder

\* Nothing of this changes while the definitions and the target stay.
LEMMA SameGraph ==
  ASSUME UNCHANGED <<types, target>>
  PROVE  /\ TypeDefs' = TypeDefs
         /\ \A td : RefsOf(td)' = RefsOf(td)
         /\ \A td : Referenced(td)' = Referenced(td)
         /\ \A td : ByValueRefsOf(td)' = ByValueRefsOf(td)
         /\ \A td : IsCList(td)' = IsCList(td)
         /\ \A td : Unknotted(td)' = Unknotted(td)
<1>1. TypeDefs' = TypeDefs /\ (\A td : RefsOf(td)' = RefsOf(td)) /\ (\A td : Chain(td)' = Chain(td))
      /\ \A td : ElementsOf(td)' = ElementsOf(td)
  BY SameTypes
<1>2. \A td : Referenced(td)' = Referenced(td)
  BY <1>1 DEF Referenced
<1>3. \A td : Builtin(td)' = Builtin(td)
  BY <1>1 DEF Builtin, IsRef
<1>4. \A td, e : IsPtr(td, e)' = IsPtr(td, e)
  BY <1>3 DEF IsPtr, CPtr, CxxPtr, IsList
<1>5. \A td : ByValueRefsOf(td)' = ByValueRefsOf(td)
  BY <1>1, <1>4 DEF ByValueRefsOf, IsList
<1>6. \A td : IsCList(td)' = IsCList(td)
  BY DEF IsCList, IsList
<1>7. \A td : ReachedBy(ByValueRefsOf, td)' = ReachedBy(ByValueRefsOf, td)
  BY DEF ReachedBy, ByValueRefsOf, IsPtr, CPtr, CxxPtr, Builtin, Chain, IsRef, IsList, Link, ElementsOf
<1>8. \A td : Unknotted(td)' = Unknotted(td)
  BY <1>7 DEF Unknotted, OnCycle
<1> QED
  BY <1>1, <1>2, <1>5, <1>6, <1>8

-----------------------------------------------------------------------------
(* Steps of the sort                                                        *)

LEMMA SortLeavesGraph ==
  ASSUME Sort
  PROVE  /\ UNCHANGED graphVars /\ DependencyNext /\ AllMarked /\ AllMarked'
         /\ types' = types /\ target' = target /\ recursive' = recursive
BY DEF Sort, graphVars, AllMarked, recursiveVars

LEMMA SortKeepsGroups ==
  ASSUME SortInv, Groups, Sort
  PROVE  Groups'
<1>1. /\ \A td : RefsOf(td)' = RefsOf(td)
      /\ \A td : Referenced(td)' = Referenced(td)
  BY SortLeavesGraph, SameGraph
<1>2. CASE GroupTypeDef
  <2> DEFINE x == Grouped + 1
             refd == ~IsDefinedByLibraryType(x) /\ Referenced(x)
  <2>1. IsModule(types)
    BY ModuleAssumption DEF SortInv
  <2>2. Grouped \in Nat /\ x \in TypeDefs
    <3>1. Grouped \in Nat /\ Grouped < Len(types)
      BY <1>2, SeqFacts DEF GroupTypeDef, Grouped
    <3> QED
      BY <3>1, SeqFacts
  <2>3. prims \in Seq(Nat) /\ noRefs \in Seq(Nat) /\ notRefd \in Seq(Nat) /\ x \in Nat
    BY <2>2 DEF SortInv, ListsTypeOK
  <2>4. /\ prims' = Grows(prims, IsDefinedByLibraryType(x))
        /\ notRefd' = Grows(notRefd, ~IsDefinedByLibraryType(x) /\ ~refd)
        /\ noRefs' = Grows(noRefs, refd /\ RefsOf(x) = {})
    BY <1>2 DEF GroupTypeDef
  <2>5. IsDefinedByLibraryType(x) => RefsOf(x) = {}
    <3>1. IsDefinedByLibraryType(x) => ElementsOf(x) = << >>
      BY <2>1, <2>2, ModuleFacts DEF IsDefinedByLibraryType
    <3> QED
      BY <3>1 DEF RefsOf
  <2>6. ASSUME NEW s \in Seq(Nat), NEW b, NEW td \in ToSet(Grows(s, b))
        PROVE  td \in ToSet(s) \/ (td = x /\ b)
    BY <2>3, <2>6, AppendHolds DEF Grows
  <2> HIDE DEF x
  <2>7. ASSUME NEW td \in ToSet(prims') \cup ToSet(noRefs') PROVE RefsOf(td) = {}
    <3>1. CASE td \in ToSet(prims')
      <4>1. td \in ToSet(prims) \/ (td = x /\ IsDefinedByLibraryType(x))
        BY <2>3, <2>4, <2>6, <3>1
      <4> QED
        BY <2>5, <4>1 DEF Groups
    <3>2. CASE td \in ToSet(noRefs')
      <4> DEFINE b == refd /\ RefsOf(x) = {}
      <4>1. noRefs' = Grows(noRefs, b)
        BY <2>4
      <4> HIDE DEF b
      <4>2. td \in ToSet(noRefs) \/ (td = x /\ b)
        BY <2>3, <2>6, <3>2, <4>1
      <4> QED
        BY <4>2 DEF Groups, b
    <3> QED
      BY <2>7, <3>1, <3>2
  <2>8. ASSUME NEW td \in ToSet(notRefd') PROVE ~Referenced(td)
    <3> DEFINE b == ~IsDefinedByLibraryType(x) /\ ~refd
    <3>1. notRefd' = Grows(notRefd, b)
      BY <2>4
    <3> HIDE DEF b
    <3>2. td \in ToSet(notRefd) \/ (td = x /\ b)
      BY <2>3, <2>6, <2>8, <3>1
    <3>3. b => ~Referenced(x)
      BY DEF b
    <3> QED
      BY <3>2, <3>3 DEF Groups
  <2> QED
    BY <1>1, <2>7, <2>8 DEF Groups
<1>3. CASE ~GroupTypeDef
  <2>1. prims' = prims /\ noRefs' = noRefs /\ notRefd' = notRefd
    BY <1>3, SortLeavesGraph, Zenon
       DEF DependencyNext, groups, NothingToSort, Finish, SortTypeDefs, StartRound, KeepTypeDef,
           TakeTypeDef, SimpleSortWorked, StartDividing, KeepRecursive, MoveNonRecursive, Divided,
           SortedNonRec, KeepOther, StripCList, Stripped, SortedRec
  <2> QED
    BY <1>1, <2>1 DEF Groups
<1> QED
  BY <1>2, <1>3

LEMMA CursorAtLast ==
  ASSUME SortInv, at > 0
  PROVE  /\ at \in 1 .. Len(tdl) /\ Len(tdl) \in Nat /\ DOMAIN tdl = 1 .. Len(tdl)
         /\ tdl[at] = last => at = Len(tdl)
<1>1. /\ at \in 1 .. Len(tdl) /\ Len(tdl) \in Nat /\ DOMAIN tdl = 1 .. Len(tdl)
      /\ last = tdl[Len(tdl)] /\ Len(tdl) \in 1 .. Len(tdl)
  BY SeqFacts DEF SortInv, ListsTypeOK, CursorInPlace
<1>2. \A i, j \in DOMAIN tdl : tdl[i] = tdl[j] => i = j
  BY DEF SortInv, ListsDistinct, Distinct
<1> QED
  BY <1>1, <1>2

\* A round begins with what it took out at nothing, goes on over definitions
\* that must stay, and has taken something out once it takes one out.
LEMMA SortKeepsRounds ==
  ASSUME SortInv, SortInv', Rounds, Sort
  PROVE  Rounds'
<1>1. UNCHANGED <<types, target>> /\ DependencyNext
  BY SortLeavesGraph
<1>2. CASE StartRound
  <2>1. /\ at' = 1 /\ lastSLCount' = Len(subList) /\ subList' = subList
        /\ Len(subList) \in Nat /\ Passed' = {}
    BY <1>2, SeqFacts DEF StartRound, Passed
  <2> QED
    BY <2>1 DEF Rounds
<1>3. CASE KeepTypeDef
  <2>1. /\ Calling /\ at > 0 /\ MustStay(tdl[at]) /\ GoOn /\ sorting' = sorting
        /\ subList' = subList /\ lastSLCount' = lastSLCount /\ tdl' = tdl
    BY <1>3 DEF KeepTypeDef, GoOn
  <2>2. \A td : MustStay(td)' = MustStay(td)
    BY <1>1, <2>1, SameRefList DEF MustStay
  <2>3. at \in 1 .. Len(tdl) /\ Len(tdl) \in Nat /\ (tdl[at] = last => at = Len(tdl))
    BY <2>1, CursorAtLast
  <2>4. \A i \in Passed' : i \in Passed \/ i = at
    BY <2>1, <2>3 DEF Passed, GoOn
  <2> QED
    BY <2>1, <2>2, <2>4 DEF Rounds, Calling
<1>4. CASE TakeTypeDef
  <2>1. Calling /\ subList' = Append(subList, tdl[at]) /\ lastSLCount' = lastSLCount
    BY <1>4 DEF TakeTypeDef
  <2>2. Len(subList') = Len(subList) + 1 /\ Len(subList) \in Nat
    BY <2>1 DEF SortInv, ListsTypeOK
  <2>3. lastSLCount \in Int /\ lastSLCount <= Len(subList)
    BY <2>1 DEF Rounds
  <2> QED
    BY <2>1, <2>2, <2>3 DEF Rounds
<1>5. CASE \E which : Call(which)
  <2>1. subList' = << >> /\ lastSLCount' = -1
    BY <1>5 DEF Call
  <2> QED
    BY <2>1 DEF Rounds
<1>6. CASE ~Calling'
  BY <1>6 DEF Rounds
<1>7. StartRound \/ KeepTypeDef \/ TakeTypeDef \/ (\E which : Call(which)) \/ ~Calling'
  BY <1>1, Zenon
     DEF DependencyNext, Calling, GroupTypeDef, NothingToSort, Finish, SortTypeDefs,
         SimpleSortWorked, StartDividing, LoopOver, KeepRecursive, MoveNonRecursive, Divided,
         SortedNonRec, KeepOther, StripCList, Stripped, SortedRec
<1> QED
  BY <1>2, <1>3, <1>4, <1>5, <1>6, <1>7

\* When a call returns and has left something, each definition that it left
\* names another that it left.
LEMMA LeftMustStay ==
  ASSUME SortInv, Rounds, NEW which, Returns(which), Calling, tdl # << >>
  PROVE  \A td \in ToSet(tdl) : RefList(td) \cap (ToSet(tdl) \ {td}) # {}
<1>1. at = 0 /\ ~Progressed
  BY DEF Returns
<1>2. lastSLCount = Len(subList)
  BY <1>1, SeqFacts DEF Rounds, Progressed
<1>3. \A i \in 1 .. Len(tdl) : MustStay(tdl[i])
  BY <1>1, <1>2 DEF Rounds, Passed
<1>4. DOMAIN tdl = 1 .. Len(tdl)
  BY DEF SortInv, ListsTypeOK
<1> QED
  BY <1>3, <1>4 DEF MustStay, ToSet

LEMMA RemoveAtBefore ==
  ASSUME NEW s \in Seq(Nat), NEW i \in 1 .. Len(s)
  PROVE  \A j \in 1 .. i - 1 : RemoveAt(s, i)[j] = s[j]
<1> DEFINE before == SubSeq(s, 1, i - 1)
           after  == SubSeq(s, i + 1, Len(s))
<1>1. before \in Seq(Nat) /\ Len(before) = i - 1 /\ \A j \in 1 .. i - 1 : before[j] = s[j]
  OBVIOUS
<1>2. after \in Seq(Nat)
  OBVIOUS
<1>3. RemoveAt(s, i) = before \o after
  BY DEF RemoveAt
<1> HIDE DEF before, after
<1> QED
  BY <1>1, <1>2, <1>3

\* A round hands definitions from tdl to subList.
LEMMA RoundHandsOn ==
  ASSUME SortInv, StartRound \/ KeepTypeDef \/ TakeTypeDef
  PROVE  /\ Calling /\ sorting' = sorting
         /\ ToSet(tdl') \cup ToSet(subList') = ToSet(tdl) \cup ToSet(subList)
         /\ linear' = linear /\ nonRec' = nonRec /\ rec' = rec
         /\ sortedNonRec' = sortedNonRec /\ cLists' = cLists
<1>1. CASE TakeTypeDef
  <2>1. /\ Calling /\ at > 0 /\ TakeOut /\ subList' = Append(subList, tdl[at]) /\ sorting' = sorting
        /\ linear' = linear /\ nonRec' = nonRec /\ rec' = rec
        /\ sortedNonRec' = sortedNonRec /\ cLists' = cLists /\ last' = last
    BY <1>1 DEF TakeTypeDef, lists
  <2>2. tdl[at] \in Nat /\ ToSet(tdl) = ToSet(tdl') \cup {tdl[at]}
    BY <2>1, TakeOutMoves
  <2>3. ToSet(subList') = ToSet(subList) \cup {tdl[at]}
    BY <2>1, <2>2, AppendHolds DEF SortInv, ListsTypeOK
  <2> QED
    BY <2>1, <2>2, <2>3
<1>2. CASE StartRound \/ KeepTypeDef
  BY <1>2 DEF StartRound, KeepTypeDef, GoOn, lists
<1> QED
  BY <1>1, <1>2

LEMMA SortKeepsParted ==
  ASSUME SortInv, SortInv', Parted, Sort
  PROVE  Parted'
<1>1. types' = types /\ target' = target /\ recursive' = recursive /\ DependencyNext
  BY SortLeavesGraph
<1>2. \A td : IsCList(td)' = IsCList(td)
  BY <1>1, SameGraph
<1>3. CASE StartRound \/ KeepTypeDef \/ TakeTypeDef
  <2>1. /\ Calling /\ sorting' = sorting
        /\ ToSet(tdl') \cup ToSet(subList') = ToSet(tdl) \cup ToSet(subList)
        /\ rec' = rec /\ sortedNonRec' = sortedNonRec /\ cLists' = cLists
    BY <1>3, RoundHandsOn
  <2> QED
    BY <1>1, <1>2, <2>1 DEF Parted, Calling
<1>4. CASE StartDividing
  <2>1. /\ sorting = "all" /\ sorting' = "divide" /\ nonRec' = nonRec /\ cLists' = cLists /\ at' = 1
    BY <1>4 DEF StartDividing, Returns, LoopOver
  <2>2. Passed' = {}
    BY <2>1 DEF Passed
  <2>3. ToSet(nonRec') = {}
    BY <2>1, EmptyHolds DEF SortInv, Unused
  <2> QED
    BY <1>2, <2>1, <2>2, <2>3 DEF Parted
<1>5. CASE KeepRecursive
  <2>1. /\ sorting = "divide" /\ sorting' = "divide" /\ at > 0 /\ tdl[at] \in recursive /\ GoOn
        /\ tdl' = tdl /\ nonRec' = nonRec /\ cLists' = cLists
    BY <1>5 DEF KeepRecursive, IsRecursive, GoOn, lists
  <2>2. at \in 1 .. Len(tdl) /\ Len(tdl) \in Nat /\ (tdl[at] = last => at = Len(tdl))
    BY <2>1, CursorAtLast
  <2>3. \A i \in Passed' : i \in Passed \/ i = at
    BY <2>1, <2>2 DEF Passed, GoOn
  <2> QED
    BY <1>1, <1>2, <2>1, <2>3 DEF Parted
<1>6. CASE MoveNonRecursive
  <2>1. /\ sorting = "divide" /\ sorting' = "divide" /\ at > 0 /\ tdl[at] \notin recursive /\ TakeOut
        /\ nonRec' = Append(nonRec, tdl[at]) /\ cLists' = cLists /\ last' = last
    BY <1>6 DEF MoveNonRecursive, IsRecursive
  <2>2. /\ at \in 1 .. Len(tdl) /\ Len(tdl) \in Nat /\ (tdl[at] = last => at = Len(tdl))
        /\ tdl \in Seq(Nat)
    BY <2>1, CursorAtLast DEF SortInv, ListsTypeOK
  <2>3. tdl[at] \in Nat /\ Len(tdl') = Len(tdl) - 1
    BY <2>1, TakeOutMoves
  <2>4. ToSet(nonRec') = ToSet(nonRec) \cup {tdl[at]}
    BY <2>1, <2>3, AppendHolds DEF SortInv, ListsTypeOK
  <2>5. \A i \in 1 .. at - 1 : tdl'[i] = tdl[i]
    BY <2>1, <2>2, RemoveAtBefore DEF TakeOut
  <2>6. \A i \in Passed' : i \in 1 .. at - 1
    BY <2>1, <2>2, <2>3 DEF Passed, TakeOut
  <2>7. \A i \in 1 .. at - 1 : tdl[i] \in recursive
    BY <2>1, <2>2 DEF Parted, Passed
  <2> QED
    BY <1>1, <1>2, <2>1, <2>4, <2>5, <2>6, <2>7 DEF Parted
<1>7. CASE Divided
  <2>1. /\ sorting = "divide" /\ sorting' = "nonRec" /\ at = 0 /\ rec' = tdl /\ tdl' = nonRec
        /\ subList' = << >> /\ cLists' = cLists
    BY <1>7 DEF Divided, Call
  <2>2. \A i \in DOMAIN tdl : tdl[i] \in recursive
    <3>1. DOMAIN tdl = 1 .. Len(tdl)
      BY DEF SortInv, ListsTypeOK
    <3> QED
      BY <2>1, <3>1 DEF Parted, Passed
  <2>3. ToSet(rec') \subseteq recursive
    BY <2>1, <2>2 DEF ToSet
  <2> QED
    BY <1>1, <1>2, <2>1, <2>3, EmptyHolds DEF Parted
<1>8. CASE SortedNonRec
  <2>1. /\ sorting = "nonRec" /\ sorting' = "strip" /\ sortedNonRec' = subList \o tdl
        /\ subList' = << >> /\ tdl' = rec /\ cLists' = cLists
    BY <1>8 DEF SortedNonRec, Returns
  <2>2. ToSet(sortedNonRec') = ToSet(subList) \cup ToSet(tdl)
    BY <2>1, ConcatHolds DEF SortInv, ListsTypeOK
  <2>3. ToSet(cLists) = {}
    BY <2>1, EmptyHolds DEF SortInv, Unused
  <2> QED
    BY <1>1, <1>2, <2>1, <2>2, <2>3, EmptyHolds DEF Parted
<1>9. CASE StripCList
  <2>1. /\ sorting = "strip" /\ sorting' = "strip" /\ at > 0 /\ IsCList(tdl[at]) /\ TakeOut
        /\ cLists' = Append(cLists, tdl[at]) /\ last' = last /\ subList' = subList
        /\ sortedNonRec' = sortedNonRec
    BY <1>9 DEF StripCList
  <2>2. tdl[at] \in Nat /\ ToSet(tdl) = ToSet(tdl') \cup {tdl[at]}
    BY <2>1, TakeOutMoves
  <2>3. ToSet(cLists') = ToSet(cLists) \cup {tdl[at]}
    BY <2>1, <2>2, AppendHolds DEF SortInv, ListsTypeOK
  <2> QED
    BY <1>1, <1>2, <2>1, <2>2, <2>3 DEF Parted
<1>10. CASE KeepOther \/ Stripped
  <2>1. /\ sorting = "strip" /\ sorting' \in {"strip", "weighted"} /\ tdl' = tdl /\ cLists' = cLists
        /\ sortedNonRec' = sortedNonRec /\ (subList' = subList \/ subList' = << >>)
    BY <1>10 DEF KeepOther, Stripped, GoOn, Call, lists
  <2> QED
    BY <1>1, <1>2, <2>1, EmptyHolds DEF Parted
<1>11. CASE sorting' \in {"group", "all", "done"} /\ cLists' = cLists
  BY <1>2, <1>11 DEF Parted
<1>12. \/ StartRound \/ KeepTypeDef \/ TakeTypeDef \/ StartDividing \/ KeepRecursive \/ MoveNonRecursive
       \/ Divided \/ SortedNonRec \/ StripCList \/ KeepOther \/ Stripped
       \/ sorting' \in {"group", "all", "done"} /\ cLists' = cLists
  BY <1>1, Zenon
     DEF DependencyNext, GroupTypeDef, NothingToSort, Finish, SortTypeDefs, Call, SimpleSortWorked,
         SortedRec, lists
<1> QED
  BY <1>3, <1>4, <1>5, <1>6, <1>7, <1>8, <1>9, <1>10, <1>11, <1>12

\* Once the walk is over, what reaches itself is marked.
LEMMA CyclesAreRecursive ==
  ASSUME IsModule(types), FoundInv, AllMarked, NEW td \in TypeDefs,
         td \in Reach(Steps("any"), Len(types), td)
  PROVE  td \in recursive
<1>1. Finished(td)
  BY ModuleFacts DEF AllMarked, Finished
<1> QED
  BY <1>1 DEF FoundInv, FoundBefore, Looks, Found, LeadsBack

LEMMA SelfReferencesAreRecursive ==
  ASSUME IsModule(types), FoundInv, AllMarked, NEW td \in TypeDefs, td \in RefsOf(td)
  PROVE  td \in recursive
<1>1. td \in ReachedBy(RefsOf, td)
  BY ReachedByRefsOf
<1> QED
  BY <1>1, AnyIsRefsOf, CyclesAreRecursive

\* None of the definitions that are not recursive is left over: those left
\* would name each other in a circle.
LEMMA NoLeftovers ==
  ASSUME SortInv, TypesInv, FoundInv, AllMarked, Rounds, Parted, Returns("nonRec")
  PROVE  tdl = << >>
<1> SUFFICES ASSUME tdl # << >> PROVE FALSE
  OBVIOUS
<1> DEFINE s == Steps("any")
           M == ToSet(tdl)
<1>1. IsModule(types) /\ sorting = "nonRec" /\ Calling
  BY ModuleAssumption DEF SortInv, Returns, Calling
<1>2. IsGraph(s, Len(types)) /\ TypeDefs = 1 .. Len(types) /\ \A td \in TypeDefs : s[td] = RefsOf(td)
  BY <1>1, StepsAreAGraph, AnyIsRefsOf DEF Looks
<1>3. M \in SUBSET TypeDefs
  BY DEF TypesInv, HeldAreTypeDefs, Held
<1>4. \A td \in M : RefsOf(td) \cap M # {}
  <2>1. \A td \in M : RefList(td) \cap (M \ {td}) # {}
    BY <1>1, LeftMustStay
  <2>2. \A td : RefList(td) = RefsOf(td)
    BY <1>1 DEF RefList
  <2> QED
    BY <2>1, <2>2
<1>5. \A td \in M : s[td] \cap M # {}
  BY <1>2, <1>3, <1>4
<1>6. M # {}
  <2>1. tdl \in Seq(Nat) /\ Len(tdl) # 0
    BY EmptyHolds DEF SortInv, ListsTypeOK
  <2>2. 1 \in DOMAIN tdl
    BY <2>1
  <2> QED
    BY <2>2 DEF ToSet
<1> HIDE DEF M, s
<1>7. PICK f \in M : f \in Reach(s, Len(types), f)
  BY <1>2, <1>3, <1>5, <1>6, CycleAmong
<1>8. f \in recursive
  BY <1>1, <1>3, <1>7, CyclesAreRecursive DEF s
<1> QED
  BY <1>1, <1>7, <1>8 DEF Parted, M

\* What a call has taken out is in order, if every reference counts.
LEMMA TakenIsInOrder ==
  ASSUME SortInv, sorting \in {"all", "nonRec"}
  PROVE  InOrder(subList) /\ \A td \in ToSet(subList) : RefsOf(td) \cap ToSet(tdl) = {}
<1>1. \A td : RefList(td) = RefsOf(td)
  BY DEF RefList
<1>2. \A i \in DOMAIN subList :
        RefsOf(subList[i]) \cap (ToSet(tdl) \cup {subList[j] : j \in i+1 .. Len(subList)}) = {}
  BY <1>1 DEF SortInv, TakenInOrder, Calling
<1>3. InOrder(subList)
  BY <1>2 DEF InOrder
<1>4. \A td \in ToSet(subList) : RefsOf(td) \cap ToSet(tdl) = {}
  BY <1>2 DEF ToSet
<1> QED
  BY <1>3, <1>4

LEMMA SortKeepsOrdered ==
  ASSUME SortInv, TypesInv, FoundInv, Rounds, Parted, Ordered, Sort
  PROVE  Ordered'
<1>1. types' = types /\ target' = target /\ DependencyNext /\ AllMarked
  BY SortLeavesGraph
<1>2. \A td : RefsOf(td)' = RefsOf(td)
  BY <1>1, SameGraph
<1>3. ASSUME linear' = linear, sortedNonRec' = sortedNonRec
      PROVE  InOrder(linear)' /\ InOrder(sortedNonRec)'
  BY <1>2, <1>3 DEF Ordered, InOrder
<1>4. CASE StartDividing
  <2>1. /\ sorting = "all" /\ sorting' = "divide" /\ linear' = subList /\ subList' = << >>
        /\ tdl' = tdl /\ nonRec' = nonRec /\ rec' = rec /\ sortedNonRec' = sortedNonRec
        /\ cLists' = cLists
    BY <1>4 DEF StartDividing, Returns, LoopOver
  <2>2. nonRec = << >> /\ rec = << >> /\ sortedNonRec = << >> /\ cLists = << >>
    BY <2>1 DEF SortInv, Unused
  <2>3. Rest' = ToSet(tdl)
    BY <2>1, <2>2, EmptyHolds DEF Rest
  <2>4. InOrder(subList) /\ \A td \in ToSet(subList) : RefsOf(td) \cap ToSet(tdl) = {}
    BY <2>1, TakenIsInOrder
  <2>5. InOrder(linear)' /\ InOrder(sortedNonRec)'
    BY <1>2, <2>1, <2>4 DEF Ordered, InOrder
  <2> QED
    BY <1>2, <2>1, <2>3, <2>4, <2>5 DEF Ordered
<1>5. CASE SortedNonRec
  <2>1. /\ sorting = "nonRec" /\ sorting' = "strip" /\ sortedNonRec' = subList \o tdl
        /\ subList' = << >> /\ tdl' = rec /\ rec' = << >> /\ linear' = linear /\ nonRec' = nonRec
        /\ cLists' = cLists /\ Returns("nonRec")
    BY <1>5 DEF SortedNonRec, Returns
  <2>2. tdl = << >>
    BY <1>1, <2>1, NoLeftovers
  <2>3. subList \in Seq(Nat)
    BY DEF SortInv, ListsTypeOK
  <2>4. sortedNonRec' = subList
    BY <2>1, <2>2, <2>3
  <2>5. sortedNonRec = << >>
    BY <2>1 DEF SortInv, Unused
  <2>6. Rest' = Rest
    BY <2>1, <2>2, <2>4, <2>5, EmptyHolds DEF Rest
  <2>7. InOrder(linear)'
    BY <1>2, <2>1 DEF Ordered, InOrder
  <2>8. InOrder(sortedNonRec)'
    <3>1. InOrder(subList)
      BY <2>1, TakenIsInOrder
    <3> QED
      BY <1>2, <2>4, <3>1 DEF InOrder
  <2> QED
    BY <1>2, <2>1, <2>6, <2>7, <2>8 DEF Ordered
<1>6. CASE StartRound \/ KeepTypeDef \/ TakeTypeDef
  <2>1. /\ sorting' = sorting /\ ToSet(tdl') \cup ToSet(subList') = ToSet(tdl) \cup ToSet(subList)
        /\ linear' = linear /\ nonRec' = nonRec /\ rec' = rec
        /\ sortedNonRec' = sortedNonRec /\ cLists' = cLists
    BY <1>6, RoundHandsOn
  <2>2. Rest' = Rest
    BY <2>1 DEF Rest
  <2> QED
    BY <1>2, <1>3, <2>1, <2>2 DEF Ordered
<1>7. CASE MoveNonRecursive \/ StripCList
  <2>1. /\ sorting' = sorting /\ sorting \in {"divide", "strip"} /\ at > 0 /\ TakeOut /\ last' = last
        /\ linear' = linear /\ sortedNonRec' = sortedNonRec /\ rec' = rec /\ subList' = subList
        /\ \/ nonRec' = Append(nonRec, tdl[at]) /\ cLists' = cLists
           \/ cLists' = Append(cLists, tdl[at]) /\ nonRec' = nonRec
    BY <1>7 DEF MoveNonRecursive, StripCList
  <2>2. tdl[at] \in Nat /\ ToSet(tdl) = ToSet(tdl') \cup {tdl[at]}
    BY <2>1, TakeOutMoves
  <2>3. ToSet(nonRec') \cup ToSet(cLists') = ToSet(nonRec) \cup ToSet(cLists) \cup {tdl[at]}
    <3>1. nonRec \in Seq(Nat) /\ cLists \in Seq(Nat)
      BY DEF SortInv, ListsTypeOK
    <3>2. /\ ToSet(Append(nonRec, tdl[at])) = ToSet(nonRec) \cup {tdl[at]}
          /\ ToSet(Append(cLists, tdl[at])) = ToSet(cLists) \cup {tdl[at]}
      BY <2>2, <3>1, AppendHolds
    <3>3. CASE nonRec' = Append(nonRec, tdl[at]) /\ cLists' = cLists
      BY <3>2, <3>3
    <3>4. CASE cLists' = Append(cLists, tdl[at]) /\ nonRec' = nonRec
      BY <3>2, <3>4
    <3> QED
      BY <2>1, <3>3, <3>4
  <2>4. Rest' = Rest
    BY <2>1, <2>2, <2>3 DEF Rest
  <2> QED
    BY <1>2, <1>3, <2>1, <2>4 DEF Ordered
<1>8. CASE Divided
  <2>1. /\ sorting = "divide" /\ sorting' = "nonRec" /\ rec' = tdl /\ tdl' = nonRec
        /\ nonRec' = << >> /\ subList' = << >> /\ cLists' = cLists
        /\ linear' = linear /\ sortedNonRec' = sortedNonRec
    BY <1>8 DEF Divided, Call
  <2>2. Rest' \subseteq Rest
    BY <2>1, EmptyHolds DEF Rest
  <2> QED
    BY <1>2, <1>3, <2>1, <2>2 DEF Ordered
<1>9. CASE KeepRecursive \/ KeepOther \/ Stripped \/ SortedRec
  <2>1. /\ sorting \notin {"group", "all"} /\ tdl' = tdl /\ (subList' = subList \/ subList' = << >>)
        /\ linear' = linear /\ nonRec' = nonRec /\ rec' = rec
        /\ sortedNonRec' = sortedNonRec /\ cLists' = cLists
    BY <1>9 DEF KeepRecursive, KeepOther, Stripped, SortedRec, Returns, Finish, GoOn, Call, call, lists
  <2>2. Rest' \subseteq Rest
    BY <2>1, EmptyHolds DEF Rest
  <2> QED
    BY <1>2, <1>3, <2>1, <2>2 DEF Ordered
<1>10. CASE GroupTypeDef \/ NothingToSort \/ SortTypeDefs \/ SimpleSortWorked
  <2>1. sorting \in {"group", "all"} /\ linear' = linear /\ sortedNonRec' = sortedNonRec
    BY <1>10 DEF GroupTypeDef, NothingToSort, SortTypeDefs, SimpleSortWorked, Returns, lists
  <2>2. ToSet(linear') = {}
    BY <2>1, EmptyHolds DEF SortInv, Unused
  <2> QED
    BY <1>3, <2>1, <2>2 DEF Ordered
<1> QED
  BY <1>1, <1>4, <1>5, <1>6, <1>7, <1>8, <1>9, <1>10 DEF DependencyNext

-----------------------------------------------------------------------------
(* The order at the end                                                     *)

\* The groups come before and after the list that was sorted: a definition of
\* the first two names nothing, and none names one of the last.
LEMMA FinishOrders ==
  ASSUME SortInv, SortInv', TypesInv, Groups, NEW refs \in Seq(Nat), Finish(refs), UNCHANGED graphVars,
         ToSet(prims) \cup ToSet(noRefs) \cup ToSet(refs) \cup ToSet(notRefd) = 1 .. Len(types),
         NEW td \in TypeDefs, NEW d \in RefsOf(td),
         td \in ToSet(refs) /\ d \in ToSet(refs) => Precedes(refs, d, td)
  PROVE  Before(d, td)'
<1>1. /\ sorting' = "done" /\ types' = types
      /\ typeDefs' = prims \o noRefs \o refs \o notRefd
  BY DEF Finish, graphVars
<1>2. IsModule(types) /\ Len(types) \in Nat /\ TypeDefs = 1 .. Len(types)
  BY ModuleAssumption, SeqFacts DEF SortInv
<1>3. prims \in Seq(Nat) /\ noRefs \in Seq(Nat) /\ notRefd \in Seq(Nat)
  BY DEF SortInv, ListsTypeOK
<1> DEFINE first == prims \o noRefs
           most  == first \o refs
<1>4. first \in Seq(Nat) /\ ToSet(first) = ToSet(prims) \cup ToSet(noRefs)
  BY <1>3, ConcatHolds
<1>5. most \in Seq(Nat) /\ ToSet(most) = ToSet(first) \cup ToSet(refs)
  <2> HIDE DEF first
  <2> QED
    BY <1>4, ConcatHolds
<1>6. typeDefs' = most \o notRefd
  BY <1>1
<1> HIDE DEF first, most
<1>7. typeDefs' \in Seq(Nat)
  BY <1>3, <1>5, <1>6, ConcatHolds
<1>8. Len(typeDefs') = Len(types) /\ ToSet(typeDefs') = 1 .. Len(types)
  BY <1>1, <1>2 DEF SortInv, NothingLost, Done, TypeDefs
<1>9. d \in TypeDefs /\ Referenced(d)
  BY <1>2, StepsWithin DEF Referenced
<1>10. td \notin ToSet(first) /\ d \notin ToSet(notRefd)
  BY <1>4, <1>9 DEF Groups
<1>11. d \in ToSet(first) \cup ToSet(refs) /\ td \in ToSet(refs) \cup ToSet(notRefd)
  BY <1>2, <1>4, <1>9, <1>10
<1>12. Precedes(most \o notRefd, d, td)
  <2>1. CASE td \in ToSet(notRefd)
    <3>1. d \in ToSet(most)
      BY <1>5, <1>11
    <3> QED
      BY <1>3, <1>5, <2>1, <3>1, PrecedesInConcat
  <2>2. CASE td \in ToSet(refs)
    <3>1. Precedes(first \o refs, d, td)
      BY <1>4, <1>11, <2>2, PrecedesInConcat
    <3>2. Precedes(most, d, td)
      BY <3>1 DEF most
    <3> QED
      BY <1>3, <1>5, <3>2, PrecedesInConcat
  <2> QED
    BY <1>11, <2>1, <2>2
<1>13. PICK list : list = typeDefs'
  OBVIOUS
<1>14. list \in Seq(Nat) /\ Len(list) = Len(types) /\ ToSet(list) = 1 .. Len(types) /\ Precedes(list, d, td)
  BY <1>6, <1>7, <1>8, <1>12, <1>13
<1>15. (CHOOSE i \in DOMAIN list : list[i] = d) < (CHOOSE i \in DOMAIN list : list[i] = td)
  BY <1>2, <1>14, PrecedesIsBefore
<1> QED
  BY <1>13, <1>15 DEF Before, Place

LEMMA EarlierIsAnother ==
  ASSUME IsModule(types), FoundInv, AllMarked, NEW td \in TypeDefs, NEW d \in Earlier(td)
  PROVE  d \in RefsOf(td) /\ d # td
<1>1. CASE td \in recursive
  <2>1. d \in ByValueRefsOf(td) /\ Unknotted(td)
    BY <1>1 DEF Earlier
  <2>2. td \notin ReachedBy(ByValueRefsOf, td)
    BY <2>1 DEF Unknotted, OnCycle
  <2> QED
    BY <2>1, <2>2, ReachedByByValueRefsOf, StepsWithin
<1>2. CASE td \notin recursive
  BY <1>2, SelfReferencesAreRecursive DEF Earlier
<1> QED
  BY <1>1, <1>2

LEMMA InOrderPrecedes ==
  ASSUME IsModule(types), FoundInv, AllMarked, NEW s \in Seq(Nat), InOrder(s),
         NEW td \in ToSet(s) \cap TypeDefs, NEW d \in Earlier(td) \cap ToSet(s)
  PROVE  Precedes(s, d, td)
<1>1. d \in RefsOf(td) /\ d # td
  BY EarlierIsAnother
<1>2. \A i \in DOMAIN s : s[i] = td => d \notin {s[j] : j \in i+1 .. Len(s)}
  BY <1>1 DEF InOrder
<1> QED
  BY <1>1, <1>2, NotLaterPrecedes

LEMMA ByValueIsAGraph ==
  ASSUME IsModule(types)
  PROVE  LET s == [td \in TypeDefs |-> ByValueRefsOf(td)]
         IN  /\ IsGraph(s, Len(types))
             /\ \A td \in TypeDefs : Reach(s, Len(types), td) \subseteq ReachedBy(ByValueRefsOf, td)
<1> DEFINE s == [td \in TypeDefs |-> ByValueRefsOf(td)]
<1>1. TypeDefs = 1 .. Len(types) /\ Len(types) \in Nat
  BY ModuleFacts
<1>2. \A td \in TypeDefs : ByValueRefsOf(td) \in SUBSET TypeDefs
  BY StepsWithin
<1>3. IsGraph(s, Len(types)) /\ \A td \in TypeDefs : s[td] = ByValueRefsOf(td)
  BY <1>1, <1>2 DEF IsGraph
<1> HIDE DEF s
<1>4. ASSUME NEW td \in TypeDefs PROVE Reach(s, Len(types), td) \subseteq ReachedBy(ByValueRefsOf, td)
  <2> DEFINE R == ReachedBy(ByValueRefsOf, td)
  <2>1. R \in SUBSET (1 .. Len(types)) /\ ByValueRefsOf(td) \subseteq R /\ \A d \in R : ByValueRefsOf(d) \subseteq R
    BY <1>1, ReachedByByValueRefsOf
  <2> HIDE DEF R
  <2>2. s[td] \subseteq R /\ \A d \in R : s[d] \subseteq R
    BY <1>1, <1>3, <2>1
  <2>3. Reach(s, Len(types), td) \subseteq R
    BY <1>1, <1>3, <2>1, <2>2, ReachIsClosed
  <2> QED
    BY <2>3 DEF R
<1> QED
  BY <1>3, <1>4 DEF s

\* What the last call leaves contains a knot by value.
LEMMA LeftIsKnotted ==
  ASSUME SortInv, TypesInv, Rounds, Returns("weighted"), NEW td \in ToSet(tdl)
  PROVE  ~Unknotted(td)
<1> SUFFICES ASSUME Unknotted(td) PROVE FALSE
  OBVIOUS
<1> DEFINE s == [d \in TypeDefs |-> ByValueRefsOf(d)]
           R == ReachedBy(ByValueRefsOf, td) \cup {td}
           M == R \cap ToSet(tdl)
<1>1. IsModule(types) /\ sorting = "weighted" /\ Calling /\ TypeDefs = 1 .. Len(types)
  BY ModuleAssumption, SeqFacts DEF SortInv, Returns, Calling
<1>2. ToSet(tdl) \subseteq TypeDefs /\ td \in TypeDefs
  BY DEF TypesInv, HeldAreTypeDefs, Held
<1>3. R \subseteq TypeDefs /\ \A d \in R : ByValueRefsOf(d) \subseteq R
  BY <1>1, <1>2, ReachedByByValueRefsOf
<1>4. \A d \in M : s[d] \cap M # {}
  <2> TAKE d \in M
  <2>1. tdl # << >>
    BY EmptyHolds
  <2>2. RefList(d) \cap (ToSet(tdl) \ {d}) # {}
    BY <1>1, <2>1, LeftMustStay
  <2>3. RefList(d) = ByValueRefsOf(d) /\ s[d] = ByValueRefsOf(d)
    BY <1>1, <1>2 DEF RefList
  <2> QED
    BY <1>3, <2>2, <2>3
<1>5. M \in SUBSET (1 .. Len(types)) /\ M # {}
  BY <1>1, <1>2
<1>6. IsGraph(s, Len(types)) /\ \A d \in TypeDefs : Reach(s, Len(types), d) \subseteq ReachedBy(ByValueRefsOf, d)
  BY <1>1, ByValueIsAGraph
<1> HIDE DEF s, M
<1>7. PICK f \in M : f \in Reach(s, Len(types), f)
  BY <1>4, <1>5, <1>6, CycleAmong
<1>8. f \in R /\ f \in ReachedBy(ByValueRefsOf, f)
  BY <1>1, <1>5, <1>6, <1>7 DEF M
<1> QED
  BY <1>8 DEF Unknotted, OnCycle

\* The merged list is in order: what the first call took out, the lists of C,
\* the other recursive definitions as the last call took them out, what that
\* call left, and the definitions that are not recursive.
LEMMA MergedPrecedes ==
  ASSUME SortInv, TypesInv, FoundInv, AllMarked, Rounds, Parted, Ordered, Returns("weighted"),
         NEW td \in ToSet(Merged) \cap TypeDefs, NEW d \in Earlier(td) \cap ToSet(Merged)
  PROVE  Precedes(Merged, d, td)
<1>1. IsModule(types) /\ sorting = "weighted"
  BY ModuleAssumption DEF SortInv, Returns
<1>2. d \in RefsOf(td) /\ d # td
  BY <1>1, EarlierIsAnother
<1>3. /\ linear \in Seq(Nat) /\ cLists \in Seq(Nat) /\ subList \in Seq(Nat) /\ tdl \in Seq(Nat)
      /\ sortedNonRec \in Seq(Nat)
  BY DEF SortInv, ListsTypeOK
<1> DEFINE first == linear \o cLists
           taken == first \o subList
           all   == taken \o tdl
<1>4. first \in Seq(Nat) /\ ToSet(first) = ToSet(linear) \cup ToSet(cLists)
  BY <1>3, ConcatHolds
<1>5. taken \in Seq(Nat) /\ ToSet(taken) = ToSet(first) \cup ToSet(subList)
  <2> HIDE DEF first
  <2> QED
    BY <1>3, <1>4, ConcatHolds
<1>6. all \in Seq(Nat) /\ ToSet(all) = ToSet(taken) \cup ToSet(tdl)
  <2> HIDE DEF taken
  <2> QED
    BY <1>3, <1>5, ConcatHolds
<1>7. Merged = all \o sortedNonRec
  BY DEF Merged
<1>8. ToSet(Merged) = ToSet(all) \cup ToSet(sortedNonRec)
  <2> HIDE DEF all
  <2> QED
    BY <1>3, <1>6, <1>7, ConcatHolds
<1>9. Precedes(first, d, td) => Precedes(taken, d, td)
  <2> HIDE DEF first
  <2> QED
    BY <1>3, <1>4, PrecedesInConcat
<1>10. Precedes(taken, d, td) => Precedes(all, d, td)
  <2> HIDE DEF taken
  <2> QED
    BY <1>3, <1>5, PrecedesInConcat
<1>11. Precedes(all, d, td) => Precedes(Merged, d, td)
  <2> HIDE DEF all
  <2> QED
    BY <1>3, <1>6, <1>7, PrecedesInConcat
<1>12. CASE td \in ToSet(linear)
  <2>1. d \in ToSet(linear)
    <3>1. d \notin Rest
      BY <1>1, <1>2, <1>12 DEF Ordered
    <3> HIDE DEF first, taken, all
    <3> QED
      BY <1>4, <1>5, <1>6, <1>8, <3>1 DEF Rest
  <2>2. Precedes(linear, d, td)
    BY <1>1, <1>3, <1>12, <2>1, InOrderPrecedes DEF Ordered
  <2>3. Precedes(first, d, td)
    BY <1>3, <2>2, PrecedesInConcat
  <2> QED
    BY <1>9, <1>10, <1>11, <2>3
<1>13. CASE td \in ToSet(cLists)
  <2>1. td \in recursive /\ ByValueRefsOf(td) = {}
    BY <1>1, <1>13 DEF Parted, IsCList, ByValueRefsOf
  <2> QED
    BY <2>1 DEF Earlier
<1>14. CASE td \in ToSet(subList)
  <2>1. td \in recursive /\ d \in recursive /\ d \in ByValueRefsOf(td) /\ d \notin ToSet(sortedNonRec)
    BY <1>1, <1>14 DEF Parted, Earlier
  <2>2. \A i \in DOMAIN subList : subList[i] = td =>
          d \notin ToSet(tdl) /\ d \notin {subList[j] : j \in i+1 .. Len(subList)}
    BY <1>1, <2>1 DEF SortInv, TakenInOrder, Calling, RefList
  <2>3. d \notin ToSet(tdl)
    BY <1>14, <2>2 DEF ToSet
  <2>4. d \in ToSet(first) \cup ToSet(subList)
    <3> HIDE DEF first, taken, all
    <3> QED
      BY <1>5, <1>6, <1>8, <2>1, <2>3
  <2>5. CASE d \in ToSet(first)
    <3>1. Precedes(taken, d, td)
      <4> HIDE DEF first
      <4> QED
        BY <1>3, <1>4, <1>14, <2>5, PrecedesInConcat
    <3> QED
      BY <1>10, <1>11, <3>1
  <2>6. CASE d \in ToSet(subList)
    <3>1. Precedes(subList, d, td)
      BY <1>2, <1>3, <1>14, <2>2, <2>6, NotLaterPrecedes
    <3>2. Precedes(taken, d, td)
      <4> HIDE DEF first
      <4> QED
        BY <1>3, <1>4, <3>1, PrecedesInConcat
    <3> QED
      BY <1>10, <1>11, <3>2
  <2> QED
    BY <2>4, <2>5, <2>6
<1>15. CASE td \in ToSet(tdl)
  <2>1. td \in recursive
    BY <1>1, <1>15 DEF Parted
  <2>2. Unknotted(td)
    BY <2>1 DEF Earlier
  <2> QED
    BY <1>15, <2>2, LeftIsKnotted
<1>16. CASE td \in ToSet(sortedNonRec)
  <2>1. CASE d \in ToSet(sortedNonRec)
    <3>1. Precedes(sortedNonRec, d, td)
      BY <1>1, <1>3, <1>16, <2>1, InOrderPrecedes DEF Ordered
    <3> HIDE DEF all
    <3> QED
      BY <1>3, <1>6, <1>7, <3>1, PrecedesInConcat
  <2>2. CASE d \in ToSet(all)
    <3> HIDE DEF all
    <3> QED
      BY <1>3, <1>6, <1>7, <1>16, <2>2, PrecedesInConcat
  <2> HIDE DEF all
  <2> QED
    BY <1>8, <2>1, <2>2
<1> HIDE DEF first, taken, all
<1> QED
  BY <1>4, <1>5, <1>6, <1>8, <1>12, <1>13, <1>14, <1>15, <1>16

LEMMA SortKeepsDone ==
  ASSUME SortInv, SortInv', TypesInv, FoundInv, OrderInv, Sort
  PROVE  DoneInOrder'
<1>1. /\ types' = types /\ target' = target /\ recursive' = recursive /\ UNCHANGED graphVars
      /\ DependencyNext /\ AllMarked
  BY SortLeavesGraph
<1>2. TypeDefs' = TypeDefs /\ \A td : Earlier(td)' = Earlier(td)
  BY <1>1, SameGraph DEF Earlier
<1>3. IsModule(types)
  BY ModuleAssumption DEF SortInv
<1>4. ASSUME NEW refs \in Seq(Nat), Finish(refs),
             ToSet(prims) \cup ToSet(noRefs) \cup ToSet(refs) \cup ToSet(notRefd) = 1 .. Len(types),
             \A td \in ToSet(refs) \cap TypeDefs : \A d \in Earlier(td) \cap ToSet(refs) : Precedes(refs, d, td)
      PROVE  DoneInOrder'
  <2>1. ASSUME NEW td \in TypeDefs, NEW d \in Earlier(td) PROVE Before(d, td)'
    <3>1. d \in RefsOf(td)
      BY <1>1, <1>3, EarlierIsAnother
    <3>2. td \in ToSet(refs) /\ d \in ToSet(refs) => Precedes(refs, d, td)
      BY <1>4
    <3> QED
      BY <1>1, <1>4, <3>1, <3>2, FinishOrders DEF OrderInv
  <2> QED
    BY <1>2, <2>1 DEF DoneInOrder
<1>5. CASE NothingToSort
  <2>1. sorting = "group" /\ Finish(<< >>) /\ Grouped = Len(types) /\ tdl = << >>
    BY <1>5 DEF NothingToSort
  <2>2. subList = << >> /\ linear = << >> /\ nonRec = << >> /\ rec = << >> /\ sortedNonRec = << >> /\ cLists = << >>
    BY <2>1 DEF SortInv, Unused
  <2>3. Places = Len(types)
    BY <2>1, <2>2, SeqFacts, EmptyHolds DEF Places, Grouped
  <2>4. Held = 1 .. Len(types)
    BY <2>1, <2>3 DEF SortInv, HeldOnce
  <2>5. ToSet(prims) \cup ToSet(noRefs) \cup ToSet(<< >>) \cup ToSet(notRefd) = 1 .. Len(types)
    BY <2>1, <2>2, <2>4, EmptyHolds DEF Held
  <2> QED
    BY <1>4, <2>1, <2>5, EmptyHolds
<1>6. CASE SimpleSortWorked
  <2>1. sorting = "all" /\ Finish(subList) /\ tdl = << >>
    BY <1>6 DEF SimpleSortWorked, Returns
  <2>2. linear = << >> /\ nonRec = << >> /\ rec = << >> /\ sortedNonRec = << >> /\ cLists = << >>
    BY <2>1 DEF SortInv, Unused
  <2>3. Held = 1 .. Len(types)
    BY <2>1 DEF SortInv, HeldOnce
  <2>4. ToSet(prims) \cup ToSet(noRefs) \cup ToSet(subList) \cup ToSet(notRefd) = 1 .. Len(types)
    BY <2>1, <2>2, <2>3, EmptyHolds DEF Held
  <2>5. subList \in Seq(Nat) /\ InOrder(subList)
    BY <2>1, TakenIsInOrder DEF SortInv, ListsTypeOK
  <2>6. \A td \in ToSet(subList) \cap TypeDefs : \A d \in Earlier(td) \cap ToSet(subList) : Precedes(subList, d, td)
    BY <1>1, <1>3, <2>5, InOrderPrecedes
  <2> QED
    BY <1>4, <2>1, <2>4, <2>5, <2>6
<1>7. CASE SortedRec
  <2>1. sorting = "weighted" /\ Finish(Merged) /\ Returns("weighted")
    BY <1>7 DEF SortedRec, Returns
  <2>2. nonRec = << >> /\ rec = << >>
    BY <2>1 DEF SortInv, Unused
  <2>3. Held = 1 .. Len(types)
    BY <2>1 DEF SortInv, HeldOnce
  <2>4. Merged \in Seq(Nat) /\ ToSet(Merged) = ToSet(linear) \cup ToSet(cLists) \cup ToSet(subList) \cup ToSet(tdl)
                                                 \cup ToSet(sortedNonRec)
    <3>1. /\ linear \in Seq(Nat) /\ cLists \in Seq(Nat) /\ subList \in Seq(Nat)
          /\ tdl \in Seq(Nat) /\ sortedNonRec \in Seq(Nat)
      BY DEF SortInv, ListsTypeOK
    <3>2. linear \o cLists \in Seq(Nat) /\ ToSet(linear \o cLists) = ToSet(linear) \cup ToSet(cLists)
      BY <3>1, ConcatHolds
    <3>3. /\ linear \o cLists \o subList \in Seq(Nat)
          /\ ToSet(linear \o cLists \o subList) = ToSet(linear) \cup ToSet(cLists) \cup ToSet(subList)
      BY <3>1, <3>2, ConcatHolds
    <3>4. /\ linear \o cLists \o subList \o tdl \in Seq(Nat)
          /\ ToSet(linear \o cLists \o subList \o tdl)
               = ToSet(linear) \cup ToSet(cLists) \cup ToSet(subList) \cup ToSet(tdl)
      BY <3>1, <3>3, ConcatHolds
    <3> QED
      BY <3>1, <3>4, ConcatHolds DEF Merged
  <2>5. ToSet(prims) \cup ToSet(noRefs) \cup ToSet(Merged) \cup ToSet(notRefd) = 1 .. Len(types)
    BY <2>2, <2>3, <2>4, EmptyHolds DEF Held
  <2>6. \A td \in ToSet(Merged) \cap TypeDefs : \A d \in Earlier(td) \cap ToSet(Merged) : Precedes(Merged, d, td)
    BY <1>1, <2>1, MergedPrecedes DEF OrderInv
  <2> QED
    BY <1>4, <2>1, <2>4, <2>5, <2>6
<1>8. NothingToSort \/ SimpleSortWorked \/ SortedRec \/ sorting' # "done"
  BY <1>1, Zenon
     DEF DependencyNext, GroupTypeDef, SortTypeDefs, StartRound, KeepTypeDef, TakeTypeDef, Calling, Call,
         StartDividing, LoopOver, KeepRecursive, MoveNonRecursive, Divided, SortedNonRec, KeepOther,
         StripCList, Stripped
<1>9. CASE sorting' # "done"
  BY <1>9 DEF DoneInOrder, Done
<1> QED
  BY <1>5, <1>6, <1>7, <1>8, <1>9

-----------------------------------------------------------------------------
(* The theorems                                                             *)

\* The other passes leave the lists alone, and the flags too once the sort runs.
LEMMA OtherStepKeepsOrder ==
  ASSUME OrderInv, UNCHANGED <<types, target, dependencyVars>>,
         sorting # "group" => UNCHANGED recursive /\ AllMarked'
  PROVE  OrderInv'
<1>1. /\ sorting' = sorting /\ at' = at /\ lastSLCount' = lastSLCount
      /\ prims' = prims /\ noRefs' = noRefs /\ notRefd' = notRefd
      /\ tdl' = tdl /\ subList' = subList
      /\ linear' = linear /\ nonRec' = nonRec /\ rec' = rec
      /\ sortedNonRec' = sortedNonRec /\ cLists' = cLists /\ typeDefs' = typeDefs
  BY DEF dependencyVars, groups, call, lists
<1>2. /\ TypeDefs' = TypeDefs
      /\ \A td : RefsOf(td)' = RefsOf(td)
      /\ \A td : Referenced(td)' = Referenced(td)
      /\ \A td : ByValueRefsOf(td)' = ByValueRefsOf(td)
      /\ \A td : IsCList(td)' = IsCList(td)
      /\ \A td : Unknotted(td)' = Unknotted(td)
  BY SameGraph
<1>3. SortsMarked'
  BY <1>1 DEF SortsMarked
<1>4. Groups'
  BY <1>1, <1>2 DEF OrderInv, Groups
<1>5. Rounds'
  <2>1. \A td : MustStay(td)' = MustStay(td)
    BY <1>1, SameRefList DEF MustStay
  <2>2. Passed' = Passed
    BY <1>1 DEF Passed
  <2> QED
    BY <1>1, <2>1, <2>2 DEF OrderInv, Rounds, Calling
<1>6. Parted'
  <2>1. Passed' = Passed
    BY <1>1 DEF Passed
  <2>2. CASE sorting = "group"
    BY <1>1, <1>2, <2>2 DEF OrderInv, Parted
  <2>3. CASE sorting # "group"
    BY <1>1, <1>2, <2>1, <2>3 DEF OrderInv, Parted
  <2> QED
    BY <2>2, <2>3
<1>7. Ordered'
  <2>1. Rest' = Rest
    BY <1>1 DEF Rest
  <2>2. InOrder(linear)' /\ InOrder(sortedNonRec)'
    BY <1>1, <1>2 DEF OrderInv, Ordered, InOrder
  <2> QED
    BY <1>1, <1>2, <2>1, <2>2 DEF OrderInv, Ordered
<1>8. DoneInOrder'
  <2>1. CASE sorting = "done"
    <3>1. recursive' = recursive
      BY <2>1
    <3>2. \A td : Earlier(td)' = Earlier(td)
      BY <1>2, <3>1 DEF Earlier
    <3>3. \A a, b : Before(a, b)' = Before(a, b)
      BY <1>1 DEF Before, Place
    <3> QED
      BY <1>1, <1>2, <3>2, <3>3 DEF OrderInv, DoneInOrder, Done
  <2>2. CASE sorting # "done"
    BY <1>1, <2>2 DEF DoneInOrder, Done
  <2> QED
    BY <2>1, <2>2
<1> QED
  BY <1>3, <1>4, <1>5, <1>6, <1>7, <1>8 DEF OrderInv

LEMMA NextKeepsOrder ==
  WalkInv /\ FoundInv /\ SortInv /\ SortInv' /\ TypesInv /\ OrderInv /\ [Next]_vars => OrderInv'
<1> SUFFICES ASSUME WalkInv, FoundInv, SortInv, SortInv', TypesInv, OrderInv, [Next]_vars
             PROVE  OrderInv'
  OBVIOUS
<1>1. CASE Sort
  <2>1. SortsMarked'
    BY <1>1, SortLeavesGraph DEF SortsMarked
  <2>2. Groups' /\ Rounds' /\ Parted' /\ Ordered' /\ DoneInOrder'
    BY <1>1, SortKeepsGroups, SortKeepsRounds, SortKeepsParted, SortKeepsOrdered, SortKeepsDone
       DEF OrderInv
  <2> QED
    BY <2>1, <2>2 DEF OrderInv
<1>2. CASE Mark
  <2>1. UNCHANGED <<types, target, dependencyVars>> /\ RecursiveNext
    BY <1>2 DEF Mark
  <2>2. sorting = "group"
    BY <2>1, MarkedStaysMarked DEF OrderInv, SortsMarked
  <2> QED
    BY <2>1, <2>2, OtherStepKeepsOrder
<1>3. CASE FillTDIDefaults \/ GetTypeFollows \/ GetTypeReturns \/ UNCHANGED vars
  <2>1. UNCHANGED <<types, target, recursive, dependencyVars, recursiveVars>>
    BY <1>3 DEF FillTDIDefaults, GetTypeFollows, GetTypeReturns, vars
  <2>2. AllMarked' = AllMarked
    BY <2>1 DEF AllMarked, recursiveVars
  <2> QED
    BY <2>1, <2>2, OtherStepKeepsOrder DEF OrderInv, SortsMarked
<1> QED
  BY <1>1, <1>2, <1>3 DEF Next

LEMMA InitOrderInv == Init => OrderInv
<1> SUFFICES ASSUME Init PROVE OrderInv
  OBVIOUS
<1>1. /\ sorting = "group" /\ prims = << >> /\ noRefs = << >> /\ notRefd = << >>
      /\ linear = << >> /\ sortedNonRec = << >> /\ cLists = << >>
  BY DEF Init, DependencyInit
<1>2. SortsMarked /\ Groups /\ Rounds /\ Parted /\ DoneInOrder
  BY <1>1, EmptyHolds DEF SortsMarked, Groups, Rounds, Parted, DoneInOrder, Calling, Done
<1>3. Ordered
  BY <1>1, EmptyHolds DEF Ordered, InOrder
<1> QED
  BY <1>2, <1>3 DEF OrderInv

AllInv == WalkInv /\ FoundInv /\ SortInv /\ TypesInv /\ OrderInv

LEMMA AllInvHolds == Spec => []AllInv
<1>1. Init => AllInv
  BY InitWalkInv, InitFoundInv, InitSortInv, InitTypesInv, InitOrderInv DEF AllInv
<1>2. AllInv /\ [Next]_vars => AllInv'
  BY NextKeepsWalkInv, NextFinds, NextSortInv, NextKeepsTypes, NextKeepsOrder DEF AllInv
<1> QED
  BY <1>1, <1>2, PTL DEF Spec

\* Whatever the module, a definition that is not recursive comes after all it
\* refers to, and the second call leaves nothing over: "there should be no
\* problems (ie unsorted leftovers) since none of them are recursive"
\* (dependency.c:330-335).
THEOREM ReferredComeFirst == Spec => []ReferredFirst
<1>1. AllInv => ReferredFirst
  <2> SUFFICES ASSUME AllInv PROVE ReferredFirst
    OBVIOUS
  <2>1. Returns("nonRec") => tdl = << >>
    BY NoLeftovers DEF AllInv, OrderInv, SortsMarked, Returns
  <2>2. Done => \A td \in TypeDefs \ recursive : \A d \in RefsOf(td) : Before(d, td)
    BY DEF AllInv, OrderInv, DoneInOrder, Earlier
  <2> QED
    BY <2>1, <2>2 DEF ReferredFirst
<1> QED
  BY <1>1, AllInvHolds, PTL

\* Whatever the module and the back end, a recursive definition comes after
\* the recursive ones it contains by value, unless it contains a knot of them
\* (dependency.c:337-341).
THEOREM ContainedComeFirst == Spec => []ByValueFirst
<1>1. AllInv => ByValueFirst
  <2> SUFFICES ASSUME AllInv, Done, NEW td \in recursive, Unknotted(td),
                      NEW d \in ByValueRefsOf(td) \cap recursive
               PROVE  Before(d, td)
    BY DEF ByValueFirst
  <2>1. td \in TypeDefs
    BY DEF AllInv, TypesInv, FlagsAreTypeDefs, Flagged
  <2>2. d \in Earlier(td)
    BY DEF Earlier
  <2> QED
    BY <2>1, <2>2 DEF AllInv, OrderInv, DoneInOrder
<1> QED
  BY <1>1, AllInvHolds, PTL
=============================================================================
