---------------------------- MODULE LinkProofs ----------------------------
(***************************************************************************)
(* The names of any program: what is accepted is linked to what its names  *)
(* denote and is right, what is refused is wrong                           *)
(*                                                                         *)
(* What a reference is linked to is LinkOf, which only the modules and the *)
(* import lists decide; LinkInv says how far the passes have come to it,   *)
(* and Cause what may have put a module in error.  Of GraphProofs, the     *)
(* lemmas on the rounds of a recursive function are used                   *)
(***************************************************************************)
EXTENDS LinkTypes, GraphProofs

-----------------------------------------------------------------------------
(* Lists, as the sequences they are                                        *)

LEMMA FirstOfIs ==
  ASSUME NEW S, S \subseteq Nat \ {0}
  PROVE  /\ (FirstOf(S) = 0) <=> (S = {})
         /\ S # {} => FirstOf(S) \in S /\ \A j \in S : FirstOf(S) <= j
<1>1. CASE S = {}
  BY <1>1 DEF FirstOf
<1>2. CASE S # {}
  <2>1. \E i \in S : \A j \in S : i <= j
    BY <1>2, SmallestOf
  <2>2. FirstOf(S) \in S /\ \A j \in S : FirstOf(S) <= j
    BY <1>2, <2>1 DEF FirstOf
  <2> QED
    BY <1>2, <2>2
<1> QED
  BY <1>1, <1>2

LEMMA SequenceIs ==
  ASSUME NEW s, IsSequence(s)
  PROVE  /\ Len(s) \in Nat /\ DOMAIN s = 1 .. Len(s) /\ s = [i \in DOMAIN s |-> s[i]]
         /\ DOMAIN s \subseteq Nat \ {0}
BY DEF IsSequence

LEMMA SequenceFromDomain ==
  ASSUME NEW s, NEW n \in Nat, s = [i \in 1 .. n |-> s[i]]
  PROVE  IsSequence(s)
<1> DEFINE S == {s[i] : i \in DOMAIN s}
<1>1. DOMAIN s = 1 .. n
  OBVIOUS
<1>2. \A i \in 1 .. n : s[i] \in S
  BY <1>1
<1> HIDE DEF S
<1>3. s \in [1 .. n -> S]
  BY <1>2
<1>4. s \in Seq(S)
  BY <1>3
<1> QED
  BY <1>4 DEF S, IsSequence

LEMMA AppendIs ==
  ASSUME NEW s, NEW x, IsSequence(s)
  PROVE  /\ IsSequence(Append(s, x))
         /\ DOMAIN Append(s, x) = DOMAIN s \cup {Len(s) + 1} /\ Len(s) + 1 \notin DOMAIN s
         /\ \A i \in DOMAIN s : Append(s, x)[i] = s[i] /\ i < Len(s) + 1
         /\ Append(s, x)[Len(s) + 1] = x
<1> DEFINE S == {s[i] : i \in DOMAIN s} \cup {x}
           t == Append(s, x)
<1>1. s \in Seq({s[i] : i \in DOMAIN s})
  BY DEF IsSequence
<1>2. s \in Seq(S)
  <2>1. \A i \in 1 .. Len(s) : s[i] \in S
    BY SequenceIs
  <2> HIDE DEF S
  <2> QED
    BY <2>1, SequenceIs
<1>3. x \in S
  OBVIOUS
<1> HIDE DEF S
<1>4. t \in Seq(S) /\ Len(t) = Len(s) + 1 /\ t[Len(s) + 1] = x /\ \A i \in 1 .. Len(s) : t[i] = s[i]
  BY <1>2, <1>3
<1>5. IsSequence(t)
  <2> HIDE DEF t
  <2>1. Len(t) \in Nat /\ t \in [1 .. Len(t) -> S]
    BY <1>4
  <2>2. t = [i \in 1 .. Len(t) |-> t[i]]
    BY <2>1
  <2> QED
    BY <2>1, <2>2, SequenceFromDomain
<1>6. IsSequence(t)
  BY <1>5
<1>7. DOMAIN t = 1 .. Len(s) + 1
  BY <1>4, <1>6, SequenceIs
<1> QED
  BY <1>4, <1>6, <1>7, SequenceIs

LEMMA ReplacedIs ==
  ASSUME NEW s, NEW j, NEW x, IsSequence(s)
  PROVE  IsSequence([s EXCEPT ![j] = x])
<1> DEFINE t == [s EXCEPT ![j] = x]
<1>1. t = [i \in 1 .. Len(s) |-> t[i]] /\ Len(s) \in Nat
  BY SequenceIs
<1> HIDE DEF t
<1>2. IsSequence(t)
  BY <1>1, SequenceFromDomain
<1> QED
  BY <1>2 DEF t

-----------------------------------------------------------------------------
(* The places of a program                                                 *)

LEMMA PlacesAre ==
  ASSUME IsProgram(mods)
  PROVE  /\ DOMAIN mods \subseteq Nat \ {0}
         /\ \A m \in DOMAIN mods :
              /\ DOMAIN mods[m].defs \subseteq Nat \ {0} /\ DOMAIN mods[m].imports \subseteq Nat \ {0}
              /\ \A i \in DOMAIN mods[m].imports : DOMAIN mods[m].imports[i].elmts \subseteq Nat \ {0}
         /\ \A m, d : <<m, d>> \in DefPlaces <=> m \in DOMAIN mods /\ d \in DOMAIN mods[m].defs
         /\ \A d \in DefPlaces : d = <<d[1], d[2]>> /\ d[1] \in DOMAIN mods /\ d[2] \in DOMAIN mods[d[1]].defs
         /\ \A p \in ItemPlaces :
              /\ p = <<p[1], p[2], p[3]>> /\ p[1] \in DOMAIN mods /\ p[2] \in DOMAIN mods[p[1]].defs
              /\ <<p[1], p[2]>> \in DefPlaces
              /\ p[3] \in DOMAIN mods[p[1]].defs[p[2]].items /\ p[3] \in Nat
         /\ \A m, d, k : <<m, d, k>> \in ItemPlaces <=>
              m \in DOMAIN mods /\ d \in DOMAIN mods[m].defs /\ k \in DOMAIN mods[m].defs[d].items
<1>1. DOMAIN mods \subseteq Nat \ {0}
  BY SequenceIs DEF IsProgram
<1>2. ASSUME NEW m \in DOMAIN mods
      PROVE  /\ DOMAIN mods[m].defs \subseteq Nat \ {0} /\ DOMAIN mods[m].imports \subseteq Nat \ {0}
             /\ \A i \in DOMAIN mods[m].imports : DOMAIN mods[m].imports[i].elmts \subseteq Nat \ {0}
             /\ \A d \in DOMAIN mods[m].defs : DOMAIN mods[m].defs[d].items \subseteq Nat \ {0}
  <2>1. IsSequence(mods[m].defs) /\ IsSequence(mods[m].imports)
    BY DEF IsProgram
  <2>2. \A i \in DOMAIN mods[m].imports : IsSequence(mods[m].imports[i].elmts)
    BY DEF IsProgram
  <2>3. \A d \in DOMAIN mods[m].defs : IsSequence(mods[m].defs[d].items)
    BY DEF IsProgram, IsDefinition
  <2> QED
    BY <2>1, <2>2, <2>3, SequenceIs
<1>3. \A m, d : <<m, d>> \in DefPlaces <=> m \in DOMAIN mods /\ d \in DOMAIN mods[m].defs
  BY DEF DefPlaces
<1>4. \A d \in DefPlaces : \E m \in DOMAIN mods : \E n \in DOMAIN mods[m].defs : d = <<m, n>>
  BY DEF DefPlaces
<1>5. \A m, d, k : <<m, d, k>> \in ItemPlaces <=>
        m \in DOMAIN mods /\ d \in DOMAIN mods[m].defs /\ k \in DOMAIN mods[m].defs[d].items
  <2>1. \A x : x \in ItemPlaces <=> \E p \in DefPlaces : \E k \in DOMAIN DefAt(p).items : x = <<p[1], p[2], k>>
    BY DEF ItemPlaces
  <2>2. ASSUME NEW m, NEW d, NEW k, <<m, d, k>> \in ItemPlaces
        PROVE  m \in DOMAIN mods /\ d \in DOMAIN mods[m].defs /\ k \in DOMAIN mods[m].defs[d].items
    <3>1. PICK p \in DefPlaces : \E j \in DOMAIN DefAt(p).items : <<m, d, k>> = <<p[1], p[2], j>>
      BY <2>1, <2>2
    <3>2. m = p[1] /\ d = p[2] /\ k \in DOMAIN DefAt(p).items
      BY <3>1
    <3> QED
      BY <1>4, <3>2 DEF DefAt
  <2>3. ASSUME NEW m \in DOMAIN mods, NEW d \in DOMAIN mods[m].defs, NEW k \in DOMAIN mods[m].defs[d].items
        PROVE  <<m, d, k>> \in ItemPlaces
    <3>1. <<m, d>> \in DefPlaces /\ <<m, d>>[1] = m /\ <<m, d>>[2] = d
      BY <1>3
    <3> QED
      BY <2>1, <3>1 DEF DefAt
  <2> QED
    BY <2>2, <2>3
<1>6. \A p \in ItemPlaces : \E m \in DOMAIN mods : \E d \in DOMAIN mods[m].defs :
        \E k \in DOMAIN mods[m].defs[d].items : p = <<m, d, k>>
  BY <1>4 DEF ItemPlaces, DefAt
<1>7. ASSUME NEW p \in ItemPlaces
      PROVE  /\ p = <<p[1], p[2], p[3]>> /\ p[1] \in DOMAIN mods /\ p[2] \in DOMAIN mods[p[1]].defs
             /\ <<p[1], p[2]>> \in DefPlaces
             /\ p[3] \in DOMAIN mods[p[1]].defs[p[2]].items /\ p[3] \in Nat
  <2>1. PICK m \in DOMAIN mods : \E d \in DOMAIN mods[m].defs :
          \E k \in DOMAIN mods[m].defs[d].items : p = <<m, d, k>>
    BY <1>6
  <2>2. PICK d \in DOMAIN mods[m].defs : \E k \in DOMAIN mods[m].defs[d].items : p = <<m, d, k>>
    BY <2>1
  <2>3. PICK k \in DOMAIN mods[m].defs[d].items : p = <<m, d, k>>
    BY <2>2
  <2>4. p[1] = m /\ p[2] = d /\ p[3] = k
    BY <2>3
  <2> QED
    BY <1>2, <1>3, <2>3, <2>4
<1>8. \A d \in DefPlaces : d = <<d[1], d[2]>> /\ d[1] \in DOMAIN mods /\ d[2] \in DOMAIN mods[d[1]].defs
  BY <1>4
<1> QED
  BY <1>1, <1>2, <1>3, <1>5, <1>7, <1>8

LEMMA LookupTypeIs ==
  ASSUME IsProgram(mods), NEW m \in DOMAIN mods, NEW name
  PROVE  LET d == LookupType(m, name) IN
         /\ d = 0 <=> \A x \in DOMAIN mods[m].defs : mods[m].defs[x].name # name
         /\ d # 0 => d \in DOMAIN mods[m].defs /\ mods[m].defs[d].name = name
<1> DEFINE S == {d \in DOMAIN mods[m].defs : mods[m].defs[d].name = name}
<1>1. S \subseteq Nat \ {0}
  BY PlacesAre
<1>2. LookupType(m, name) = FirstOf(S)
  BY DEF LookupType
<1> QED
  BY <1>1, <1>2, FirstOfIs

LEMMA FoundIs ==
  ASSUME IsProgram(mods), NEW m \in DOMAIN mods, NEW name
  PROVE  /\ Found(m, name) = Unresolved <=> Named({m}, name) = {}
         /\ Found(m, name) # Unresolved => Found(m, name) \in Named({m}, name)
         /\ Found(m, name) # Unresolved => Found(m, name)[1] = m
         /\ LookupType(m, name) = 0 <=> Found(m, name) = Unresolved
<1> DEFINE d == LookupType(m, name)
<1>1. CASE d = 0
  <2>1. \A p \in DefPlaces : p[1] = m => DefAt(p).name # name
    BY <1>1, LookupTypeIs, PlacesAre DEF DefAt
  <2>2. Named({m}, name) = {}
    BY <2>1 DEF Named
  <2>3. Found(m, name) = Unresolved
    BY <1>1 DEF Found
  <2> QED
    BY <1>1, <2>2, <2>3
<1>2. CASE d # 0
  <2>1. d \in DOMAIN mods[m].defs /\ mods[m].defs[d].name = name
    BY <1>2, LookupTypeIs
  <2>2. <<m, d>> \in DefPlaces
    BY <2>1, PlacesAre
  <2>3. <<m, d>>[1] = m /\ <<m, d>>[2] = d
    OBVIOUS
  <2>4. <<m, d>> \in Named({m}, name)
    BY <2>1, <2>2, <2>3 DEF Named, DefAt
  <2>5. Found(m, name) = <<m, d>> /\ <<m, d>> # Unresolved
    BY <1>2 DEF Found, Unresolved
  <2> QED
    BY <1>2, <2>3, <2>4, <2>5
<1> QED
  BY <1>1, <1>2

\* A selection has a reference before it, and a definition that is a reference
\* begins with it.
RefOf(d) == <<d[1], d[2], 1>>
ChoiceOf(p) == <<p[1], p[2], p[3] - 1>>

LEMMA ReferencesInPlace ==
  ASSUME IsProgram(mods)
  PROVE  /\ \A d \in DefPlaces : DefAt(d).kind = "ref" => RefOf(d) \in References
         /\ \A p \in ItemPlaces \ References : ChoiceOf(p) \in References
<1>1. ASSUME NEW d \in DefPlaces, DefAt(d).kind = "ref" PROVE RefOf(d) \in References
  <2>1. d[1] \in DOMAIN mods /\ d[2] \in DOMAIN mods[d[1]].defs
    BY PlacesAre
  <2>2. IsDefinition(mods[d[1]].defs[d[2]])
    BY <2>1 DEF IsProgram
  <2>3. IsSequence(DefAt(d).items) /\ DefAt(d).items # <<>> /\ DefAt(d).items[1].t = "ref"
    BY <1>1, <2>2 DEF IsDefinition, DefAt
  <2>4. 1 \in DOMAIN DefAt(d).items
    <3> DEFINE s == DefAt(d).items
    <3>1. s \in Seq({s[i] : i \in DOMAIN s}) /\ s # <<>>
      BY <2>3 DEF IsSequence
    <3> HIDE DEF s
    <3>2. Len(s) # 0
      BY <3>1
    <3>3. Len(s) \in Nat /\ DOMAIN s = 1 .. Len(s)
      BY <3>1
    <3>4. 1 \in DOMAIN s
      BY <3>2, <3>3
    <3> QED
      BY <3>4 DEF s
  <2>5. RefOf(d) \in ItemPlaces
    BY <2>1, <2>4, PlacesAre DEF RefOf, DefAt
  <2>6. RefOf(d)[1] = d[1] /\ RefOf(d)[2] = d[2] /\ RefOf(d)[3] = 1
    BY DEF RefOf
  <2>7. ItemAt(RefOf(d)).t = "ref"
    BY <2>3, <2>6 DEF ItemAt, DefAt
  <2> QED
    BY <2>5, <2>7 DEF References, IsRefTo
<1>2. ASSUME NEW p \in ItemPlaces \ References PROVE ChoiceOf(p) \in References
  <2>1. p[1] \in DOMAIN mods /\ p[2] \in DOMAIN mods[p[1]].defs /\ p[3] \in DOMAIN mods[p[1]].defs[p[2]].items
    BY PlacesAre
  <2> DEFINE s == mods[p[1]].defs[p[2]].items
  <2>2. IsDefinition(mods[p[1]].defs[p[2]])
    BY <2>1 DEF IsProgram
  <2>3. s[p[3]].t # "ref"
    BY DEF References, IsRefTo, ItemAt, DefAt
  <2>4. p[3] > 1 /\ s[p[3] - 1].t = "ref" /\ IsSequence(s)
    BY <2>1, <2>2, <2>3 DEF IsDefinition
  <2>5. p[3] - 1 \in DOMAIN s
    <3>1. DOMAIN s = 1 .. Len(s) /\ Len(s) \in Nat
      BY <2>4, SequenceIs
    <3> QED
      BY <2>1, <2>4, <3>1
  <2>6. ChoiceOf(p) \in ItemPlaces
    BY <2>1, <2>5, PlacesAre DEF ChoiceOf
  <2>7. ChoiceOf(p)[1] = p[1] /\ ChoiceOf(p)[2] = p[2] /\ ChoiceOf(p)[3] = p[3] - 1
    BY DEF ChoiceOf
  <2>8. ItemAt(ChoiceOf(p)).t = "ref"
    BY <2>4, <2>7 DEF ItemAt, DefAt
  <2> QED
    BY <2>6, <2>8 DEF References, IsRefTo
<1> QED
  BY <1>1, <1>2

-----------------------------------------------------------------------------
(* The import lists                                                        *)

ElmtOK(x) == x = [name |-> x.name, privateScope |-> x.privateScope, resolved |-> x.resolved]
ListOK(l) ==
  /\ l = [from |-> l.from, oid |-> l.oid, elmts |-> l.elmts]
  /\ IsSequence(l.elmts) /\ \A e \in DOMAIN l.elmts : ElmtOK(l.elmts[e])
ListsOK(lists) ==
  /\ lists = [m \in DOMAIN mods |-> lists[m]]
  /\ \A m \in DOMAIN mods : IsSequence(lists[m]) /\ \A i \in DOMAIN lists[m] : ListOK(lists[m][i])

\* List i is the first one from that name.
IsListFor(lists, m, name, i) ==
  /\ i \in DOMAIN lists[m] /\ lists[m][i].from = name
  /\ \A j \in DOMAIN lists[m] : lists[m][j].from = name => i <= j

IsWritten(m, i, e) == i \in DOMAIN mods[m].imports /\ e \in DOMAIN mods[m].imports[i].elmts

\* What was written is still there, and such a list has no private elements.
WrittenKept(lists) ==
  \A m \in DOMAIN mods : \A i \in DOMAIN mods[m].imports :
    /\ i \in DOMAIN lists[m]
    /\ lists[m][i].from = mods[m].imports[i].from /\ lists[m][i].oid = mods[m].imports[i].oid
    /\ \A e \in DOMAIN mods[m].imports[i].elmts :
         e \in DOMAIN lists[m][i].elmts /\ lists[m][i].elmts[e].name = mods[m].imports[i].elmts[e]
    /\ \A e \in DOMAIN lists[m][i].elmts : lists[m][i].elmts[e].privateScope = FALSE

\* What was not has been added for a reference with the module's name.
AddedForReference(lists) ==
  /\ \A m \in DOMAIN mods : \A i \in DOMAIN lists[m] : i \in DOMAIN mods[m].imports \/ lists[m][i].oid = None
  /\ \A m \in DOMAIN mods : \A i \in DOMAIN lists[m] : \A e \in DOMAIN lists[m][i].elmts :
       \/ IsWritten(m, i, e)
       \/ \E q \in ItemPlaces : /\ IsExternal(q) /\ q[1] = m /\ IsListFor(lists, m, ItemAt(q).module, i)
                                /\ ItemAt(q).name = lists[m][i].elmts[e].name

HasElmt(lists, q) ==
  \E i \in DOMAIN lists[q[1]] : /\ IsListFor(lists, q[1], ItemAt(q).module, i)
                                /\ \E e \in DOMAIN lists[q[1]][i].elmts : lists[q[1]][i].elmts[e].name = ItemAt(q).name

ImportsInv(lists) == ListsOK(lists) /\ WrittenKept(lists) /\ AddedForReference(lists)

LEMMA ListsAre ==
  ASSUME ListsOK(imports), NEW m \in DOMAIN mods
  PROVE  /\ DOMAIN imports = DOMAIN mods
         /\ DOMAIN imports[m] \subseteq Nat \ {0}
         /\ \A i \in DOMAIN imports[m] : DOMAIN imports[m][i].elmts \subseteq Nat \ {0}
<1>1. DOMAIN imports = DOMAIN mods
  BY DEF ListsOK
<1>2. IsSequence(imports[m]) /\ \A i \in DOMAIN imports[m] : IsSequence(imports[m][i].elmts)
  BY DEF ListsOK, ListOK
<1> QED
  BY <1>1, <1>2, SequenceIs

LEMMA LookupElmtIs ==
  ASSUME NEW elmts, DOMAIN elmts \subseteq Nat \ {0}, NEW name
  PROVE  LET e == LookupElmt(elmts, name) IN
         /\ e = 0 <=> \A x \in DOMAIN elmts : elmts[x].name # name
         /\ e # 0 => /\ e \in DOMAIN elmts /\ elmts[e].name = name
                     /\ \A x \in DOMAIN elmts : elmts[x].name = name => e <= x
<1> DEFINE S == {e \in DOMAIN elmts : elmts[e].name = name}
<1>1. S \subseteq Nat \ {0}
  OBVIOUS
<1>2. LookupElmt(elmts, name) = FirstOf(S)
  BY DEF LookupElmt
<1> QED
  BY <1>1, <1>2, FirstOfIs

LEMMA LookupImportModuleIs ==
  ASSUME ListsOK(imports), NEW m \in DOMAIN mods, NEW name
  PROVE  LET i == LookupImportModule(m, name) IN
         /\ i = 0 <=> \A j \in DOMAIN imports[m] : imports[m][j].from # name
         /\ i # 0 => IsListFor(imports, m, name, i)
         /\ \A j : IsListFor(imports, m, name, j) => j = i
<1> DEFINE S == {i \in DOMAIN imports[m] : imports[m][i].from = name}
           i == LookupImportModule(m, name)
<1>1. S \subseteq Nat \ {0}
  BY ListsAre
<1>2. i = FirstOf(S)
  BY DEF LookupImportModule
<1> HIDE DEF i
<1>3. (i = 0 <=> S = {}) /\ (i # 0 => i \in S /\ \A j \in S : i <= j)
  BY <1>1, <1>2, FirstOfIs
<1>4. i # 0 => IsListFor(imports, m, name, i)
  BY <1>3 DEF IsListFor
<1>5. ASSUME NEW j, IsListFor(imports, m, name, j) PROVE j = i
  <2>1. j \in S /\ i \in S /\ \A k \in S : j <= k
    BY <1>3, <1>5 DEF IsListFor
  <2>2. i <= j /\ j <= i /\ i \in Nat /\ j \in Nat
    BY <1>1, <1>3, <2>1
  <2> QED
    BY <2>2
<1> QED
  BY <1>3, <1>4, <1>5 DEF i

LEMMA LookupImportElmtIs ==
  ASSUME ListsOK(imports), NEW m \in DOMAIN mods, NEW name
  PROVE  LET i == LookupImportElmtInModule(m, name)
             Has(j) == \E e \in DOMAIN imports[m][j].elmts : imports[m][j].elmts[e].name = name
         IN
         /\ i = 0 <=> \A j \in DOMAIN imports[m] : ~Has(j)
         /\ i # 0 => i \in DOMAIN imports[m] /\ Has(i) /\ \A j \in DOMAIN imports[m] : Has(j) => i <= j
<1> DEFINE Has(j) == \E e \in DOMAIN imports[m][j].elmts : imports[m][j].elmts[e].name = name
           S == {i \in DOMAIN imports[m] : LookupElmt(imports[m][i].elmts, name) # 0}
           T == {i \in DOMAIN imports[m] : Has(i)}
<1>1. S = T
  <2>1. ASSUME NEW i \in DOMAIN imports[m] PROVE LookupElmt(imports[m][i].elmts, name) # 0 <=> Has(i)
    <3>1. DOMAIN imports[m][i].elmts \subseteq Nat \ {0}
      BY ListsAre
    <3> QED
      BY <3>1, LookupElmtIs
  <2> QED
    BY <2>1
<1>2. S \subseteq Nat \ {0}
  BY ListsAre
<1>3. LookupImportElmtInModule(m, name) = FirstOf(T)
  BY <1>1 DEF LookupImportElmtInModule
<1>4. T \subseteq Nat \ {0}
  BY <1>1, <1>2
<1> HIDE DEF S, T
<1>5. (FirstOf(T) = 0 <=> T = {}) /\ (T # {} => FirstOf(T) \in T /\ \A j \in T : FirstOf(T) <= j)
  BY <1>4, FirstOfIs
<1> QED
  BY <1>3, <1>5 DEF T

LEMMA LookupModuleIs ==
  ASSUME IsProgram(mods), NEW name, NEW oid
  PROVE  LET n == LookupModule(name, oid)
             Fits(m) == (oid # None /\ mods[m].oid = oid) \/ mods[m].name = name
         IN
         /\ n = 0 <=> \A m \in DOMAIN mods : ~Fits(m)
         /\ n # 0 => n \in DOMAIN mods /\ Fits(n) /\ \A m \in DOMAIN mods : Fits(m) => n <= m
<1> DEFINE Fits(m) == (oid # None /\ mods[m].oid = oid) \/ mods[m].name = name
           S == {m \in DOMAIN mods : Fits(m)}
<1>1. S \subseteq Nat \ {0}
  BY PlacesAre
<1>2. LookupModule(name, oid) = FirstOf(S)
  BY DEF LookupModule
<1> HIDE DEF S
<1>3. (FirstOf(S) = 0 <=> S = {}) /\ (S # {} => FirstOf(S) \in S /\ \A j \in S : FirstOf(S) <= j)
  BY <1>1, FirstOfIs
<1> QED
  BY <1>2, <1>3 DEF S

\* Some module is found if one is meant, and it is one of those unless it is found
\* by its name first; without an object identifier it is always.
LEMMA LookupModuleFindsMeant ==
  ASSUME IsProgram(mods), NEW name, NEW oid
  PROVE  LET n == LookupModule(name, oid) IN
         /\ n # 0 => n \in DOMAIN mods
         /\ ModulesMeant(name, oid) # {} => n # 0
         /\ oid = None /\ n # 0 => n \in ModulesMeant(name, oid)
<1> DEFINE n == LookupModule(name, oid)
<1>1. n # 0 => n \in DOMAIN mods
  BY LookupModuleIs
<1>2. ASSUME ModulesMeant(name, oid) # {} PROVE n # 0
  <2>1. \E m \in DOMAIN mods : (oid # None /\ mods[m].oid = oid) \/ mods[m].name = name
    BY <1>2 DEF ModulesMeant
  <2> QED
    BY <2>1, LookupModuleIs
<1>3. ASSUME oid = None, n # 0 PROVE n \in ModulesMeant(name, oid)
  <2>1. n \in DOMAIN mods /\ mods[n].name = name
    BY <1>3, LookupModuleIs
  <2> QED
    BY <1>3, <2>1 DEF ModulesMeant
<1> QED
  BY <1>1, <1>2, <1>3

-----------------------------------------------------------------------------
(* What the linker finds, and what is meant                                *)

ModuleOf(m, i) == LookupModule(imports[m][i].from, imports[m][i].oid)
MeantBy(m, i)  == ModulesMeant(imports[m][i].from, imports[m][i].oid)

\* What an element of an import list is resolved to.
TargetOf(m, i, e) ==
  IF ModuleOf(m, i) = 0 THEN Unresolved ELSE Found(ModuleOf(m, i), imports[m][i].elmts[e].name)
ListFails(m, i) ==
  \/ ModuleOf(m, i) = 0
  \/ \E e \in DOMAIN imports[m][i].elmts : TargetOf(m, i, e) = Unresolved \/ ~Exported(TargetOf(m, i, e))

\* What a reference is linked to.
ElmtOf(p) == LookupElmt(imports[p[1]][ImportList(p)].elmts, ItemAt(p).name)
LinkOf(p) ==
  IF IsLocal(p) THEN Found(p[1], ItemAt(p).name)
  ELSE IF IsImported(p) THEN TargetOf(p[1], ImportList(p), ElmtOf(p))
  ELSE Unresolved

\* The parser has come to all references with a module's name.
Parsed ==
  /\ IsProgram(mods) /\ ImportsInv(imports)
  /\ \A q \in ItemPlaces : IsExternal(q) => HasElmt(imports, q)

LEMMA NamedIn ==
  ASSUME NEW S, NEW n \in S, NEW name
  PROVE  Named({n}, name) \subseteq Named(S, name)
BY DEF Named

LEMMA FirstListIsWritten ==
  ASSUME IsProgram(mods), NEW m \in DOMAIN mods, NEW i \in Nat \ {0}, NEW j \in DOMAIN mods[m].imports, i <= j
  PROVE  i \in DOMAIN mods[m].imports
<1>1. IsSequence(mods[m].imports)
  BY DEF IsProgram
<1> QED
  BY <1>1, SequenceIs

\* The element of the import lists for a reference.
LEMMA ImportOf ==
  ASSUME Parsed, NEW p \in References
  PROVE  /\ p[1] \in DOMAIN mods
         /\ IsExternal(p) => ImportList(p) # 0 /\ IsListFor(imports, p[1], ItemAt(p).module, ImportList(p))
         /\ ImportList(p) # 0 =>
              /\ ImportList(p) \in DOMAIN imports[p[1]] /\ ImportList(p) \in Nat \ {0}
              /\ ElmtOf(p) \in DOMAIN imports[p[1]][ImportList(p)].elmts /\ ElmtOf(p) \in Nat \ {0}
              /\ imports[p[1]][ImportList(p)].elmts[ElmtOf(p)].name = ItemAt(p).name
<1> DEFINE m == p[1]
           i == ImportList(p)
           name == ItemAt(p).name
<1>1. p \in ItemPlaces /\ m \in DOMAIN mods /\ ListsOK(imports)
  BY PlacesAre DEF References, Parsed, ImportsInv
<1>2. ASSUME NEW j \in DOMAIN imports[m], \E e \in DOMAIN imports[m][j].elmts : imports[m][j].elmts[e].name = name
      PROVE  LET e == LookupElmt(imports[m][j].elmts, name)
             IN e \in DOMAIN imports[m][j].elmts /\ e \in Nat \ {0} /\ imports[m][j].elmts[e].name = name
  <2>1. DOMAIN imports[m][j].elmts \subseteq Nat \ {0}
    BY <1>1, ListsAre
  <2> QED
    BY <1>2, <2>1, LookupElmtIs
<1>3. CASE IsExternal(p)
  <2>1. i = LookupImportModule(m, ItemAt(p).module)
    BY <1>3 DEF ImportList
  <2>2. PICK j \in DOMAIN imports[m] : /\ IsListFor(imports, m, ItemAt(p).module, j)
                                      /\ \E e \in DOMAIN imports[m][j].elmts : imports[m][j].elmts[e].name = name
    BY <1>1, <1>3 DEF Parsed, HasElmt
  <2>3. i = j
    BY <1>1, <2>1, <2>2, LookupImportModuleIs
  <2>4. j \in Nat \ {0}
    BY <1>1, ListsAre
  <2>5. ElmtOf(p) = LookupElmt(imports[m][j].elmts, name)
    BY <2>3 DEF ElmtOf
  <2> QED
    BY <1>1, <1>2, <2>2, <2>3, <2>4, <2>5
<1>4. CASE ~IsExternal(p) /\ i # 0
  <2>1. i = LookupImportElmtInModule(m, name)
    BY <1>4 DEF ImportList
  <2>2. i \in DOMAIN imports[m] /\ \E e \in DOMAIN imports[m][i].elmts : imports[m][i].elmts[e].name = name
    BY <1>1, <1>4, <2>1, LookupImportElmtIs
  <2>3. i \in Nat \ {0}
    BY <1>1, <2>2, ListsAre
  <2>4. ElmtOf(p) = LookupElmt(imports[m][i].elmts, name)
    BY DEF ElmtOf
  <2> QED
    BY <1>1, <1>2, <1>4, <2>2, <2>3, <2>4
<1>5. CASE ~IsExternal(p) /\ i = 0
  BY <1>1, <1>5
<1> QED
  BY <1>3, <1>4, <1>5

\* A list from the name of a reference is meant by it.
LEMMA ListIsMeant ==
  ASSUME Parsed, NEW p \in References, IsExternal(p), NEW i, IsListFor(imports, p[1], ItemAt(p).module, i)
  PROVE  Named(MeantBy(p[1], i), ItemAt(p).name) \subseteq Denoted(p)
<1> DEFINE m == p[1]
           r == ItemAt(p)
           IsFrom(list) == list.from = r.module
           ms == UNION {ModulesMeant(list.from, list.oid) : list \in Written(m, IsFrom)}
<1>1. m \in DOMAIN mods /\ i \in DOMAIN imports[m] /\ imports[m][i].from = r.module /\ i \in Nat \ {0}
  BY ImportOf, ListsAre DEF IsListFor, Parsed, ImportsInv
<1>2. Denoted(p) = Named(IF Written(m, IsFrom) = {} THEN ModulesMeant(r.module, None) ELSE ms, r.name)
  BY DEF Denoted
<1>3. CASE i \in DOMAIN mods[m].imports
  <2> DEFINE list == mods[m].imports[i]
  <2>1. list.from = imports[m][i].from /\ list.oid = imports[m][i].oid
    BY <1>1, <1>3 DEF Parsed, ImportsInv, WrittenKept
  <2>2. list \in Written(m, IsFrom)
    BY <1>1, <1>3, <2>1 DEF Written
  <2>3. MeantBy(m, i) \subseteq ms
    BY <2>1, <2>2 DEF MeantBy
  <2>4. Denoted(p) = Named(ms, r.name)
    BY <1>2, <2>2
  <2> HIDE DEF ms
  <2> QED
    BY <2>3, <2>4 DEF Named
<1>4. CASE i \notin DOMAIN mods[m].imports
  <2>1. imports[m][i].oid = None
    BY <1>1, <1>4 DEF Parsed, ImportsInv, AddedForReference
  <2>2. ASSUME NEW j \in DOMAIN mods[m].imports, mods[m].imports[j].from = r.module PROVE FALSE
    <3>1. j \in DOMAIN imports[m] /\ imports[m][j].from = r.module
      BY <1>1, <2>2 DEF Parsed, ImportsInv, WrittenKept
    <3>2. i <= j
      BY <3>1 DEF IsListFor
    <3> QED
      BY <1>1, <1>4, <3>2, FirstListIsWritten DEF Parsed
  <2>3. Written(m, IsFrom) = {}
    BY <2>2 DEF Written
  <2> QED
    BY <1>1, <1>2, <2>1, <2>3 DEF MeantBy
<1> QED
  BY <1>3, <1>4

\* What an element that was written stands for is imported.
LEMMA WrittenIsImported ==
  ASSUME Parsed, NEW m \in DOMAIN mods, NEW i, NEW e, IsWritten(m, i, e)
  PROVE  Named(MeantBy(m, i), imports[m][i].elmts[e].name) \subseteq ImportedInto(m, imports[m][i].elmts[e].name)
<1> DEFINE name == imports[m][i].elmts[e].name
           list == mods[m].imports[i]
           Has(l) == \E x \in DOMAIN l.elmts : l.elmts[x] = name
<1>1. i \in DOMAIN mods[m].imports /\ e \in DOMAIN list.elmts
  BY DEF IsWritten
<1>2. list.from = imports[m][i].from /\ list.oid = imports[m][i].oid /\ list.elmts[e] = name
  BY <1>1 DEF Parsed, ImportsInv, WrittenKept
<1>3. list \in Written(m, Has)
  BY <1>1, <1>2 DEF Written
<1>4. ImportedInto(m, name) = UNION {Named(ModulesMeant(l.from, l.oid), name) : l \in Written(m, Has)}
  BY DEF ImportedInto
<1>5. MeantBy(m, i) = ModulesMeant(list.from, list.oid)
  BY <1>2 DEF MeantBy
<1> QED
  BY <1>3, <1>4, <1>5

\* When no list has failed, links are to what is denoted.
LEMMA AcceptedLink ==
  ASSUME Parsed, \A m \in DOMAIN mods : \A i \in DOMAIN imports[m] : ~ListFails(m, i),
         NEW p \in References, IsLocal(p) \/ IsImported(p)
  PROVE  /\ LinkOf(p) # Unresolved
         /\ LinkOf(p) \in Denoted(p) \/ Leaked(p[1], ItemAt(p).name) \/ NameFirst(p[1])
<1> DEFINE m == p[1]
           name == ItemAt(p).name
           i == ImportList(p)
           e == ElmtOf(p)
           n == ModuleOf(m, i)
<1>1. m \in DOMAIN mods /\ IsProgram(mods)
  BY ImportOf DEF Parsed
<1>2. CASE IsLocal(p)
  <2>1. ItemAt(p).module = None /\ LookupType(m, name) # 0 /\ ~IsExternal(p)
    BY <1>2 DEF IsLocal, IsExternal
  <2>2. Found(m, name) # Unresolved /\ Found(m, name) \in Named({m}, name)
    BY <1>1, <2>1, FoundIs
  <2>3. Denoted(p) = Named({m}, name)
    BY <2>1, <2>2 DEF Denoted
  <2> QED
    BY <1>2, <2>2, <2>3 DEF LinkOf
<1>3. CASE ~IsLocal(p)
  <2>1. IsImported(p) /\ i # 0
    BY <1>3 DEF IsImported
  <2>2. /\ i \in DOMAIN imports[m] /\ i \in Nat \ {0}
        /\ e \in DOMAIN imports[m][i].elmts /\ imports[m][i].elmts[e].name = name
    BY <2>1, ImportOf
  <2>3. ~ListFails(m, i)
    BY <1>1, <2>2
  <2>4. n # 0 /\ TargetOf(m, i, e) # Unresolved /\ TargetOf(m, i, e) = Found(n, name)
    BY <2>2, <2>3 DEF ListFails, TargetOf
  <2>5. LinkOf(p) = Found(n, name)
    BY <1>3, <2>1, <2>4 DEF LinkOf
  <2>6. n \in DOMAIN mods
    BY <1>1, <2>4, LookupModuleFindsMeant DEF ModuleOf
  <2>7. Found(n, name) \in Named({n}, name)
    BY <1>1, <2>4, <2>6, FoundIs
  <2>8. CASE n \notin MeantBy(m, i)
    <3>1. NameFirst(m)
      BY <2>2, <2>4, <2>8 DEF NameFirst, ModuleOf, MeantBy
    <3> QED
      BY <2>4, <2>5, <3>1
  <2>9. CASE n \in MeantBy(m, i)
    <3>1. Found(n, name) \in Named(MeantBy(m, i), name)
      BY <2>7, <2>9, NamedIn
    <3>2. CASE IsExternal(p)
      BY <2>4, <2>5, <3>1, <3>2, ImportOf, ListIsMeant
    <3>3. CASE ~IsExternal(p) /\ IsWritten(m, i, e)
      <4>1. Found(n, name) \in ImportedInto(m, name)
        BY <1>1, <2>2, <3>1, <3>3, WrittenIsImported
      <4>2. LookupType(m, name) = 0
        BY <1>3, <3>3 DEF IsLocal, IsExternal, References
      <4>3. Named({m}, name) = {}
        BY <1>1, <4>2, FoundIs
      <4>4. Denoted(p) = ImportedInto(m, name)
        BY <3>3, <4>3 DEF Denoted
      <4> QED
        BY <2>4, <2>5, <4>1, <4>4
    <3>4. CASE ~IsExternal(p) /\ ~IsWritten(m, i, e)
      <4>1. ~imports[m][i].elmts[e].privateScope
        BY <2>1, <3>4 DEF IsImported, ImportElmt, ElmtOf
      <4>2. Leaked(m, name)
        BY <2>2, <3>4, <4>1 DEF Leaked, IsWritten
      <4> QED
        BY <2>4, <2>5, <4>2
    <3> QED
      BY <3>2, <3>3, <3>4
  <2> QED
    BY <2>8, <2>9
<1> QED
  BY <1>2, <1>3

-----------------------------------------------------------------------------
(* What is right is accepted                                               *)

AllRight == ProgramRight /\ \A m \in DOMAIN mods : ~NameFirst(m) /\ ~LeakClashes(m)

\* The list means one module, and it is found.
LEMMA OneModule ==
  ASSUME Parsed, AllRight, NEW m \in DOMAIN mods, NEW i \in DOMAIN imports[m]
  PROVE  /\ ModuleOf(m, i) \in DOMAIN mods /\ ModuleOf(m, i) # 0
         /\ \A j \in DOMAIN imports[m] : imports[m][j].from = imports[m][i].from => MeantBy(m, j) = {ModuleOf(m, i)}
<1> DEFINE n == ModuleOf(m, i)
<1>1. PICK k \in DOMAIN mods : \A j \in DOMAIN imports[m] :
                                 imports[m][j].from = imports[m][i].from => MeantBy(m, j) = {k}
  BY DEF AllRight, ProgramRight, ModulesKnown, MeantBy
<1>2. MeantBy(m, i) = {k}
  BY <1>1
<1>3. n # 0 /\ n \in DOMAIN mods
  BY <1>2, LookupModuleFindsMeant DEF Parsed, ModuleOf, MeantBy
<1>4. n \in MeantBy(m, i)
  BY <1>3 DEF AllRight, NameFirst, ModuleOf, MeantBy
<1>5. n = k
  BY <1>2, <1>4
<1> QED
  BY <1>1, <1>3, <1>5

LEMMA OneDefinition ==
  ASSUME Parsed, AllRight, NEW n \in DOMAIN mods, NEW name, NEW p \in Named({n}, name)
  PROVE  Found(n, name) = p /\ Found(n, name) # Unresolved /\ Named({n}, name) = {p}
<1>1. ASSUME NEW a \in Named({n}, name), NEW b \in Named({n}, name) PROVE a = b
  <2>1. a \in DefPlaces /\ a[1] = n /\ DefAt(a).name = name /\ b \in DefPlaces /\ b[1] = n /\ DefAt(b).name = name
    BY DEF Named
  <2>2. a = <<n, a[2]>> /\ a[2] \in DOMAIN mods[n].defs /\ b = <<n, b[2]>> /\ b[2] \in DOMAIN mods[n].defs
    BY <2>1, PlacesAre DEF Parsed
  <2>3. <<0, a[2]>> \in WrittenNames(n) /\ <<0, b[2]>> \in WrittenNames(n)
    BY <2>2 DEF WrittenNames
  <2>4. WrittenName(n, <<0, a[2]>>) = name /\ WrittenName(n, <<0, b[2]>>) = name
    BY <2>1 DEF WrittenName, DefAt
  <2>5. <<0, a[2]>> = <<0, b[2]>>
    BY <2>3, <2>4 DEF AllRight, ProgramRight, NamesRight
  <2> QED
    BY <2>2, <2>5
<1>2. Found(n, name) # Unresolved /\ Found(n, name) \in Named({n}, name)
  BY FoundIs DEF Parsed
<1> QED
  BY <1>1, <1>2

LEMMA ExternalDenotes ==
  ASSUME Parsed, AllRight, NEW p \in References, IsExternal(p),
         NEW i, IsListFor(imports, p[1], ItemAt(p).module, i)
  PROVE  Denoted(p) = Named({ModuleOf(p[1], i)}, ItemAt(p).name)
<1> DEFINE m == p[1]
           r == ItemAt(p)
           n == ModuleOf(m, i)
           IsFrom(list) == list.from = r.module
           ms == UNION {ModulesMeant(list.from, list.oid) : list \in Written(m, IsFrom)}
<1>1. m \in DOMAIN mods /\ i \in DOMAIN imports[m] /\ imports[m][i].from = r.module
  BY ImportOf DEF IsListFor
<1>2. \A j \in DOMAIN imports[m] : imports[m][j].from = r.module => MeantBy(m, j) = {n}
  BY <1>1, OneModule
<1> HIDE DEF n
<1>3. Denoted(p) = Named(IF Written(m, IsFrom) = {} THEN ModulesMeant(r.module, None) ELSE ms, r.name)
  BY DEF Denoted
<1>4. CASE Written(m, IsFrom) = {}
  <2>1. i \notin DOMAIN mods[m].imports
    <3>1. ASSUME i \in DOMAIN mods[m].imports PROVE FALSE
      <4>1. mods[m].imports[i].from = r.module
        BY <1>1, <3>1 DEF Parsed, ImportsInv, WrittenKept
      <4>2. mods[m].imports[i] \in Written(m, IsFrom)
        BY <3>1, <4>1 DEF Written
      <4> QED
        BY <1>4, <4>2
    <3> QED
      BY <3>1
  <2>2. imports[m][i].oid = None
    BY <1>1, <2>1 DEF Parsed, ImportsInv, AddedForReference
  <2>3. ModulesMeant(r.module, None) = {n}
    BY <1>1, <1>2, <2>2 DEF MeantBy
  <2> QED
    BY <1>3, <1>4, <2>3 DEF n
<1>5. CASE Written(m, IsFrom) # {}
  <2>1. ASSUME NEW list \in Written(m, IsFrom) PROVE ModulesMeant(list.from, list.oid) = {n}
    <3>1. PICK j \in DOMAIN mods[m].imports : list = mods[m].imports[j] /\ list.from = r.module
      BY DEF Written
    <3>2. j \in DOMAIN imports[m] /\ imports[m][j].from = list.from /\ imports[m][j].oid = list.oid
      BY <1>1, <3>1 DEF Parsed, ImportsInv, WrittenKept
    <3> QED
      BY <1>2, <3>1, <3>2 DEF MeantBy
  <2>2. ms = {n}
    BY <1>5, <2>1
  <2> QED
    BY <1>3, <1>5, <2>2 DEF n
<1> QED
  BY <1>4, <1>5

\* No list fails.
LEMMA ListRight ==
  ASSUME Parsed, AllRight, NEW m \in DOMAIN mods, NEW i \in DOMAIN imports[m]
  PROVE  ~ListFails(m, i)
<1> DEFINE n == ModuleOf(m, i)
<1>1. n \in DOMAIN mods /\ n # 0 /\ MeantBy(m, i) = {n}
  BY OneModule
<1>2. ASSUME NEW e \in DOMAIN imports[m][i].elmts
      PROVE  TargetOf(m, i, e) # Unresolved /\ Exported(TargetOf(m, i, e))
  <2> DEFINE name == imports[m][i].elmts[e].name
  <2>1. \E p \in Named({n}, name) : Exported(p)
    <3>1. CASE IsWritten(m, i, e)
      <4> DEFINE list == mods[m].imports[i]
      <4>1. i \in DOMAIN mods[m].imports /\ e \in DOMAIN list.elmts
        BY <3>1 DEF IsWritten
      <4>2. list.from = imports[m][i].from /\ list.oid = imports[m][i].oid /\ list.elmts[e] = name
        BY <4>1 DEF Parsed, ImportsInv, WrittenKept
      <4>3. \E p \in Named(ModulesMeant(list.from, list.oid), list.elmts[e]) : Exported(p)
        BY <4>1 DEF AllRight, ProgramRight, ImportsRight
      <4>4. ModulesMeant(list.from, list.oid) = {n}
        BY <1>1, <4>2 DEF MeantBy
      <4> HIDE DEF n, list
      <4> QED
        BY <4>2, <4>3, <4>4
    <3>2. CASE ~IsWritten(m, i, e)
      <4>1. PICK q \in ItemPlaces : /\ IsExternal(q) /\ q[1] = m /\ IsListFor(imports, m, ItemAt(q).module, i)
                                    /\ ItemAt(q).name = name
        BY <3>2 DEF Parsed, ImportsInv, AddedForReference
      <4>2. q \in References
        BY <4>1 DEF References, IsExternal
      <4>3. Denoted(q) = Named({n}, name)
        BY <4>1, <4>2, ExternalDenotes
      <4>4. Denoted(q) # {} /\ \A d \in Denoted(q) : Exported(d)
        BY <4>1, <4>2 DEF AllRight, ProgramRight, ReferencesRight
      <4> QED
        BY <4>3, <4>4
    <3> QED
      BY <3>1, <3>2
  <2>2. PICK p \in Named({n}, name) : Exported(p)
    BY <2>1
  <2>3. Found(n, name) = p /\ Found(n, name) # Unresolved
    BY <1>1, <2>2, OneDefinition
  <2> QED
    BY <1>1, <2>2, <2>3 DEF TargetOf
<1> QED
  BY <1>1, <1>2 DEF ListFails

\* A name that is imported by no module's name before it.
LEMMA ImportedElmt ==
  ASSUME Parsed, AllRight, NEW p \in References, ~IsExternal(p), ~IsLocal(p)
  PROVE  /\ IsImported(p) /\ IsWritten(p[1], ImportList(p), ElmtOf(p))
         /\ Denoted(p) = Named({ModuleOf(p[1], ImportList(p))}, ItemAt(p).name)
<1> DEFINE m == p[1]
           name == ItemAt(p).name
           i == ImportList(p)
           e == ElmtOf(p)
           Has(l) == \E x \in DOMAIN l.elmts : l.elmts[x] = name
<1>1. m \in DOMAIN mods /\ IsProgram(mods) /\ ListsOK(imports)
  BY ImportOf DEF Parsed, ImportsInv
<1>2. LookupType(m, name) = 0
  BY DEF IsLocal, IsExternal, References
<1>3. Named({m}, name) = {}
  BY <1>1, <1>2, FoundIs
<1>4. Denoted(p) = ImportedInto(m, name)
  BY <1>3 DEF Denoted
<1>5. ImportedInto(m, name) = UNION {Named(ModulesMeant(l.from, l.oid), name) : l \in Written(m, Has)}
  BY DEF ImportedInto
<1>6. Denoted(p) # {}
  BY DEF AllRight, ProgramRight, ReferencesRight
<1>7. PICK j \in DOMAIN mods[m].imports : Has(mods[m].imports[j])
  BY <1>4, <1>5, <1>6 DEF Written
<1>8. PICK x \in DOMAIN mods[m].imports[j].elmts : mods[m].imports[j].elmts[x] = name
  BY <1>7
<1>9. /\ j \in DOMAIN imports[m] /\ x \in DOMAIN imports[m][j].elmts /\ imports[m][j].elmts[x].name = name
      /\ imports[m][j].elmts[x].privateScope = FALSE
  BY <1>1, <1>8 DEF Parsed, ImportsInv, WrittenKept
<1>10. i = LookupImportElmtInModule(m, name)
  BY DEF ImportList
<1>11. i # 0 /\ i <= j
  BY <1>1, <1>9, <1>10, LookupImportElmtIs
<1>12. /\ i \in DOMAIN imports[m] /\ i \in Nat \ {0} /\ e \in DOMAIN imports[m][i].elmts /\ e \in Nat \ {0}
       /\ imports[m][i].elmts[e].name = name
  BY <1>11, ImportOf
<1>13. i \in DOMAIN mods[m].imports
  BY <1>1, <1>11, <1>12, FirstListIsWritten
<1>14. imports[m][i].elmts[e].privateScope = FALSE
  BY <1>1, <1>12, <1>13 DEF Parsed, ImportsInv, WrittenKept
<1>15. IsImported(p)
  BY <1>11, <1>14 DEF IsImported, ImportElmt, ElmtOf
<1>16. j \in Nat \ {0}
  BY <1>1, <1>9, ListsAre
<1>17. IsWritten(m, i, e)
  <2> SUFFICES ASSUME ~IsWritten(m, i, e) PROVE FALSE
    OBVIOUS
  <2>1. <<i, e>> \in NamesIn(m) /\ <<j, x>> \in NamesIn(m)
    BY <1>9, <1>12, <1>14 DEF NamesIn
  <2>2. <<i, e>> \notin WrittenNames(m)
    BY <1>12 DEF WrittenNames, IsWritten
  <2>3. NameOf(m, <<i, e>>) = name /\ NameOf(m, <<j, x>>) = name
    BY <1>9, <1>12, <1>16 DEF NameOf
  <2>4. <<j, x>> \in WrittenNames(m)
    BY <1>7, <1>8 DEF WrittenNames
  <2>5. LeakClashes(m)
    BY <2>1, <2>2, <2>3, <2>4 DEF LeakClashes
  <2> QED
    BY <1>1, <2>5 DEF AllRight
<1>18. mods[m].imports[i].elmts[e] = name
  BY <1>1, <1>12, <1>17 DEF Parsed, ImportsInv, WrittenKept, IsWritten
<1>19. ASSUME NEW l \in Written(m, Has) PROVE l = mods[m].imports[i]
  <2>1. PICK k \in DOMAIN mods[m].imports : l = mods[m].imports[k]
    BY DEF Written
  <2>2. PICK y \in DOMAIN mods[m].imports[k].elmts : mods[m].imports[k].elmts[y] = name
    BY <2>1 DEF Written
  <2>3. <<i, e>> \in WrittenNames(m) /\ <<k, y>> \in WrittenNames(m) /\ k \in Nat \ {0}
    BY <1>1, <1>17, <2>2, PlacesAre DEF WrittenNames, IsWritten
  <2>4. WrittenName(m, <<i, e>>) = name /\ WrittenName(m, <<k, y>>) = name
    BY <1>12, <1>18, <2>2, <2>3 DEF WrittenName
  <2>5. <<i, e>> = <<k, y>>
    BY <1>1, <2>3, <2>4 DEF AllRight, ProgramRight, NamesRight
  <2> QED
    BY <2>1, <2>5
<1>20. mods[m].imports[i] \in Written(m, Has)
  BY <1>13, <1>17, <1>18 DEF Written, IsWritten
<1>21. ModulesMeant(mods[m].imports[i].from, mods[m].imports[i].oid) = {ModuleOf(m, i)}
  <2>1. MeantBy(m, i) = {ModuleOf(m, i)}
    BY <1>1, <1>12, OneModule
  <2>2. mods[m].imports[i].from = imports[m][i].from /\ mods[m].imports[i].oid = imports[m][i].oid
    BY <1>1, <1>13 DEF Parsed, ImportsInv, WrittenKept
  <2> QED
    BY <2>1, <2>2 DEF MeantBy
<1>22. Denoted(p) = Named({ModuleOf(m, i)}, name)
  <2> HIDE DEF i, Has
  <2> QED
    BY <1>4, <1>5, <1>19, <1>20, <1>21
<1> QED
  BY <1>15, <1>17, <1>22

\* Every reference is linked to the one definition that it denotes.
LEMMA RightLink ==
  ASSUME Parsed, AllRight, NEW p \in References
  PROVE  /\ IsLocal(p) \/ IsImported(p)
         /\ LinkOf(p) # Unresolved /\ Denoted(p) = {LinkOf(p)}
<1> DEFINE m == p[1]
           name == ItemAt(p).name
           i == ImportList(p)
           e == ElmtOf(p)
<1>1. m \in DOMAIN mods /\ IsProgram(mods) /\ Denoted(p) # {}
  BY ImportOf DEF Parsed, AllRight, ProgramRight, ReferencesRight
<1>2. CASE IsLocal(p)
  <2>1. ItemAt(p).module = None /\ LookupType(m, name) # 0 /\ ~IsExternal(p)
    BY <1>2 DEF IsLocal, IsExternal
  <2>2. Found(m, name) \in Named({m}, name)
    BY <1>1, <2>1, FoundIs
  <2>3. Denoted(p) = Named({m}, name)
    BY <2>1, <2>2 DEF Denoted
  <2>4. Found(m, name) # Unresolved /\ Named({m}, name) = {Found(m, name)}
    BY <1>1, <2>2, OneDefinition
  <2> QED
    BY <1>2, <2>3, <2>4 DEF LinkOf
<1>3. CASE ~IsLocal(p)
  <2>1. /\ IsImported(p) /\ i # 0
        /\ Denoted(p) = Named({ModuleOf(m, i)}, name)
    <3>1. CASE IsExternal(p)
      <4>1. i # 0 /\ IsListFor(imports, m, ItemAt(p).module, i)
        BY <3>1, ImportOf
      <4>2. Denoted(p) = Named({ModuleOf(m, i)}, name)
        BY <3>1, <4>1, ExternalDenotes
      <4> QED
        BY <3>1, <4>1, <4>2 DEF IsImported
    <3>2. CASE ~IsExternal(p)
      BY <1>3, <3>2, ImportedElmt DEF IsImported
    <3> QED
      BY <3>1, <3>2
  <2>2. i \in DOMAIN imports[m] /\ imports[m][i].elmts[e].name = name
    BY <2>1, ImportOf
  <2>3. ModuleOf(m, i) \in DOMAIN mods /\ ModuleOf(m, i) # 0
    BY <1>1, <2>2, OneModule
  <2>4. PICK d \in Named({ModuleOf(m, i)}, name) : TRUE
    BY <1>1, <2>1
  <2>5. Found(ModuleOf(m, i), name) = d /\ d # Unresolved /\ Denoted(p) = {d}
    BY <2>1, <2>3, <2>4, OneDefinition
  <2>6. LinkOf(p) = Found(ModuleOf(m, i), name)
    BY <1>3, <2>1, <2>2, <2>3 DEF LinkOf, TargetOf
  <2> QED
    BY <2>1, <2>5, <2>6
<1> QED
  BY <1>2, <1>3

-----------------------------------------------------------------------------
(* There are finitely many places                                          *)

LEMMA FiniteImage ==
  ASSUME NEW S, IsFiniteSet(S), NEW f
  PROVE  IsFiniteSet({f[x] : x \in S})
<1> DEFINE T == {f[x] : x \in S}
           g == [x \in S |-> f[x]]
<1>1. g \in [S -> T] /\ \A t \in T : \E x \in S : g[x] = t
  OBVIOUS
<1> HIDE DEF T, g
<1>2. g \in Surjection(S, T)
  BY <1>1 DEF Surjection
<1>3. IsFiniteSet(T)
  BY <1>2, FS_Surjection
<1> QED
  BY <1>3 DEF T

LEMMA FiniteDomain ==
  ASSUME NEW s, IsSequence(s)
  PROVE  IsFiniteSet(DOMAIN s)
<1>1. Len(s) \in Nat /\ DOMAIN s = 1 .. Len(s)
  BY SequenceIs
<1> QED
  BY <1>1, FS_Interval

LEMMA FinitePlaces ==
  ASSUME IsProgram(mods)
  PROVE  IsFiniteSet(DefPlaces) /\ Cardinality(DefPlaces) \in Nat /\ IsFiniteSet(ItemPlaces)
<1>1. ASSUME NEW m \in DOMAIN mods PROVE IsFiniteSet({<<m, d>> : d \in DOMAIN mods[m].defs})
  <2> DEFINE D == DOMAIN mods[m].defs
             f == [d \in D |-> <<m, d>>]
  <2>1. IsFiniteSet(D)
    BY FiniteDomain DEF IsProgram
  <2>2. {f[d] : d \in D} = {<<m, d>> : d \in D}
    OBVIOUS
  <2> HIDE DEF f
  <2>3. IsFiniteSet({f[d] : d \in D})
    BY <2>1, FiniteImage
  <2> QED
    BY <2>2, <2>3
<1>2. IsFiniteSet(DefPlaces)
  <2> DEFINE f == [m \in DOMAIN mods |-> {<<m, d>> : d \in DOMAIN mods[m].defs}]
             U == {f[m] : m \in DOMAIN mods}
  <2>1. IsFiniteSet(DOMAIN mods)
    BY FiniteDomain DEF IsProgram
  <2>2. DefPlaces = UNION U
    BY DEF DefPlaces
  <2>3. \A T \in U : IsFiniteSet(T)
    BY <1>1
  <2>4. IsFiniteSet(U)
    <3> HIDE DEF f
    <3> QED
      BY <2>1, FiniteImage
  <2> HIDE DEF U
  <2> QED
    BY <2>2, <2>3, <2>4, FS_UNION
<1>3. ASSUME NEW p \in DefPlaces PROVE IsFiniteSet({<<p[1], p[2], k>> : k \in DOMAIN DefAt(p).items})
  <2> DEFINE D == DOMAIN DefAt(p).items
             f == [k \in D |-> <<p[1], p[2], k>>]
  <2>1. IsSequence(DefAt(p).items)
    BY PlacesAre DEF IsProgram, IsDefinition, DefAt
  <2>2. IsFiniteSet(D)
    BY <2>1, FiniteDomain
  <2>3. {f[k] : k \in D} = {<<p[1], p[2], k>> : k \in D}
    OBVIOUS
  <2> HIDE DEF f
  <2>4. IsFiniteSet({f[k] : k \in D})
    BY <2>2, FiniteImage
  <2> QED
    BY <2>3, <2>4
<1>4. IsFiniteSet(ItemPlaces)
  <2> DEFINE f == [p \in DefPlaces |-> {<<p[1], p[2], k>> : k \in DOMAIN DefAt(p).items}]
             U == {f[p] : p \in DefPlaces}
  <2>1. ItemPlaces = UNION U
    BY DEF ItemPlaces
  <2>2. \A T \in U : IsFiniteSet(T)
    BY <1>3
  <2>3. IsFiniteSet(U)
    <3> HIDE DEF f
    <3> QED
      BY <1>2, FiniteImage
  <2> HIDE DEF U
  <2> QED
    BY <2>1, <2>2, <2>3, FS_UNION
<1> QED
  BY <1>2, <1>4, FS_CardinalityType

-----------------------------------------------------------------------------
(* Selections follow references, as many as there are definitions          *)

LastHop == Cardinality(DefPlaces)

LinksTyped == \A q \in ItemPlaces : links[q] = Unresolved \/ links[q] \in DefPlaces

LEMMA FollowingIs ==
  ASSUME IsProgram(mods), LinksTyped, NEW c \in DefPlaces
  PROVE  /\ LastHop \in Nat /\ Hops = 0 .. LastHop
         /\ Following(c) = [n \in 0 .. LastHop |-> Following(c)[n]]
         /\ Following(c)[0] = c /\ \A n \in 0 .. LastHop : Following(c)[n] \in DefPlaces
         /\ \A n \in 0 .. LastHop - 1 : Following(c)[n + 1] = Follow(Following(c)[n])
<1> DEFINE n == LastHop
           F == [d \in DefPlaces |-> Follow(d)]
           after[k \in Hops] == IF k = 0 THEN c ELSE Follow(after[k - 1])
           Row(g) == [k \in Hops |-> IF k = 0 THEN c ELSE Follow(g[k - 1])]
<1>1. n \in Nat /\ Hops = 0 .. n
  BY FinitePlaces DEF Hops, LastHop
<1> HIDE DEF n
<1>2. ASSUME NEW d \in DefPlaces PROVE F[d] = Follow(d) /\ F[d] \in DefPlaces
  <2>1. DefAt(d).kind = "ref" => RefOf(d) \in ItemPlaces
    BY ReferencesInPlace DEF References
  <2>2. Follow(d) \in DefPlaces
    BY <2>1 DEF Follow, RefOf, LinksTyped
  <2> QED
    BY <2>2
<1> HIDE DEF F
<1>3. Following(c) = after
  BY DEF Following
<1>4. after = Row(after)
  <2> HIDE DEF after
  <2>1. PICK f : IsRounds(f, F, c, n)
    BY <1>1, RoundsExist
  <2>2. f = [k \in 0 .. n |-> IF k = 0 THEN c ELSE F[f[k - 1]]]
    BY <2>1 DEF IsRounds
  <2>3. \A k \in 0 .. n : f[k] \in DefPlaces
    <3> DEFINE S == {k \in 0 .. n : f[k] \in DefPlaces}
    <3>1. 0 \in S
      BY <1>1, <2>2
    <3>2. ASSUME NEW k \in 0 .. n - 1, k \in S PROVE k + 1 \in S
      <4>1. f[k + 1] = F[f[k]] /\ k + 1 \in 0 .. n
        BY <1>1, <2>1, RoundsStep
      <4> QED
        BY <1>2, <3>2, <4>1
    <3> HIDE DEF S
    <3>3. \A k \in 0 .. n : k \in S
      BY <1>1, <3>1, <3>2, UpTo
    <3> QED
      BY <3>3 DEF S
  <2>4. \A k \in 0 .. n : k # 0 => F[f[k - 1]] = Follow(f[k - 1])
    BY <1>1, <1>2, <2>3
  <2>5. f = Row(f)
    BY <1>1, <2>2, <2>4
  <2> QED
    BY <2>5 DEF after
<1> HIDE DEF after
<1>5. after = [k \in 0 .. n |-> after[k]] /\ after[0] = c
  BY <1>1, <1>4
<1>6. \A k \in 0 .. n - 1 : after[k + 1] = Follow(after[k])
  <2> TAKE k \in 0 .. n - 1
  <2>1. k + 1 \in 0 .. n /\ k + 1 # 0 /\ (k + 1) - 1 = k
    BY <1>1
  <2>2. after[k + 1] = Row(after)[k + 1]
    BY <1>4
  <2> QED
    BY <1>1, <2>1, <2>2
<1>7. \A k \in 0 .. n : after[k] \in DefPlaces
  <2> DEFINE S == {k \in 0 .. n : after[k] \in DefPlaces}
  <2>1. 0 \in S
    BY <1>1, <1>5
  <2>2. ASSUME NEW k \in 0 .. n - 1, k \in S PROVE k + 1 \in S
    BY <1>1, <1>2, <1>6, <2>2
  <2> HIDE DEF S
  <2>3. \A k \in 0 .. n : k \in S
    BY <1>1, <2>1, <2>2, UpTo
  <2> QED
    BY <2>3 DEF S
<1> QED
  BY <1>1, <1>3, <1>5, <1>6, <1>7 DEF n

LEMMA DenotedAreDefinitions ==
  ASSUME NEW p \in References
  PROVE  Denoted(p) \subseteq DefPlaces
<1>1. \A ms, name : Named(ms, name) \subseteq DefPlaces
  BY DEF Named
<1>2. \A m, name : ImportedInto(m, name) \subseteq DefPlaces
  BY <1>1 DEF ImportedInto
<1>3. CASE IsExternal(p)
  <2> DEFINE r == ItemAt(p)
             IsFrom(list) == list.from = r.module
             ms == UNION {ModulesMeant(list.from, list.oid) : list \in Written(p[1], IsFrom)}
             X == IF Written(p[1], IsFrom) = {} THEN ModulesMeant(r.module, None) ELSE ms
  <2>1. Denoted(p) = Named(X, r.name)
    BY <1>3 DEF Denoted
  <2> HIDE DEF X
  <2> QED
    BY <1>1, <2>1
<1>4. CASE ~IsExternal(p)
  <2>1. Denoted(p) = Named({p[1]}, ItemAt(p).name) \/ Denoted(p) = ImportedInto(p[1], ItemAt(p).name)
    BY <1>4 DEF Denoted
  <2> QED
    BY <1>1, <1>2, <2>1
<1> QED
  BY <1>3, <1>4

LEMMA BehindAreDefinitions ==
  ASSUME IsProgram(mods), NEW S \in SUBSET DefPlaces
  PROVE  Behind(S) \in SUBSET DefPlaces
<1>1. \A d \in S : DefAt(d).kind = "ref" => Denoted(RefOf(d)) \subseteq DefPlaces
  BY ReferencesInPlace, DenotedAreDefinitions
<1> QED
  BY <1>1 DEF Behind, RefOf

\* The sets of which SelectedFrom is the last.
Selecting(p) ==
  LET defs[n \in Hops] == IF n = 0 THEN Denoted(ChoiceOf(p)) ELSE Behind(defs[n - 1]) IN defs

LEMMA SelectingIs ==
  ASSUME IsProgram(mods), NEW p \in ItemPlaces \ References
  PROVE  /\ LastHop \in Nat /\ SelectedFrom(p) = Selecting(p)[LastHop]
         /\ Selecting(p)[0] = Denoted(ChoiceOf(p))
         /\ \A n \in 0 .. LastHop : Selecting(p)[n] \in SUBSET DefPlaces
         /\ \A n \in 0 .. LastHop - 1 : Selecting(p)[n + 1] = Behind(Selecting(p)[n])
<1> DEFINE n == LastHop
           c == Denoted(ChoiceOf(p))
           F == [S \in SUBSET DefPlaces |-> Behind(S)]
           after[k \in Hops] == IF k = 0 THEN c ELSE Behind(after[k - 1])
           Row(g) == [k \in Hops |-> IF k = 0 THEN c ELSE Behind(g[k - 1])]
<1>1. n \in Nat /\ Hops = 0 .. n
  BY FinitePlaces DEF Hops, LastHop
<1>2. SelectedFrom(p) = Selecting(p)[n]
  BY DEF SelectedFrom, Selecting, LastHop, ChoiceOf
<1> HIDE DEF n
<1>3. ASSUME NEW S \in SUBSET DefPlaces PROVE F[S] = Behind(S) /\ F[S] \in SUBSET DefPlaces
  BY BehindAreDefinitions
<1>4. c \in SUBSET DefPlaces
  BY ReferencesInPlace, DenotedAreDefinitions
<1> HIDE DEF F, c
<1>5. Selecting(p) = after
  BY DEF Selecting, c
<1>6. after = Row(after)
  <2> HIDE DEF after
  <2>1. PICK f : IsRounds(f, F, c, n)
    BY <1>1, RoundsExist
  <2>2. f = [k \in 0 .. n |-> IF k = 0 THEN c ELSE F[f[k - 1]]]
    BY <2>1 DEF IsRounds
  <2>3. \A k \in 0 .. n : f[k] \in SUBSET DefPlaces
    <3> DEFINE S == {k \in 0 .. n : f[k] \in SUBSET DefPlaces}
    <3>1. 0 \in S
      BY <1>1, <1>4, <2>2
    <3>2. ASSUME NEW k \in 0 .. n - 1, k \in S PROVE k + 1 \in S
      <4>1. f[k + 1] = F[f[k]] /\ k + 1 \in 0 .. n
        BY <1>1, <2>1, RoundsStep
      <4> QED
        BY <1>3, <3>2, <4>1
    <3> HIDE DEF S
    <3>3. \A k \in 0 .. n : k \in S
      BY <1>1, <3>1, <3>2, UpTo
    <3> QED
      BY <3>3 DEF S
  <2>4. \A k \in 0 .. n : k # 0 => F[f[k - 1]] = Behind(f[k - 1])
    BY <1>1, <1>3, <2>3
  <2>5. f = Row(f)
    BY <1>1, <2>2, <2>4
  <2> QED
    BY <2>5 DEF after
<1> HIDE DEF after
<1>7. after[0] = c
  BY <1>1, <1>6
<1>8. \A k \in 0 .. n - 1 : after[k + 1] = Behind(after[k])
  <2> TAKE k \in 0 .. n - 1
  <2>1. k + 1 \in 0 .. n /\ k + 1 # 0 /\ (k + 1) - 1 = k
    BY <1>1
  <2>2. after[k + 1] = Row(after)[k + 1]
    BY <1>6
  <2> QED
    BY <1>1, <2>1, <2>2
<1>9. \A k \in 0 .. n : after[k] \in SUBSET DefPlaces
  <2> DEFINE S == {k \in 0 .. n : after[k] \in SUBSET DefPlaces}
  <2>1. 0 \in S
    BY <1>1, <1>4, <1>7
  <2>2. ASSUME NEW k \in 0 .. n - 1, k \in S PROVE k + 1 \in S
    BY <1>1, <1>3, <1>8, <2>2
  <2> HIDE DEF S
  <2>3. \A k \in 0 .. n : k \in S
    BY <1>1, <2>1, <2>2, UpTo
  <2> QED
    BY <2>3 DEF S
<1> QED
  BY <1>1, <1>2, <1>5, <1>7, <1>8, <1>9 DEF n, c

-----------------------------------------------------------------------------
\* The way of selection p through references that are all linked.
LinkedPath(p, f, n) ==
  /\ f \in [0 .. n -> DefPlaces] /\ f[0] = links[ChoiceOf(p)]
  /\ \A j \in 0 .. n - 1 : f[j + 1] = IF DefAt(f[j]).kind = "ref" THEN links[RefOf(f[j])] ELSE f[j]

HasField(d, p) == DefAt(d).kind = "choice" /\ ItemAt(p).field \in DefAt(d).fields

Waits(p) ==
  \E n \in 0 .. LastHop : \E f \in [0 .. n -> DefPlaces] :
    /\ LinkedPath(p, f, n) /\ DefAt(f[n]).kind = "ref" /\ Earlier(p, RefOf(f[n]))

LEMMA UnresolvedIsNoPlace ==
  ASSUME IsProgram(mods)
  PROVE  Unresolved \notin DefPlaces
<1>1. \A d \in DefPlaces : d = <<d[1], d[2]>>
  BY PlacesAre
<1>2. \A a, b : <<a, b>> # Unresolved
  BY DEF Unresolved
<1> QED
  BY <1>1, <1>2

\* A selection that is accepted has gone all the way.
LEMMA SelectionTaken ==
  ASSUME IsProgram(mods), LinksTyped, NEW p \in ItemPlaces \ References,
         links[ChoiceOf(p)] # Unresolved, LookupFieldInType(links[ChoiceOf(p)], ItemAt(p).field)
  PROVE  \E f \in [0 .. LastHop -> DefPlaces] : LinkedPath(p, f, LastHop) /\ HasField(f[LastHop], p)
<1> DEFINE c == links[ChoiceOf(p)]
           f == Following(c)
           N == LastHop
<1>1. c \in DefPlaces
  BY ReferencesInPlace DEF LinksTyped, References
<1>2. /\ N \in Nat /\ f = [n \in 0 .. N |-> f[n]] /\ f[0] = c /\ \A n \in 0 .. N : f[n] \in DefPlaces
      /\ \A n \in 0 .. N - 1 : f[n + 1] = Follow(f[n])
  BY <1>1, FollowingIs
<1>3. HasField(f[N], p)
  BY DEF LookupFieldInType, ParanoidGetType, HasField, LastHop
<1> HIDE DEF f, N
<1>4. f \in [0 .. N -> DefPlaces]
  BY <1>2
<1>5. ASSUME NEW j \in 0 .. N - 1, DefAt(f[j]).kind = "ref" PROVE links[RefOf(f[j])] # Unresolved
  <2> SUFFICES ASSUME links[RefOf(f[j])] = Unresolved PROVE FALSE
    OBVIOUS
  <2>1. Follow(f[j]) = f[j]
    BY DEF Follow, RefOf
  <2> DEFINE S == {k \in 0 .. N : k >= j => f[k] = f[j]}
  <2>2. 0 \in S
    BY <1>2
  <2>3. ASSUME NEW k \in 0 .. N - 1, k \in S PROVE k + 1 \in S
    <3>1. k \in Nat /\ N \in Nat
      BY <1>2
    <3>5. f[k + 1] = Follow(f[k])
      BY <1>2
    <3>4. k + 1 \in 0 .. N
      BY <1>2
    <3>2. CASE k >= j
      BY <2>1, <2>3, <3>1, <3>2, <3>4, <3>5
    <3>3. CASE k < j
      <4>1. k + 1 >= j => k + 1 = j
        BY <3>1, <3>3
      <4> QED
        BY <3>4, <4>1
    <3> QED
      BY <3>1, <3>2, <3>3
  <2> HIDE DEF S
  <2>4. \A k \in 0 .. N : k \in S
    BY <1>2, <2>2, <2>3, UpTo
  <2>5. N \in S /\ N >= j
    BY <1>2, <2>4
  <2>6. f[N] = f[j]
    BY <2>5 DEF S
  <2> QED
    BY <1>3, <1>5, <2>6 DEF HasField
<1>6. LinkedPath(p, f, N)
  <2>1. ASSUME NEW j \in 0 .. N - 1
        PROVE  f[j + 1] = IF DefAt(f[j]).kind = "ref" THEN links[RefOf(f[j])] ELSE f[j]
    BY <1>2, <1>5 DEF Follow, RefOf
  <2> QED
    BY <1>2, <1>4, <2>1 DEF LinkedPath
<1> QED
  BY <1>3, <1>4, <1>6 DEF N

\* One that is not was refused for one of these reasons.
LEMMA SelectionFailed ==
  ASSUME IsProgram(mods), LinksTyped, NEW p \in ItemPlaces \ References, p \in todo,
         \A q \in todo \ {p} : Earlier(p, q),
         \A q \in References \ todo : links[q] = LinkOf(q),
         ~(links[ChoiceOf(p)] # Unresolved /\ LookupFieldInType(links[ChoiceOf(p)], ItemAt(p).field))
  PROVE  \/ \E q \in References : LinkOf(q) = Unresolved
         \/ Waits(p)
         \/ \E f \in [0 .. LastHop -> DefPlaces] : LinkedPath(p, f, LastHop) /\ ~HasField(f[LastHop], p)
<1> DEFINE c == links[ChoiceOf(p)]
           N == LastHop
<1> SUFFICES ASSUME \A q \in References : LinkOf(q) # Unresolved
             PROVE  Waits(p) \/ \E f \in [0 .. N -> DefPlaces] : LinkedPath(p, f, N) /\ ~HasField(f[N], p)
  OBVIOUS
<1>1. ChoiceOf(p) \in References /\ ChoiceOf(p) # p
  BY ReferencesInPlace
<1>2. ChoiceOf(p) \notin todo
  <2> SUFFICES ASSUME Earlier(p, ChoiceOf(p)) PROVE FALSE
    BY <1>1
  <2>1. p = <<p[1], p[2], p[3]>> /\ p[3] \in Nat
    BY PlacesAre
  <2>2. DOMAIN p = 1 .. 3
    BY <2>1
  <2>3. ChoiceOf(p)[1] = p[1] /\ ChoiceOf(p)[2] = p[2] /\ ChoiceOf(p)[3] = p[3] - 1
    BY DEF ChoiceOf
  <2>4. p[1] \in Nat /\ p[2] \in Nat
    BY PlacesAre
  <2>5. PICK i \in 1 .. 3 : p[i] < ChoiceOf(p)[i]
    BY <2>2 DEF Earlier
  <2>6. i = 1 \/ i = 2 \/ i = 3
    OBVIOUS
  <2> QED
    BY <2>1, <2>3, <2>4, <2>5, <2>6
<1>3. c # Unresolved /\ c \in DefPlaces
  BY <1>1, <1>2 DEF LinksTyped, References
<1> DEFINE f == Following(c)
<1>4. /\ N \in Nat /\ f = [n \in 0 .. N |-> f[n]] /\ f[0] = c /\ \A n \in 0 .. N : f[n] \in DefPlaces
      /\ \A n \in 0 .. N - 1 : f[n + 1] = Follow(f[n])
  BY <1>3, FollowingIs
<1>5. ~HasField(f[N], p)
  BY <1>3 DEF LookupFieldInType, ParanoidGetType, HasField, LastHop
<1> HIDE DEF f, N
<1> DEFINE Stuck == {k \in 0 .. N : DefAt(f[k]).kind = "ref" /\ links[RefOf(f[k])] = Unresolved}
<1>6. CASE Stuck = {}
  <2>1. f \in [0 .. N -> DefPlaces]
    BY <1>4
  <2>2. ASSUME NEW j \in 0 .. N - 1
        PROVE  f[j + 1] = IF DefAt(f[j]).kind = "ref" THEN links[RefOf(f[j])] ELSE f[j]
    <3>1. j \in 0 .. N
      BY <1>4
    <3>2. DefAt(f[j]).kind = "ref" => links[RefOf(f[j])] # Unresolved
      BY <1>6, <3>1
    <3>3. f[j + 1] = Follow(f[j])
      BY <1>4
    <3> QED
      BY <3>2, <3>3 DEF Follow, RefOf
  <2>3. LinkedPath(p, f, N)
    BY <1>4, <2>1, <2>2 DEF LinkedPath
  <2> QED
    BY <1>5, <2>1, <2>3
<1>7. CASE Stuck # {}
  <2>1. Stuck \subseteq Nat
    BY <1>4
  <2>2. PICK k \in Stuck : \A j \in Stuck : k <= j
    BY <1>7, <2>1, SmallestOf
  <2>3. k \in 0 .. N /\ k \in Nat /\ DefAt(f[k]).kind = "ref" /\ links[RefOf(f[k])] = Unresolved
    BY <1>4
  <2> DEFINE g == [j \in 0 .. k |-> f[j]]
  <2>4. g \in [0 .. k -> DefPlaces] /\ g[0] = c /\ g[k] = f[k]
    BY <1>4, <2>3
  <2>5. ASSUME NEW j \in 0 .. k - 1
        PROVE  g[j + 1] = IF DefAt(g[j]).kind = "ref" THEN links[RefOf(g[j])] ELSE g[j]
    <3>1. j \in 0 .. N - 1 /\ j + 1 \in 0 .. k /\ j \in 0 .. k /\ j < k /\ j \in 0 .. N
      BY <1>4, <2>3
    <3>2. j \notin Stuck
      BY <2>1, <2>2, <3>1
    <3>3. f[j + 1] = IF DefAt(f[j]).kind = "ref" THEN links[RefOf(f[j])] ELSE f[j]
      BY <1>4, <3>1, <3>2 DEF Follow, RefOf
    <3> QED
      BY <3>1, <3>3
  <2> HIDE DEF g
  <2>6. LinkedPath(p, g, k)
    BY <2>4, <2>5 DEF LinkedPath
  <2>7. RefOf(f[k]) \in References
    BY <1>4, <2>3, ReferencesInPlace
  <2>8. RefOf(f[k]) \in todo
    BY <2>3, <2>7
  <2>9. Earlier(p, RefOf(f[k]))
    BY <2>7, <2>8
  <2>10. Waits(p)
    BY <2>3, <2>4, <2>6, <2>9 DEF Waits, N
  <2> QED
    BY <2>10
<1> QED
  BY <1>6, <1>7

LEMMA AcceptedSelection ==
  ASSUME IsProgram(mods), NEW p \in ItemPlaces \ References, \A q \in References : links[q] \in Denoted(q),
         NEW f \in [0 .. LastHop -> DefPlaces], LinkedPath(p, f, LastHop), HasField(f[LastHop], p)
  PROVE  \E d \in SelectedFrom(p) : HasField(d, p)
<1> DEFINE g == Selecting(p)
           N == LastHop
<1>1. /\ N \in Nat /\ SelectedFrom(p) = g[N] /\ g[0] = Denoted(ChoiceOf(p))
      /\ \A n \in 0 .. N - 1 : g[n + 1] = Behind(g[n])
  BY SelectingIs
<1> HIDE DEF g
<1> DEFINE S == {n \in 0 .. N : f[n] \in g[n]}
<1>2. 0 \in S
  <2>1. f[0] = links[ChoiceOf(p)]
    BY DEF LinkedPath
  <2> QED
    BY <1>1, <2>1, ReferencesInPlace
<1>3. ASSUME NEW n \in 0 .. N - 1, n \in S PROVE n + 1 \in S
  <2>1. n + 1 \in 0 .. N /\ n \in 0 .. N
    BY <1>1
  <2>2. f[n + 1] = IF DefAt(f[n]).kind = "ref" THEN links[RefOf(f[n])] ELSE f[n]
    BY DEF LinkedPath
  <2>3. f[n] \in DefPlaces /\ f[n] \in g[n]
    BY <1>3, <2>1
  <2>4. f[n + 1] \in Behind(g[n])
    <3>1. CASE DefAt(f[n]).kind = "ref"
      <4>1. links[RefOf(f[n])] \in Denoted(RefOf(f[n]))
        BY <2>3, <3>1, ReferencesInPlace
      <4> QED
        BY <2>2, <2>3, <3>1, <4>1 DEF Behind, RefOf
    <3>2. CASE DefAt(f[n]).kind # "ref"
      BY <2>2, <2>3, <3>2 DEF Behind
    <3> QED
      BY <3>1, <3>2
  <2>5. g[n + 1] = Behind(g[n])
    BY <1>1
  <2> QED
    BY <2>1, <2>4, <2>5
<1> HIDE DEF S
<1>4. \A n \in 0 .. N : n \in S
  BY <1>1, <1>2, <1>3, UpTo
<1>5. f[N] \in g[N]
  BY <1>1, <1>4 DEF S
<1> QED
  BY <1>1, <1>5

LEMMA RightPath ==
  ASSUME Parsed, AllRight, NEW p \in ItemPlaces \ References,
         \A q \in References : links[q] # Unresolved => links[q] = LinkOf(q),
         NEW f \in [0 .. LastHop -> DefPlaces], LinkedPath(p, f, LastHop)
  PROVE  HasField(f[LastHop], p)
<1> DEFINE g == Selecting(p)
           N == LastHop
<1>1. /\ N \in Nat /\ SelectedFrom(p) = g[N] /\ g[0] = Denoted(ChoiceOf(p))
      /\ \A n \in 0 .. N - 1 : g[n + 1] = Behind(g[n])
  BY SelectingIs DEF Parsed
<1> HIDE DEF g
<1>2. ASSUME NEW q \in References, links[q] \in DefPlaces PROVE Denoted(q) = {links[q]}
  <2>1. links[q] = LinkOf(q)
    BY <1>2, UnresolvedIsNoPlace DEF Parsed
  <2> QED
    BY <2>1, RightLink
<1> DEFINE S == {n \in 0 .. N : g[n] = {f[n]}}
<1>3. 0 \in S
  <2>1. f[0] = links[ChoiceOf(p)] /\ f[0] \in DefPlaces
    BY <1>1 DEF LinkedPath
  <2>2. ChoiceOf(p) \in References
    BY ReferencesInPlace DEF Parsed
  <2> QED
    BY <1>1, <1>2, <2>1, <2>2
<1>4. ASSUME NEW n \in 0 .. N - 1, n \in S PROVE n + 1 \in S
  <2>1. n + 1 \in 0 .. N /\ n \in 0 .. N
    BY <1>1
  <2>2. f[n + 1] = IF DefAt(f[n]).kind = "ref" THEN links[RefOf(f[n])] ELSE f[n]
    BY DEF LinkedPath
  <2>3. f[n] \in DefPlaces /\ f[n + 1] \in DefPlaces /\ g[n] = {f[n]}
    BY <1>4, <2>1
  <2>4. Behind({f[n]}) = {f[n + 1]}
    <3>1. CASE DefAt(f[n]).kind = "ref"
      <4>1. RefOf(f[n]) \in References
        BY <2>3, <3>1, ReferencesInPlace DEF Parsed
      <4>2. Denoted(RefOf(f[n])) = {f[n + 1]}
        BY <1>2, <2>2, <2>3, <3>1, <4>1
      <4> QED
        BY <3>1, <4>2 DEF Behind, RefOf
    <3>2. CASE DefAt(f[n]).kind # "ref"
      BY <2>2, <3>2 DEF Behind
    <3> QED
      BY <3>1, <3>2
  <2>5. g[n + 1] = Behind(g[n])
    BY <1>1
  <2> QED
    BY <2>1, <2>3, <2>4, <2>5
<1> HIDE DEF S
<1>5. \A n \in 0 .. N : n \in S
  BY <1>1, <1>3, <1>4, UpTo
<1>6. g[N] = {f[N]}
  BY <1>1, <1>5 DEF S
<1>7. \E d \in SelectedFrom(p) : DefAt(d).kind = "choice" /\ ItemAt(p).field \in DefAt(d).fields
  BY DEF AllRight, ProgramRight, SelectionsRight
<1> QED
  BY <1>1, <1>6, <1>7 DEF HasField

LEMMA WaitsForLater ==
  ASSUME IsProgram(mods), LinksTyped, NEW p \in ItemPlaces \ References, Waits(p)
  PROVE  LinkedLater(p)
<1> DEFINE c == links[ChoiceOf(p)]
           h == Following(c)
           N == LastHop
<1>1. PICK n \in 0 .. N : \E f \in [0 .. n -> DefPlaces] :
        LinkedPath(p, f, n) /\ DefAt(f[n]).kind = "ref" /\ Earlier(p, RefOf(f[n]))
  BY DEF Waits
<1>2. PICK f \in [0 .. n -> DefPlaces] :
        LinkedPath(p, f, n) /\ DefAt(f[n]).kind = "ref" /\ Earlier(p, RefOf(f[n]))
  BY <1>1
<1>3. n \in Nat /\ N \in Nat /\ n <= N /\ Hops = 0 .. N
  BY FinitePlaces DEF LastHop, Hops
<1>4. c \in DefPlaces /\ f[0] = c
  BY <1>2, <1>3 DEF LinkedPath
<1>5. h[0] = c /\ \A k \in 0 .. N - 1 : h[k + 1] = Follow(h[k])
  BY <1>4, FollowingIs
<1> HIDE DEF h, N
<1> DEFINE S == {k \in 0 .. n : h[k] = f[k]}
<1>6. 0 \in S
  BY <1>3, <1>4, <1>5
<1>7. ASSUME NEW k \in 0 .. n - 1, k \in S PROVE k + 1 \in S
  <2>1. k \in 0 .. N - 1 /\ k + 1 \in 0 .. n /\ k \in 0 .. n
    BY <1>3
  <2>2. f[k + 1] = IF DefAt(f[k]).kind = "ref" THEN links[RefOf(f[k])] ELSE f[k]
    BY <1>2 DEF LinkedPath
  <2>3. f[k + 1] \in DefPlaces /\ f[k + 1] # Unresolved
    BY <2>1, UnresolvedIsNoPlace
  <2>4. f[k + 1] = Follow(f[k])
    BY <2>2, <2>3 DEF Follow, RefOf
  <2>5. h[k + 1] = Follow(h[k])
    BY <1>5, <2>1
  <2> QED
    BY <1>7, <2>1, <2>4, <2>5
<1> HIDE DEF S
<1>8. \A k \in 0 .. n : k \in S
  BY <1>3, <1>6, <1>7, UpTo
<1>9. h[n] = f[n]
  BY <1>3, <1>8 DEF S
<1>10. n \in Hops
  BY <1>3
<1>11. DefAt(h[n]).kind = "ref" /\ Earlier(p, RefOf(h[n]))
  BY <1>2, <1>9
<1>12. c # Unresolved /\ ~IsRefTo(p)
  BY <1>4, UnresolvedIsNoPlace DEF References
<1> QED
  BY <1>10, <1>11, <1>12 DEF LinkedLater, h, RefOf, ChoiceOf

-----------------------------------------------------------------------------
(* The invariant                                                           *)

\* Why a module is in error when its types have been linked.
Cause ==
  \/ \E m \in DOMAIN mods : \E i \in DOMAIN imports[m] : ListFails(m, i)
  \/ \E q \in References : LinkOf(q) = Unresolved
  \/ \E p \in ItemPlaces \ References :
       Waits(p) \/ \E f \in [0 .. LastHop -> DefPlaces] : LinkedPath(p, f, LastHop) /\ ~HasField(f[LastHop], p)

\* The way of selection p is linked as far as a CHOICE with its field.
Selected(p) == \E f \in [0 .. LastHop -> DefPlaces] : LinkedPath(p, f, LastHop) /\ HasField(f[LastHop], p)

NoListFails == \A m \in DOMAIN mods : \A i \in DOMAIN imports[m] : ~ListFails(m, i)

\* What the compiler goes on with behind STEP 2.
AllLinked ==
  /\ NoListFails
  /\ \A p \in References : links[p] = LinkOf(p) /\ (IsLocal(p) \/ IsImported(p))
  /\ \A p \in ItemPlaces \ References : Selected(p)

\* A reference that is linked is linked to what LinkOf says.
LinksInv ==
  /\ links = [p \in ItemPlaces |-> links[p]]
  /\ \A p \in ItemPlaces : links[p] # Unresolved =>
       p \in References /\ links[p] = LinkOf(p) /\ links[p] \in DefPlaces

Counted(d) == {p \in References : links[p] = d /\ ~IsExternal(p) /\ p[1] = d[1]}
CountInv   == localRefCount = [d \in DefPlaces |-> Cardinality(Counted(d))]

AllOk == \A m \in DOMAIN mods : status[m] # "error"

\* A list that LinkImportList has come to, and one that it has not.
Resolved(m, i) ==
  \A e \in DOMAIN imports[m][i].elmts : imports[m][i].elmts[e].resolved = TargetOf(m, i, e)

Unlinked(lists, m, i) == \A e \in DOMAIN lists[m][i].elmts : lists[m][i].elmts[e].resolved = Unresolved

\* What each pass has left, and what it has done so far.
ParseInv ==
  /\ AllOk /\ todo \subseteq {p \in ItemPlaces : IsExternal(p)}
  /\ \A q \in ItemPlaces : IsExternal(q) => q \in todo \/ HasElmt(imports, q)
  /\ \A m \in DOMAIN mods : \A i \in DOMAIN imports[m] : Unlinked(imports, m, i)
  /\ \A p \in ItemPlaces : links[p] = Unresolved

ListsInv ==
  /\ Parsed /\ NamesUnique /\ todo \subseteq ListPlaces
  /\ \A p \in ItemPlaces : links[p] = Unresolved
  /\ \A m \in DOMAIN mods : \A i \in DOMAIN imports[m] :
       IF <<m, i>> \in todo THEN Unlinked(imports, m, i) ELSE Resolved(m, i) /\ (AllOk => ~ListFails(m, i))
  /\ ~AllOk => \E m \in DOMAIN mods : \E i \in DOMAIN imports[m] : ListFails(m, i)

\* While references are linked, an error has a cause, and without one all that has
\* been passed is in order.
TypesInv ==
  /\ Parsed /\ NamesUnique /\ todo \subseteq ItemPlaces
  /\ \A m \in DOMAIN mods : \A i \in DOMAIN imports[m] : Resolved(m, i)
  /\ \A p \in todo : links[p] = Unresolved
  /\ \A p \in References \ todo : links[p] = LinkOf(p)
  /\ ~AllOk => Cause
  /\ AllOk => /\ NoListFails
              /\ \A p \in References \ todo : IsLocal(p) \/ IsImported(p)
              /\ \A p \in (ItemPlaces \ References) \ todo : Selected(p)

CheckInv ==
  /\ Parsed /\ NamesUnique /\ AllLinked
  /\ \A m \in DOMAIN mods : <<m>> \in todo \/ (status[m] = "error" <=> MultiplyDefined(m))
  /\ \A m \in DOMAIN mods : status[m] = "error" => MultiplyDefined(m)

DoneInv    == Parsed /\ NamesUnique /\ AllLinked /\ \A m \in DOMAIN mods : ~MultiplyDefined(m)
RefusedInv == Parsed /\ (~NamesUnique \/ Cause \/ \E m \in DOMAIN mods : MultiplyDefined(m))

\* The invariant: links are what LinkOf says or not there yet, and the local
\* ones are counted; the rest by passes.
LinkInv ==
  /\ IsProgram(mods) /\ ImportsInv(imports) /\ LinksInv /\ CountInv
  /\ status \in [DOMAIN mods -> {"ok", "error"}]
  /\ step = "parse" => ParseInv
  /\ step = "imports" => ListsInv
  /\ step = "types" => TypesInv
  /\ step = "check" => CheckInv
  /\ step = "done" => DoneInv
  /\ step = "refused" => RefusedInv

LEMMA WrittenAreNames ==
  ASSUME Parsed, NEW m \in DOMAIN mods, NEW x \in WrittenNames(m)
  PROVE  x \in NamesIn(m) /\ NameOf(m, x) = WrittenName(m, x)
<1>1. CASE \E d \in DOMAIN mods[m].defs : x = <<0, d>>
  BY <1>1 DEF NamesIn, NameOf, WrittenName
<1>2. CASE \E i \in DOMAIN mods[m].imports : \E e \in DOMAIN mods[m].imports[i].elmts : x = <<i, e>>
  <2>1. PICK i \in DOMAIN mods[m].imports : \E e \in DOMAIN mods[m].imports[i].elmts : x = <<i, e>>
    BY <1>2
  <2>2. PICK e \in DOMAIN mods[m].imports[i].elmts : x = <<i, e>>
    BY <2>1
  <2>3. /\ i \in DOMAIN imports[m] /\ e \in DOMAIN imports[m][i].elmts
        /\ imports[m][i].elmts[e].name = mods[m].imports[i].elmts[e]
        /\ imports[m][i].elmts[e].privateScope = FALSE
    BY DEF Parsed, ImportsInv, WrittenKept
  <2>4. i \in Nat \ {0}
    BY PlacesAre DEF Parsed
  <2>5. x[1] = i /\ x[2] = e
    BY <2>2
  <2>6. x \in NamesIn(m)
    BY <2>2, <2>3 DEF NamesIn
  <2> QED
    BY <2>3, <2>4, <2>5, <2>6 DEF NameOf, WrittenName
<1>3. (\E d \in DOMAIN mods[m].defs : x = <<0, d>>)
      \/ \E i \in DOMAIN mods[m].imports : \E e \in DOMAIN mods[m].imports[i].elmts : x = <<i, e>>
  BY DEF WrittenNames
<1> QED
  BY <1>1, <1>2, <1>3

LEMMA AcceptedImports ==
  ASSUME Parsed, NoListFails, NEW m \in DOMAIN mods
  PROVE  ImportsRight(m) \/ NameFirst(m)
<1> SUFFICES ASSUME ~NameFirst(m), NEW i \in DOMAIN mods[m].imports, NEW e \in DOMAIN mods[m].imports[i].elmts
             PROVE  LET list == mods[m].imports[i]
                    IN \E p \in Named(ModulesMeant(list.from, list.oid), list.elmts[e]) : Exported(p)
  BY DEF ImportsRight
<1> DEFINE list == mods[m].imports[i]
           n == ModuleOf(m, i)
<1>1. /\ i \in DOMAIN imports[m] /\ imports[m][i].from = list.from /\ imports[m][i].oid = list.oid
      /\ e \in DOMAIN imports[m][i].elmts /\ imports[m][i].elmts[e].name = list.elmts[e]
  BY DEF Parsed, ImportsInv, WrittenKept
<1>2. n # 0 /\ TargetOf(m, i, e) # Unresolved /\ Exported(TargetOf(m, i, e))
  BY <1>1 DEF NoListFails, ListFails
<1>3. n \in MeantBy(m, i)
  BY <1>1, <1>2 DEF NameFirst, ModuleOf, MeantBy
<1>4. n \in DOMAIN mods
  BY <1>2, LookupModuleFindsMeant DEF Parsed, ModuleOf
<1>5. TargetOf(m, i, e) = Found(n, list.elmts[e])
  BY <1>1, <1>2 DEF TargetOf
<1>6. Found(n, list.elmts[e]) \in Named({n}, list.elmts[e])
  BY <1>2, <1>4, <1>5, FoundIs DEF Parsed
<1>7. Found(n, list.elmts[e]) \in Named(MeantBy(m, i), list.elmts[e])
  BY <1>3, <1>6, NamedIn
<1> QED
  BY <1>1, <1>2, <1>5, <1>7 DEF MeantBy

\* What the invariant says at the end.
LEMMA LinkInvMeans == LinkInv => NamesAreLinked
<1> SUFFICES ASSUME LinkInv PROVE NamesAreLinked
  OBVIOUS
<1>1. IsProgram(mods) /\ LinksTyped /\ DOMAIN mods \subseteq Nat
  BY PlacesAre DEF LinkInv, LinksInv, LinksTyped
<1>2. ASSUME step = "done" PROVE AcceptedIsRight
  <2>1. Parsed /\ NamesUnique /\ AllLinked /\ (\A m \in DOMAIN mods : ~MultiplyDefined(m)) /\ CountInv
    BY <1>2 DEF LinkInv, DoneInv
  <2>2. ASSUME NEW p \in References
        PROVE  links[p] \in Denoted(p) \/ Leaked(p[1], ItemAt(p).name) \/ NameFirst(p[1])
    BY <2>1, AcceptedLink DEF AllLinked, NoListFails
  <2>3. \A m \in DOMAIN mods : ImportsRight(m) \/ NameFirst(m)
    BY <2>1, AcceptedImports DEF AllLinked
  <2>4. ModulesDiffer
    <3> SUFFICES ASSUME NEW m \in DOMAIN mods, NEW n \in DOMAIN mods, m # n, SameId(m, n)
                 PROVE  mods[m].oid = None /\ ~SameName(m, n)
      BY DEF ModulesDiffer
    <3>1. m < n \/ n < m
      BY <1>1
    <3> QED
      BY <2>1, <3>1 DEF NamesUnique, Conflicts, SameId, SameName
  <2>5. NamesRight
    <3> SUFFICES ASSUME NEW m \in DOMAIN mods, NEW x \in WrittenNames(m), NEW y \in WrittenNames(m),
                        WrittenName(m, x) = WrittenName(m, y), x # y
                 PROVE  FALSE
      BY DEF NamesRight
    <3>1. /\ x \in NamesIn(m) /\ NameOf(m, x) = WrittenName(m, x)
          /\ y \in NamesIn(m) /\ NameOf(m, y) = WrittenName(m, y)
      BY <2>1, WrittenAreNames
    <3> QED
      BY <2>1, <3>1 DEF MultiplyDefined
  <2>6. SelectionsRight \/ \E p \in References : Leaked(p[1], ItemAt(p).name) \/ NameFirst(p[1])
    <3> SUFFICES ASSUME \A p \in References : ~Leaked(p[1], ItemAt(p).name) /\ ~NameFirst(p[1]) PROVE SelectionsRight
      OBVIOUS
    <3>1. \A q \in References : links[q] \in Denoted(q)
      BY <2>2
    <3>2. ASSUME NEW p \in ItemPlaces \ References PROVE \E d \in SelectedFrom(p) : HasField(d, p)
      <4>1. PICK f \in [0 .. LastHop -> DefPlaces] : LinkedPath(p, f, LastHop) /\ HasField(f[LastHop], p)
        BY <2>1 DEF AllLinked, Selected
      <4> QED
        BY <1>1, <3>1, <4>1, AcceptedSelection
    <3> QED
      BY <3>2 DEF SelectionsRight, HasField
  <2>7. ReferencesCounted
    BY <2>1 DEF ReferencesCounted, CountInv, Counted
  <2> QED
    BY <2>2, <2>3, <2>4, <2>5, <2>6, <2>7 DEF AcceptedIsRight, LinkedAsDenoted
<1>3. ASSUME step = "refused" PROVE RefusedIsWrong
  <2> SUFFICES ASSUME ~RefusedIsWrong PROVE FALSE
    OBVIOUS
  <2>1. AllRight /\ \A p \in ItemPlaces : ~LinkedLater(p)
    BY DEF RefusedIsWrong, AllRight
  <2>2. Parsed /\ (~NamesUnique \/ Cause \/ \E m \in DOMAIN mods : MultiplyDefined(m))
    BY <1>3 DEF LinkInv, RefusedInv
  <2>3. ASSUME ~NamesUnique PROVE FALSE
    <3>1. PICK m \in DOMAIN mods : \E n \in DOMAIN mods : n < m /\ Conflicts(m, n)
      BY <2>3 DEF NamesUnique
    <3>2. PICK n \in DOMAIN mods : n < m /\ Conflicts(m, n)
      BY <3>1
    <3>3. m # n
      BY <1>1, <3>2
    <3> QED
      BY <2>1, <3>2, <3>3 DEF AllRight, ProgramRight, ModulesRight, Conflicts, SameName, SameId
  <2>4. ASSUME Cause PROVE FALSE
    <3>1. \A q \in References : links[q] # Unresolved => links[q] = LinkOf(q)
      BY DEF LinkInv, LinksInv, References
    <3>2. ASSUME NEW p \in ItemPlaces \ References PROVE ~Waits(p)
      BY <1>1, <2>1, WaitsForLater
    <3>3. ASSUME NEW p \in ItemPlaces \ References,
                 NEW f \in [0 .. LastHop -> DefPlaces], LinkedPath(p, f, LastHop), ~HasField(f[LastHop], p)
          PROVE  FALSE
      BY <2>1, <2>2, <3>1, <3>3, RightPath
    <3>4. \A q \in References : LinkOf(q) # Unresolved
      BY <2>1, <2>2, RightLink
    <3>5. \A m \in DOMAIN mods : \A i \in DOMAIN imports[m] : ~ListFails(m, i)
      BY <2>1, <2>2, ListRight
    <3> QED
      BY <2>4, <3>2, <3>3, <3>4, <3>5 DEF Cause
  <2>5. ASSUME NEW m \in DOMAIN mods, MultiplyDefined(m) PROVE FALSE
    <3>1. PICK x \in NamesIn(m), y \in NamesIn(m) : x # y /\ NameOf(m, x) = NameOf(m, y)
      BY <2>5 DEF MultiplyDefined
    <3>2. CASE x \in WrittenNames(m) /\ y \in WrittenNames(m)
      <4>1. WrittenName(m, x) = WrittenName(m, y)
        BY <2>2, <3>1, <3>2, WrittenAreNames
      <4> QED
        BY <2>1, <3>1, <3>2, <4>1 DEF AllRight, ProgramRight, NamesRight
    <3>3. CASE ~(x \in WrittenNames(m) /\ y \in WrittenNames(m))
      <4>1. LeakClashes(m)
        BY <3>1, <3>3 DEF LeakClashes
      <4> QED
        BY <2>1, <4>1 DEF AllRight
    <3> QED
      BY <3>2, <3>3
  <2> QED
    BY <2>2, <2>3, <2>4, <2>5
<1> QED
  BY <1>2, <1>3 DEF NamesAreLinked

-----------------------------------------------------------------------------
(* What stays when the modules, and then the import lists, do              *)

LEMMA ModsStay ==
  ASSUME mods' = mods
  PROVE  /\ IsProgram(mods)' = IsProgram(mods) /\ NamesUnique' = NamesUnique
         /\ DefPlaces' = DefPlaces /\ ItemPlaces' = ItemPlaces /\ References' = References /\ LastHop' = LastHop
         /\ \A p : DefAt(p)' = DefAt(p) /\ ItemAt(p)' = ItemAt(p)
         /\ \A p : IsExternal(p)' = IsExternal(p) /\ Exported(p)' = Exported(p)
         /\ \A m, name : LookupType(m, name)' = LookupType(m, name) /\ Found(m, name)' = Found(m, name)
         /\ \A name, oid : LookupModule(name, oid)' = LookupModule(name, oid)
<1>1. \A p : DefAt(p)' = DefAt(p)
  BY DEF DefAt
<1>2. \A p : ItemAt(p)' = ItemAt(p)
  BY <1>1 DEF ItemAt
<1>3. DefPlaces' = DefPlaces
  BY DEF DefPlaces
<1>4. ItemPlaces' = ItemPlaces
  BY <1>1, <1>3 DEF ItemPlaces
<1>5. References' = References
  BY <1>2, <1>4 DEF References, IsRefTo
<1>6. \A p : IsExternal(p)' = IsExternal(p)
  BY <1>2 DEF IsExternal, IsRefTo
<1>7. \A p : Exported(p)' = Exported(p)
  BY <1>1 DEF Exported
<1>8. LastHop' = LastHop
  BY <1>3 DEF LastHop
<1>9. \A m, name : LookupType(m, name)' = LookupType(m, name)
  BY DEF LookupType
<1>10. \A m, name : Found(m, name)' = Found(m, name)
  BY <1>9 DEF Found
<1>11. \A name, oid : LookupModule(name, oid)' = LookupModule(name, oid)
  BY DEF LookupModule
<1>12. IsProgram(mods)' = IsProgram(mods) /\ NamesUnique' = NamesUnique
  BY DEF NamesUnique, Conflicts
<1> QED
  BY <1>1, <1>2, <1>3, <1>4, <1>5, <1>6, <1>7, <1>8, <1>9, <1>10, <1>11, <1>12

LEMMA ListsStay ==
  ASSUME mods' = mods, imports' = imports
  PROVE  /\ ImportsInv(imports)' = ImportsInv(imports) /\ Parsed' = Parsed /\ ListPlaces' = ListPlaces
         /\ \A q : HasElmt(imports, q)' = HasElmt(imports, q)
         /\ \A m, i : ListFails(m, i)' = ListFails(m, i) /\ Resolved(m, i)' = Resolved(m, i)
         /\ \A p : /\ IsLocal(p)' = IsLocal(p) /\ IsImported(p)' = IsImported(p)
                   /\ LinkOf(p)' = LinkOf(p)
         /\ \A m : MultiplyDefined(m)' = MultiplyDefined(m)
<1> USE ModsStay
<1>1. \A m, name, i : IsListFor(imports, m, name, i)' = IsListFor(imports, m, name, i)
  BY DEF IsListFor
<1>2. \A q : HasElmt(imports, q)' = HasElmt(imports, q)
  BY <1>1 DEF HasElmt
<1>3. ListsOK(imports)' = ListsOK(imports) /\ WrittenKept(imports)' = WrittenKept(imports)
  BY DEF ListsOK, WrittenKept
<1>4. AddedForReference(imports)' = AddedForReference(imports)
  BY <1>1 DEF AddedForReference, IsWritten
<1>5. ImportsInv(imports)' = ImportsInv(imports)
  BY <1>3, <1>4 DEF ImportsInv
<1>6. Parsed' = Parsed
  BY <1>2, <1>5 DEF Parsed
<1>7. \A m, i : ModuleOf(m, i)' = ModuleOf(m, i)
  BY DEF ModuleOf
<1>8. \A m, i, e : TargetOf(m, i, e)' = TargetOf(m, i, e)
  BY <1>7 DEF TargetOf
<1>9. \A m, i : ListFails(m, i)' = ListFails(m, i)
  BY <1>7, <1>8 DEF ListFails
<1>10. \A m, i : Resolved(m, i)' = Resolved(m, i)
  BY <1>8 DEF Resolved
<1>11. \A p : IsLocal(p)' = IsLocal(p)
  BY DEF IsLocal, IsRefTo
<1>12. \A m, name : LookupImportModule(m, name)' = LookupImportModule(m, name)
  BY DEF LookupImportModule
<1>13. \A m, name : LookupImportElmtInModule(m, name)' = LookupImportElmtInModule(m, name)
  BY DEF LookupImportElmtInModule, LookupElmt
<1>14. \A p : ImportList(p)' = ImportList(p)
  BY <1>12, <1>13 DEF ImportList
<1>15. \A p : ElmtOf(p)' = ElmtOf(p)
  BY <1>14 DEF ElmtOf, LookupElmt
<1>16. \A p : ImportElmt(p)' = ImportElmt(p)
  <2>1. \A p : ImportElmt(p) = imports[p[1]][ImportList(p)].elmts[ElmtOf(p)]
    BY DEF ImportElmt, ElmtOf
  <2>2. \A p : ImportElmt(p)' = imports'[p[1]][ImportList(p)'].elmts[ElmtOf(p)']
    BY DEF ImportElmt, ElmtOf
  <2> QED
    BY <1>14, <1>15, <2>1, <2>2
<1>17. \A p : IsImported(p)' = IsImported(p)
  BY <1>14, <1>16 DEF IsImported
<1>18. \A p : LinkOf(p)' = LinkOf(p)
  BY <1>8, <1>11, <1>14, <1>15, <1>17 DEF LinkOf
<1>19. \A m : NamesIn(m)' = NamesIn(m)
  BY DEF NamesIn
<1>20. \A m, x : NameOf(m, x)' = NameOf(m, x)
  BY DEF NameOf
<1>21. \A m : MultiplyDefined(m)' = MultiplyDefined(m)
  BY <1>19, <1>20 DEF MultiplyDefined
<1>22. ListPlaces' = ListPlaces
  BY DEF ListPlaces
<1> QED
  BY <1>2, <1>5, <1>6, <1>9, <1>10, <1>11, <1>17, <1>18, <1>21, <1>22

LEMMA SameDomainIs ==
  ASSUME NEW s, IsSequence(s), NEW t, t = [i \in DOMAIN s |-> t[i]]
  PROVE  IsSequence(t)
<1>1. DOMAIN s = 1 .. Len(s) /\ Len(s) \in Nat
  BY SequenceIs
<1> QED
  BY <1>1, SequenceFromDomain

LEMMA NoneCounted ==
  ASSUME IsProgram(mods), NEW d \in DefPlaces, \A p \in ItemPlaces : links[p] = Unresolved
  PROVE  Cardinality(Counted(d)) = 0
<1>1. \A p \in References : links[p] # d
  BY UnresolvedIsNoPlace DEF References
<1>2. Counted(d) = {}
  BY <1>1 DEF Counted
<1> QED
  BY <1>2, FS_EmptySet

LEMMA InitKeeps == LinkInit => LinkInv
<1> SUFFICES ASSUME LinkInit PROVE LinkInv
  OBVIOUS
<1>1. IsProgram(mods)
  BY ProgramsAssumption DEF LinkInit
<1>2. imports = [m \in DOMAIN mods |-> [i \in DOMAIN mods[m].imports |-> AsWritten(mods[m].imports[i])]]
  BY DEF LinkInit
<1>3. ASSUME NEW m \in DOMAIN mods
      PROVE  /\ IsSequence(imports[m]) /\ DOMAIN imports[m] = DOMAIN mods[m].imports
             /\ \A i \in DOMAIN imports[m] : imports[m][i] = AsWritten(mods[m].imports[i])
  <2>1. imports[m] = [i \in DOMAIN mods[m].imports |-> AsWritten(mods[m].imports[i])]
    BY <1>2
  <2>2. IsSequence(mods[m].imports)
    BY <1>1 DEF IsProgram
  <2>3. imports[m] = [i \in DOMAIN mods[m].imports |-> imports[m][i]]
    BY <2>1
  <2>5. IsSequence(imports[m])
    BY <2>2, <2>3, SameDomainIs
  <2> QED
    BY <2>1, <2>5
<1>4. ASSUME NEW m \in DOMAIN mods, NEW i \in DOMAIN mods[m].imports
      PROVE  /\ ListOK(imports[m][i])
             /\ imports[m][i].from = mods[m].imports[i].from /\ imports[m][i].oid = mods[m].imports[i].oid
             /\ DOMAIN imports[m][i].elmts = DOMAIN mods[m].imports[i].elmts
             /\ \A e \in DOMAIN imports[m][i].elmts :
                  /\ imports[m][i].elmts[e].name = mods[m].imports[i].elmts[e]
                  /\ imports[m][i].elmts[e].privateScope = FALSE /\ imports[m][i].elmts[e].resolved = Unresolved
    <2> DEFINE w == mods[m].imports[i]
               l == imports[m][i]
    <2>1. l = [from |-> w.from, oid |-> w.oid, elmts |-> [e \in DOMAIN w.elmts |-> NewElmt(w.elmts[e], FALSE)]]
      BY <1>3 DEF AsWritten
    <2>2. IsSequence(w.elmts)
      BY <1>1 DEF IsProgram
    <2>3. l.elmts = [e \in DOMAIN w.elmts |-> NewElmt(w.elmts[e], FALSE)]
      BY <2>1
    <2>4. l.elmts = [e \in DOMAIN w.elmts |-> l.elmts[e]]
      BY <2>3
    <2>5. IsSequence(l.elmts)
      BY <2>2, <2>4, SameDomainIs
    <2>6. l = [from |-> l.from, oid |-> l.oid, elmts |-> l.elmts]
      BY <2>1
    <2>7. l.from = w.from /\ l.oid = w.oid /\ l.elmts = [e \in DOMAIN w.elmts |-> NewElmt(w.elmts[e], FALSE)]
      BY <2>1
    <2>8. ASSUME NEW e \in DOMAIN l.elmts
          PROVE  /\ ElmtOK(l.elmts[e]) /\ l.elmts[e].name = w.elmts[e]
                 /\ l.elmts[e].privateScope = FALSE /\ l.elmts[e].resolved = Unresolved
      <3>1. l.elmts[e] = [name |-> w.elmts[e], privateScope |-> FALSE, resolved |-> Unresolved]
        BY <2>7 DEF NewElmt
      <3> QED
        BY <3>1 DEF ElmtOK
    <2> QED
      BY <2>5, <2>6, <2>7, <2>8 DEF ListOK
<1>5. ListsOK(imports)
  BY <1>2, <1>3, <1>4 DEF ListsOK
<1>6. WrittenKept(imports)
  BY <1>3, <1>4 DEF WrittenKept
<1>7. AddedForReference(imports)
  BY <1>3, <1>4 DEF AddedForReference, IsWritten
<1>8. \A p \in ItemPlaces : links[p] = Unresolved
  BY DEF LinkInit
<1>9. LinksInv
  BY <1>8 DEF LinksInv, LinkInit
<1>10. CountInv
  BY <1>1, <1>8, NoneCounted DEF CountInv, LinkInit
<1>11. status \in [DOMAIN mods -> {"ok", "error"}] /\ AllOk
  BY DEF LinkInit, AllOk
<1>12. ParseInv
  <2>1. ASSUME NEW m \in DOMAIN mods, NEW i \in DOMAIN imports[m] PROVE Unlinked(imports, m, i)
    <3>1. i \in DOMAIN mods[m].imports
      BY <1>3
    <3>2. \A e \in DOMAIN imports[m][i].elmts : imports[m][i].elmts[e].resolved = Unresolved
      BY <1>4, <3>1
    <3> QED
      BY <3>2 DEF Unlinked
  <2> QED
    BY <1>8, <1>11, <2>1 DEF ParseInv, LinkInit
<1>13. step = "parse"
  BY DEF LinkInit
<1> QED
  BY <1>1, <1>5, <1>6, <1>7, <1>9, <1>10, <1>11, <1>12, <1>13 DEF LinkInv, ImportsInv

-----------------------------------------------------------------------------
(* What the parser adds                                                    *)

\* Of lists, nothing is lost; what is new is an element for reference p.
Grown(lists, p) ==
  /\ \A n \in DOMAIN mods : \A j \in DOMAIN imports[n] :
       /\ j \in DOMAIN lists[n] /\ lists[n][j].from = imports[n][j].from /\ lists[n][j].oid = imports[n][j].oid
       /\ \A e \in DOMAIN imports[n][j].elmts :
            e \in DOMAIN lists[n][j].elmts /\ lists[n][j].elmts[e] = imports[n][j].elmts[e]
       /\ \A e \in DOMAIN lists[n][j].elmts \ DOMAIN imports[n][j].elmts :
            /\ n = p[1] /\ IsListFor(imports, n, ItemAt(p).module, j)
            /\ lists[n][j].elmts[e] = NewElmt(ItemAt(p).name, FALSE)
  /\ \A n \in DOMAIN mods : \A j \in DOMAIN lists[n] \ DOMAIN imports[n] :
       /\ n = p[1] /\ \A k \in DOMAIN imports[n] : k < j /\ imports[n][k].from # ItemAt(p).module
       /\ lists[n] = [k \in DOMAIN imports[n] \cup {j} |-> lists[n][k]]
       /\ lists[n][j] = [from |-> ItemAt(p).module, oid |-> None, elmts |-> <<NewElmt(ItemAt(p).name, TRUE)>>]

LEMMA OneElementIs ==
  ASSUME NEW x
  PROVE  IsSequence(<<x>>) /\ DOMAIN <<x>> = {1} /\ <<x>>[1] = x
<1>1. <<x>> = [i \in 1 .. 1 |-> <<x>>[i]]
  OBVIOUS
<1>2. IsSequence(<<x>>)
  BY <1>1, SequenceFromDomain
<1> QED
  BY <1>2

LEMMA ListWithIs ==
  ASSUME NEW l, l = [from |-> l.from, oid |-> l.oid, elmts |-> l.elmts], NEW elmts
  PROVE  [l EXCEPT !.elmts = elmts] = [from |-> l.from, oid |-> l.oid, elmts |-> elmts]
OBVIOUS

LEMMA ListInPlaceIs ==
  ASSUME NEW s, NEW i \in DOMAIN s, NEW elmts
  PROVE  [s EXCEPT ![i].elmts = elmts] = [s EXCEPT ![i] = [s[i] EXCEPT !.elmts = elmts]]
OBVIOUS

\* The two ways in which AddPrivateImportElmt adds.
LEMMA NewListGrows ==
  ASSUME ListsOK(imports), IsProgram(mods), NEW p \in ItemPlaces, IsExternal(p), NEW lists,
         LookupImportModule(p[1], ItemAt(p).module) = 0,
         lists = [imports EXCEPT ![p[1]] =
           Append(@, [from |-> ItemAt(p).module, oid |-> None, elmts |-> <<NewElmt(ItemAt(p).name, TRUE)>>])]
  PROVE  ListsOK(lists) /\ Grown(lists, p) /\ HasElmt(lists, p)
<1> DEFINE m == p[1]
           r == ItemAt(p)
           x == NewElmt(r.name, TRUE)
           new == [from |-> r.module, oid |-> None, elmts |-> <<x>>]
           last == Len(imports[m]) + 1
<1>1. m \in DOMAIN mods /\ DOMAIN imports = DOMAIN mods
  BY PlacesAre, ListsAre
<1>2. IsSequence(imports[m])
  BY <1>1 DEF ListsOK
<1>3. /\ DOMAIN lists = DOMAIN mods /\ lists = [n \in DOMAIN mods |-> lists[n]]
      /\ lists[m] = Append(imports[m], new) /\ \A n \in DOMAIN mods \ {m} : lists[n] = imports[n]
  BY <1>1
<1> HIDE DEF new
<1>4. /\ IsSequence(lists[m])
      /\ DOMAIN lists[m] = DOMAIN imports[m] \cup {last} /\ last \notin DOMAIN imports[m]
      /\ \A i \in DOMAIN imports[m] : lists[m][i] = imports[m][i] /\ i < last
      /\ lists[m][last] = new
  <2> DEFINE t == imports[m]
             u == Append(t, new)
  <2>1. IsSequence(t) /\ u = lists[m]
    BY <1>2, <1>3
  <2>2. /\ IsSequence(u) /\ DOMAIN u = DOMAIN t \cup {Len(t) + 1} /\ Len(t) + 1 \notin DOMAIN t
        /\ \A i \in DOMAIN t : u[i] = t[i] /\ i < Len(t) + 1
        /\ u[Len(t) + 1] = new
    <3> HIDE DEF t
    <3> QED
      BY <2>1, AppendIs
  <2> HIDE DEF u
  <2> QED
    BY <2>1, <2>2
<1> HIDE DEF last
<1>5. /\ new.from = r.module /\ new.oid = None /\ new.elmts = <<x>>
      /\ IsSequence(new.elmts) /\ DOMAIN new.elmts = {1} /\ new.elmts[1] = x
  <2>1. new.from = r.module /\ new.oid = None /\ new.elmts = <<x>>
    BY DEF new
  <2>2. IsSequence(<<x>>) /\ DOMAIN <<x>> = {1} /\ <<x>>[1] = x
    BY OneElementIs
  <2> QED
    BY <2>1, <2>2
<1>6. ListOK(new)
  <2>1. new = [from |-> new.from, oid |-> new.oid, elmts |-> new.elmts]
    BY DEF new
  <2>2. ElmtOK(x)
    BY DEF ElmtOK, NewElmt
  <2> QED
    BY <1>5, <2>1, <2>2 DEF ListOK
<1>7. ListsOK(lists)
  <2>1. ASSUME NEW n \in DOMAIN mods PROVE IsSequence(lists[n]) /\ \A i \in DOMAIN lists[n] : ListOK(lists[n][i])
    BY <1>3, <1>4, <1>6 DEF ListsOK
  <2> QED
    BY <1>3, <2>1 DEF ListsOK
<1>8. \A k \in DOMAIN imports[m] : imports[m][k].from # r.module
  BY <1>1, LookupImportModuleIs
<1>9. Grown(lists, p)
  <2>1. ASSUME NEW n \in DOMAIN mods, NEW j \in DOMAIN imports[n]
        PROVE  j \in DOMAIN lists[n] /\ lists[n][j] = imports[n][j]
    BY <1>3, <1>4
  <2>2. ASSUME NEW n \in DOMAIN mods, NEW j \in DOMAIN lists[n] \ DOMAIN imports[n]
        PROVE  n = m /\ j = last
    BY <1>3, <1>4
  <2>3. lists[m] = [k \in DOMAIN imports[m] \cup {last} |-> lists[m][k]]
    BY <1>4, SequenceIs
  <2>4. ASSUME NEW n \in DOMAIN mods, NEW j \in DOMAIN lists[n] \ DOMAIN imports[n]
        PROVE  /\ n = m /\ \A k \in DOMAIN imports[n] : k < j /\ imports[n][k].from # r.module
               /\ lists[n] = [k \in DOMAIN imports[n] \cup {j} |-> lists[n][k]]
               /\ lists[n][j] = new
    BY <1>4, <1>8, <2>2, <2>3
  <2> QED
    BY <2>1, <2>4 DEF Grown, new
<1>10. HasElmt(lists, p)
  <2>1. IsListFor(lists, m, r.module, last)
    <3>1. \A j \in DOMAIN lists[m] : lists[m][j].from = r.module => j = last
      BY <1>4, <1>8
    <3>2. last \in Nat
      BY <1>4, <1>7, <1>1, SequenceIs DEF ListsOK
    <3> QED
      BY <1>4, <1>5, <3>1, <3>2 DEF IsListFor
  <2>2. 1 \in DOMAIN lists[m][last].elmts /\ lists[m][last].elmts[1].name = r.name
    BY <1>4, <1>5 DEF NewElmt
  <2> QED
    BY <1>4, <2>1, <2>2 DEF HasElmt
<1> QED
  BY <1>7, <1>9, <1>10

LEMMA NewElmtGrows ==
  ASSUME ListsOK(imports), IsProgram(mods), NEW p \in ItemPlaces, IsExternal(p), NEW lists,
         NEW i, i = LookupImportModule(p[1], ItemAt(p).module), i # 0,
         lists = [imports EXCEPT ![p[1]] =
           [imports[p[1]] EXCEPT ![i].elmts = Append(imports[p[1]][i].elmts, NewElmt(ItemAt(p).name, FALSE))]]
  PROVE  ListsOK(lists) /\ Grown(lists, p) /\ HasElmt(lists, p)
<1> DEFINE m == p[1]
           r == ItemAt(p)
           x == NewElmt(r.name, FALSE)
           old == imports[m][i].elmts
           last == Len(old) + 1
<1>1. m \in DOMAIN mods /\ DOMAIN imports = DOMAIN mods
  BY PlacesAre, ListsAre
<1>2. IsListFor(imports, m, r.module, i) /\ i \in DOMAIN imports[m]
  BY <1>1, LookupImportModuleIs DEF IsListFor
<1>3. IsSequence(imports[m]) /\ ListOK(imports[m][i]) /\ IsSequence(old)
  BY <1>1, <1>2 DEF ListsOK, ListOK
<1> DEFINE l == [imports[m][i] EXCEPT !.elmts = Append(old, x)]
<1>4. imports[m][i] = [from |-> imports[m][i].from, oid |-> imports[m][i].oid, elmts |-> old]
  BY <1>3 DEF ListOK
<1>5. /\ l.from = imports[m][i].from /\ l.oid = imports[m][i].oid /\ l.elmts = Append(old, x)
      /\ l = [from |-> l.from, oid |-> l.oid, elmts |-> l.elmts]
  <2>1. l = [from |-> imports[m][i].from, oid |-> imports[m][i].oid, elmts |-> Append(old, x)]
    BY <1>4, ListWithIs
  <2> QED
    BY <2>1
<1>6. /\ DOMAIN lists = DOMAIN mods /\ lists = [n \in DOMAIN mods |-> lists[n]]
      /\ lists[m] = [imports[m] EXCEPT ![i] = l] /\ \A n \in DOMAIN mods \ {m} : lists[n] = imports[n]
  <2>1. lists = [imports EXCEPT ![m] = [imports[m] EXCEPT ![i].elmts = Append(old, x)]]
    OBVIOUS
  <2>2. [imports[m] EXCEPT ![i].elmts = Append(old, x)] = [imports[m] EXCEPT ![i] = l]
    BY <1>2, ListInPlaceIs
  <2>3. lists = [imports EXCEPT ![m] = [imports[m] EXCEPT ![i] = l]]
    BY <2>1, <2>2
  <2> HIDE DEF l
  <2> QED
    BY <1>1, <2>3
<1> HIDE DEF l
<1>7. /\ IsSequence(l.elmts)
      /\ DOMAIN l.elmts = DOMAIN old \cup {last} /\ last \notin DOMAIN old
      /\ \A e \in DOMAIN old : l.elmts[e] = old[e]
      /\ l.elmts[last] = x
  <2> DEFINE t == old
             u == Append(t, x)
  <2>1. IsSequence(t) /\ u = l.elmts
    BY <1>3, <1>5
  <2>2. /\ IsSequence(u) /\ DOMAIN u = DOMAIN t \cup {Len(t) + 1} /\ Len(t) + 1 \notin DOMAIN t
        /\ \A e \in DOMAIN t : u[e] = t[e] /\ e < Len(t) + 1
        /\ u[Len(t) + 1] = x
    <3> HIDE DEF t, x
    <3> QED
      BY <2>1, AppendIs
  <2> HIDE DEF u
  <2> QED
    BY <2>1, <2>2
<1> HIDE DEF last
<1>8. ListOK(l)
  <2>1. ElmtOK(x)
    BY DEF ElmtOK, NewElmt
  <2>2. \A e \in DOMAIN old : ElmtOK(old[e])
    BY <1>3 DEF ListOK
  <2> QED
    BY <1>5, <1>7, <2>1, <2>2 DEF ListOK
<1>9. /\ DOMAIN lists[m] = DOMAIN imports[m] /\ lists[m][i] = l
      /\ \A j \in DOMAIN imports[m] \ {i} : lists[m][j] = imports[m][j]
  <2>1. DOMAIN [imports[m] EXCEPT ![i] = l] = DOMAIN imports[m] /\ [imports[m] EXCEPT ![i] = l][i] = l
    BY <1>2
  <2>2. \A j \in DOMAIN imports[m] \ {i} : [imports[m] EXCEPT ![i] = l][j] = imports[m][j]
    OBVIOUS
  <2> QED
    BY <1>6, <2>1, <2>2
<1>10. ListsOK(lists)
  <2>1. IsSequence(lists[m])
    <3>1. IsSequence([imports[m] EXCEPT ![i] = l])
      BY <1>3, ReplacedIs
    <3> QED
      BY <1>6, <3>1
  <2>2. ASSUME NEW n \in DOMAIN mods PROVE IsSequence(lists[n]) /\ \A j \in DOMAIN lists[n] : ListOK(lists[n][j])
    BY <1>6, <1>8, <1>9, <2>1 DEF ListsOK
  <2> QED
    BY <1>6, <2>2 DEF ListsOK
<1>11. Grown(lists, p)
  <2>1. ASSUME NEW n \in DOMAIN mods, NEW j \in DOMAIN imports[n], ~(n = m /\ j = i)
        PROVE  j \in DOMAIN lists[n] /\ lists[n][j] = imports[n][j]
    BY <1>6, <1>9, <2>1
  <2>2. ASSUME NEW n \in DOMAIN mods, NEW j \in DOMAIN lists[n] \ DOMAIN imports[n] PROVE FALSE
    BY <1>6, <1>9
  <2>3. ASSUME NEW n \in DOMAIN mods, NEW j \in DOMAIN imports[n]
        PROVE  /\ j \in DOMAIN lists[n] /\ lists[n][j].from = imports[n][j].from /\ lists[n][j].oid = imports[n][j].oid
               /\ \A e \in DOMAIN imports[n][j].elmts :
                    e \in DOMAIN lists[n][j].elmts /\ lists[n][j].elmts[e] = imports[n][j].elmts[e]
               /\ \A e \in DOMAIN lists[n][j].elmts \ DOMAIN imports[n][j].elmts :
                    /\ n = m /\ IsListFor(imports, n, r.module, j)
                    /\ lists[n][j].elmts[e] = x
    <3>1. CASE n = m /\ j = i
      BY <1>2, <1>5, <1>7, <1>9, <3>1
    <3>2. CASE ~(n = m /\ j = i)
      BY <2>1, <3>2
    <3> QED
      BY <3>1, <3>2
  <2> QED
    BY <2>2, <2>3 DEF Grown
<1>12. HasElmt(lists, p)
  <2>1. \A j \in DOMAIN imports[m] : lists[m][j].from = imports[m][j].from
    BY <1>5, <1>9
  <2>2. IsListFor(lists, m, r.module, i)
    BY <1>2, <1>9, <2>1 DEF IsListFor
  <2>3. last \in DOMAIN lists[m][i].elmts /\ lists[m][i].elmts[last].name = r.name
    <3>1. lists[m][i].elmts[last] = x /\ x.name = r.name
      BY <1>7, <1>9 DEF NewElmt
    <3> QED
      BY <1>7, <1>9, <3>1
  <2> QED
    BY <1>2, <1>9, <2>2, <2>3 DEF HasElmt
<1> QED
  BY <1>10, <1>11, <1>12

LEMMA GrownMeans ==
  ASSUME NEW lists, NEW p, Grown(lists, p), NEW n \in DOMAIN mods, NEW j \in DOMAIN imports[n]
  PROVE  /\ j \in DOMAIN lists[n]
         /\ \A e \in DOMAIN imports[n][j].elmts : lists[n][j].elmts[e] = imports[n][j].elmts[e]
         /\ \A e \in DOMAIN lists[n][j].elmts \ DOMAIN imports[n][j].elmts :
              lists[n][j].elmts[e].resolved = Unresolved
<1>1. /\ j \in DOMAIN lists[n] /\ lists[n][j].from = imports[n][j].from /\ lists[n][j].oid = imports[n][j].oid
      /\ \A e \in DOMAIN imports[n][j].elmts :
           e \in DOMAIN lists[n][j].elmts /\ lists[n][j].elmts[e] = imports[n][j].elmts[e]
  BY DEF Grown
<1>2. \A e \in DOMAIN lists[n][j].elmts \ DOMAIN imports[n][j].elmts :
           /\ n = p[1] /\ IsListFor(imports, n, ItemAt(p).module, j)
           /\ lists[n][j].elmts[e] = NewElmt(ItemAt(p).name, FALSE)
  BY DEF Grown
<1> QED
  BY <1>1, <1>2 DEF NewElmt

LEMMA GrownUnlinked ==
  ASSUME \A m \in DOMAIN mods : \A i \in DOMAIN imports[m] : Unlinked(imports, m, i),
         NEW p, NEW lists, Grown(lists, p), NEW m \in DOMAIN mods, NEW i \in DOMAIN lists[m]
  PROVE  Unlinked(lists, m, i)
<1> SUFFICES ASSUME NEW e \in DOMAIN lists[m][i].elmts PROVE lists[m][i].elmts[e].resolved = Unresolved
  BY DEF Unlinked
<1>1. CASE i \in DOMAIN imports[m] /\ e \in DOMAIN imports[m][i].elmts
  <2>1. lists[m][i].elmts[e] = imports[m][i].elmts[e]
    BY <1>1, GrownMeans
  <2> QED
    BY <1>1, <2>1 DEF Unlinked
<1>2. CASE i \in DOMAIN imports[m] /\ e \notin DOMAIN imports[m][i].elmts
  <2>1. e \in DOMAIN lists[m][i].elmts \ DOMAIN imports[m][i].elmts
    BY <1>2
  <2> QED
    BY <1>2, <2>1, GrownMeans
<1>3. CASE i \notin DOMAIN imports[m]
  <2> DEFINE x == NewElmt(ItemAt(p).name, TRUE)
  <2>1. lists[m][i] = [from |-> ItemAt(p).module, oid |-> None, elmts |-> <<x>>]
    <3>1. i \in DOMAIN lists[m] \ DOMAIN imports[m]
      BY <1>3
    <3>2. \A j \in DOMAIN lists[m] \ DOMAIN imports[m] :
            lists[m][j] = [from |-> ItemAt(p).module, oid |-> None, elmts |-> <<x>>]
      BY DEF Grown
    <3> QED
      BY <3>1, <3>2
  <2>2. lists[m][i].elmts = <<x>>
    <3> HIDE DEF x
    <3> QED
      BY <2>1
  <2>3. lists[m][i].elmts[e] = x
    <3> HIDE DEF x
    <3>1. e = 1
      BY <2>2, OneElementIs
    <3> QED
      BY <2>2, <3>1, OneElementIs
  <2> QED
    BY <2>3 DEF NewElmt
<1> QED
  BY <1>1, <1>2, <1>3

\* The lists keep what was written, and what each reference has added.
LEMMA GrownKeeps ==
  ASSUME ImportsInv(imports), IsProgram(mods), NEW p \in ItemPlaces, IsExternal(p),
         NEW lists, ListsOK(lists), Grown(lists, p)
  PROVE  ImportsInv(lists) /\ \A q \in ItemPlaces : HasElmt(imports, q) => HasElmt(lists, q)
<1> DEFINE name == ItemAt(p).name
<1>0. p[1] \in DOMAIN mods
  BY PlacesAre
<1>1. ASSUME NEW n \in DOMAIN mods, NEW j \in DOMAIN imports[n]
      PROVE  /\ j \in DOMAIN lists[n] /\ lists[n][j].from = imports[n][j].from /\ lists[n][j].oid = imports[n][j].oid
             /\ \A e \in DOMAIN imports[n][j].elmts :
                  e \in DOMAIN lists[n][j].elmts /\ lists[n][j].elmts[e] = imports[n][j].elmts[e]
  BY DEF Grown
<1>2. ASSUME NEW n \in DOMAIN mods, NEW j \in DOMAIN imports[n],
             NEW e \in DOMAIN lists[n][j].elmts, e \notin DOMAIN imports[n][j].elmts
      PROVE  /\ n = p[1] /\ IsListFor(imports, n, ItemAt(p).module, j)
             /\ lists[n][j].elmts[e] = NewElmt(name, FALSE)
  <2>1. e \in DOMAIN lists[n][j].elmts \ DOMAIN imports[n][j].elmts
    BY <1>2
  <2>2. \A x \in DOMAIN lists[n][j].elmts \ DOMAIN imports[n][j].elmts :
          /\ n = p[1] /\ IsListFor(imports, n, ItemAt(p).module, j)
          /\ lists[n][j].elmts[x] = NewElmt(name, FALSE)
    BY DEF Grown
  <2> QED
    BY <2>1, <2>2
<1>3. ASSUME NEW n \in DOMAIN mods, NEW j \in DOMAIN lists[n], j \notin DOMAIN imports[n]
      PROVE  /\ n = p[1] /\ \A k \in DOMAIN imports[n] : k < j /\ imports[n][k].from # ItemAt(p).module
             /\ lists[n] = [k \in DOMAIN imports[n] \cup {j} |-> lists[n][k]]
             /\ lists[n][j] = [from |-> ItemAt(p).module, oid |-> None, elmts |-> <<NewElmt(name, TRUE)>>]
  BY <1>3 DEF Grown
<1>4. ASSUME NEW n \in DOMAIN mods, NEW nm, NEW j, IsListFor(imports, n, nm, j)
      PROVE  IsListFor(lists, n, nm, j)
  <2>1. j \in DOMAIN imports[n] /\ imports[n][j].from = nm
        /\ \A k \in DOMAIN imports[n] : imports[n][k].from = nm => j <= k
    BY <1>4 DEF IsListFor
  <2>2. DOMAIN lists[n] \subseteq Nat
    BY SequenceIs DEF ListsOK
  <2>3. j \in DOMAIN lists[n] /\ lists[n][j].from = nm
    BY <1>1, <2>1
  <2>4. ASSUME NEW k \in DOMAIN lists[n], lists[n][k].from = nm PROVE j <= k
    <3>1. CASE k \in DOMAIN imports[n]
      BY <1>1, <2>1, <2>4, <3>1
    <3>2. CASE k \notin DOMAIN imports[n]
      <4>1. j < k
        BY <1>3, <2>1, <3>2
      <4> QED
        BY <2>2, <2>3, <4>1
    <3> QED
      BY <3>1, <3>2
  <2> QED
    BY <2>3, <2>4 DEF IsListFor
<1>5. ASSUME NEW q \in ItemPlaces, HasElmt(imports, q) PROVE HasElmt(lists, q)
  <2>1. q[1] \in DOMAIN mods
    BY PlacesAre
  <2>2. PICK i \in DOMAIN imports[q[1]] : /\ IsListFor(imports, q[1], ItemAt(q).module, i)
                 /\ \E e \in DOMAIN imports[q[1]][i].elmts : imports[q[1]][i].elmts[e].name = ItemAt(q).name
    BY <1>5 DEF HasElmt
  <2>3. PICK e \in DOMAIN imports[q[1]][i].elmts : imports[q[1]][i].elmts[e].name = ItemAt(q).name
    BY <2>2
  <2>4. e \in DOMAIN lists[q[1]][i].elmts /\ lists[q[1]][i].elmts[e].name = ItemAt(q).name
    BY <1>1, <2>1, <2>3
  <2>5. IsListFor(lists, q[1], ItemAt(q).module, i) /\ i \in DOMAIN lists[q[1]]
    BY <1>1, <1>4, <2>1, <2>2
  <2> QED
    BY <2>4, <2>5 DEF HasElmt
<1>6. WrittenKept(lists)
  <2> SUFFICES ASSUME NEW m \in DOMAIN mods, NEW i \in DOMAIN mods[m].imports
      PROVE  /\ i \in DOMAIN lists[m]
             /\ lists[m][i].from = mods[m].imports[i].from /\ lists[m][i].oid = mods[m].imports[i].oid
             /\ \A e \in DOMAIN mods[m].imports[i].elmts :
                  e \in DOMAIN lists[m][i].elmts /\ lists[m][i].elmts[e].name = mods[m].imports[i].elmts[e]
             /\ \A e \in DOMAIN lists[m][i].elmts : lists[m][i].elmts[e].privateScope = FALSE
    BY DEF WrittenKept
  <2>1. /\ i \in DOMAIN imports[m]
        /\ imports[m][i].from = mods[m].imports[i].from /\ imports[m][i].oid = mods[m].imports[i].oid
        /\ \A e \in DOMAIN mods[m].imports[i].elmts :
             e \in DOMAIN imports[m][i].elmts /\ imports[m][i].elmts[e].name = mods[m].imports[i].elmts[e]
        /\ \A e \in DOMAIN imports[m][i].elmts : imports[m][i].elmts[e].privateScope = FALSE
    BY DEF ImportsInv, WrittenKept
  <2>2. ASSUME NEW e \in DOMAIN lists[m][i].elmts PROVE lists[m][i].elmts[e].privateScope = FALSE
    <3>1. CASE e \in DOMAIN imports[m][i].elmts
      BY <1>1, <2>1, <3>1
    <3>2. CASE e \notin DOMAIN imports[m][i].elmts
      <4>1. lists[m][i].elmts[e] = NewElmt(name, FALSE)
        BY <1>2, <2>1, <3>2
      <4> QED
        BY <4>1 DEF NewElmt
    <3> QED
      BY <3>1, <3>2
  <2> QED
    BY <1>1, <2>1, <2>2
<1>7. ASSUME NEW m \in DOMAIN mods, NEW i \in DOMAIN lists[m]
      PROVE  i \in DOMAIN mods[m].imports \/ lists[m][i].oid = None
  <2>1. CASE i \in DOMAIN imports[m]
    BY <1>1, <2>1 DEF ImportsInv, AddedForReference
  <2>2. CASE i \notin DOMAIN imports[m]
    <3>1. lists[m][i] = [from |-> ItemAt(p).module, oid |-> None, elmts |-> <<NewElmt(name, TRUE)>>]
      BY <1>3, <2>2
    <3> QED
      BY <3>1
  <2> QED
    BY <2>1, <2>2
<1>8. ASSUME NEW m \in DOMAIN mods, NEW i \in DOMAIN lists[m], NEW e \in DOMAIN lists[m][i].elmts
      PROVE  \/ IsWritten(m, i, e)
             \/ \E q \in ItemPlaces : /\ IsExternal(q) /\ q[1] = m /\ IsListFor(lists, m, ItemAt(q).module, i)
                                      /\ ItemAt(q).name = lists[m][i].elmts[e].name
  <2>1. CASE i \in DOMAIN imports[m] /\ e \in DOMAIN imports[m][i].elmts
    <3>1. lists[m][i].elmts[e] = imports[m][i].elmts[e]
      BY <1>1, <2>1
    <3>2. \/ IsWritten(m, i, e)
          \/ \E q \in ItemPlaces : /\ IsExternal(q) /\ q[1] = m /\ IsListFor(imports, m, ItemAt(q).module, i)
                                   /\ ItemAt(q).name = imports[m][i].elmts[e].name
      BY <2>1 DEF ImportsInv, AddedForReference
    <3> QED
      BY <1>4, <3>1, <3>2
  <2>2. CASE i \in DOMAIN imports[m] /\ e \notin DOMAIN imports[m][i].elmts
    <3>1. m = p[1] /\ IsListFor(imports, m, ItemAt(p).module, i) /\ lists[m][i].elmts[e] = NewElmt(name, FALSE)
      BY <1>2, <2>2
    <3>2. lists[m][i].elmts[e].name = name
      BY <3>1 DEF NewElmt
    <3> QED
      BY <1>4, <3>1, <3>2
  <2>3. CASE i \notin DOMAIN imports[m]
    <3> DEFINE x == NewElmt(name, TRUE)
    <3>1. /\ m = p[1] /\ \A k \in DOMAIN imports[m] : k < i /\ imports[m][k].from # ItemAt(p).module
          /\ lists[m] = [k \in DOMAIN imports[m] \cup {i} |-> lists[m][k]]
          /\ lists[m][i] = [from |-> ItemAt(p).module, oid |-> None, elmts |-> <<x>>]
      BY <1>3, <2>3
    <3>2. lists[m][i].from = ItemAt(p).module /\ lists[m][i].elmts = <<x>>
      <4> HIDE DEF x
      <4> QED
        BY <3>1
    <3>3. lists[m][i].elmts[e] = x
      <4> HIDE DEF x
      <4>1. e = 1
        BY <3>2, OneElementIs
      <4> QED
        BY <3>2, <4>1, OneElementIs
    <3>4. x.name = name
      BY DEF NewElmt
    <3>5. \A k \in DOMAIN lists[m] : lists[m][k].from = ItemAt(p).module => k = i
      BY <1>1, <3>1
    <3>6. i \in Nat
      BY SequenceIs DEF ListsOK
    <3>7. IsListFor(lists, m, ItemAt(p).module, i)
      BY <3>2, <3>5, <3>6 DEF IsListFor
    <3> QED
      BY <3>1, <3>3, <3>4, <3>7
  <2> QED
    BY <2>1, <2>2, <2>3
<1> QED
  BY <1>5, <1>6, <1>7, <1>8 DEF ImportsInv, AddedForReference

LEMMA PrimedLists ==
  ASSUME mods' = mods
  PROVE  /\ ImportsInv(imports)' <=> ImportsInv(imports')
         /\ \A q : HasElmt(imports, q)' <=> HasElmt(imports', q)
         /\ \A m, i : Unlinked(imports, m, i)' <=> Unlinked(imports', m, i)
<1> USE ModsStay
<1>1. \A m, name, i : IsListFor(imports, m, name, i)' <=> IsListFor(imports', m, name, i)
  BY DEF IsListFor
<1>2. \A q : HasElmt(imports, q)' <=> HasElmt(imports', q)
  BY <1>1 DEF HasElmt
<1>3. ListsOK(imports)' <=> ListsOK(imports')
  BY DEF ListsOK
<1>4. WrittenKept(imports)' <=> WrittenKept(imports')
  BY DEF WrittenKept
<1>5. AddedForReference(imports)' <=> AddedForReference(imports')
  BY <1>1 DEF AddedForReference, IsWritten
<1>6. \A m, i : Unlinked(imports, m, i)' <=> Unlinked(imports', m, i)
  BY DEF Unlinked, Unresolved
<1> QED
  BY <1>2, <1>3, <1>4, <1>5, <1>6 DEF ImportsInv

LEMMA CountStays ==
  ASSUME mods' = mods, links' = links, localRefCount' = localRefCount, CountInv
  PROVE  CountInv'
<1>1. \A d : Counted(d)' = Counted(d)
  BY ModsStay DEF Counted
<1> QED
  BY <1>1, ModsStay DEF CountInv

\* As long as nothing is linked, whatever the import lists.
LEMMA UnlinkedStays ==
  ASSUME mods' = mods, links' = links, LinksInv, \A p \in ItemPlaces : links[p] = Unresolved
  PROVE  LinksInv'
<1>1. links' = [p \in ItemPlaces' |-> links'[p]]
  BY ModsStay DEF LinksInv
<1>2. \A p \in ItemPlaces' : links'[p] = Unresolved
  BY ModsStay
<1> QED
  BY <1>1, <1>2 DEF LinksInv

LEMMA LinksStay ==
  ASSUME mods' = mods, links' = links, imports' = imports, LinksInv
  PROVE  LinksInv'
<1>1. links' = [p \in ItemPlaces' |-> links'[p]]
  BY ModsStay DEF LinksInv
<1>2. \A p \in ItemPlaces' : links'[p] # Unresolved => p \in References' /\ links'[p] = LinkOf(p)' /\ links'[p] \in DefPlaces'
  BY ModsStay, ListsStay DEF LinksInv
<1> QED
  BY <1>1, <1>2 DEF LinksInv

LEMMA AddPrivateImportElmtKeeps ==
  ASSUME LinkInv, NEW p \in todo, AddPrivateImportElmt(p)
  PROVE  LinkInv'
<1> DEFINE r == ItemAt(p)
           i == LookupImportModule(p[1], r.module)
           E == LookupElmt(imports[p[1]][i].elmts, r.name)
<1>1. /\ step = "parse" /\ step' = "parse" /\ todo' = todo \ {p} /\ mods' = mods /\ links' = links
      /\ localRefCount' = localRefCount /\ status' = status
  BY DEF AddPrivateImportElmt, Takes
<1>2. IsProgram(mods) /\ ImportsInv(imports) /\ LinksInv /\ CountInv /\ ParseInv /\ ListsOK(imports)
  BY <1>1 DEF LinkInv, ImportsInv
<1>3. p \in ItemPlaces /\ IsExternal(p) /\ p[1] \in DOMAIN mods
  BY <1>2, PlacesAre DEF ParseInv
<1>4. imports' = [imports EXCEPT ![p[1]] =
       IF i = 0
       THEN Append(imports[p[1]], [from |-> r.module, oid |-> None, elmts |-> <<NewElmt(r.name, TRUE)>>])
       ELSE IF E = 0
            THEN [imports[p[1]] EXCEPT ![i].elmts = Append(imports[p[1]][i].elmts, NewElmt(r.name, FALSE))]
            ELSE imports[p[1]]]
  BY DEF AddPrivateImportElmt
<1>5. /\ ImportsInv(imports') /\ HasElmt(imports', p) /\ \A q \in ItemPlaces : HasElmt(imports, q) => HasElmt(imports', q)
      /\ \A m \in DOMAIN mods : \A j \in DOMAIN imports'[m] : Unlinked(imports', m, j)
  <2>0. \A m \in DOMAIN mods : \A j \in DOMAIN imports[m] : Unlinked(imports, m, j)
    BY <1>2 DEF ParseInv
  <2>1. CASE i = 0
    <3>1. imports' = [imports EXCEPT ![p[1]] =
            Append(@, [from |-> r.module, oid |-> None, elmts |-> <<NewElmt(r.name, TRUE)>>])]
      BY <1>4, <2>1
    <3>2. ListsOK(imports') /\ Grown(imports', p) /\ HasElmt(imports', p)
      BY <1>2, <1>3, <2>1, <3>1, NewListGrows
    <3> QED
      BY <1>2, <1>3, <2>0, <3>2, GrownKeeps, GrownUnlinked
  <2>2. CASE i # 0 /\ E = 0
    <3>1. imports' = [imports EXCEPT ![p[1]] =
            [imports[p[1]] EXCEPT ![i].elmts = Append(imports[p[1]][i].elmts, NewElmt(r.name, FALSE))]]
      BY <1>4, <2>2
    <3>2. ListsOK(imports') /\ Grown(imports', p) /\ HasElmt(imports', p)
      BY <1>2, <1>3, <2>2, <3>1, NewElmtGrows
    <3> QED
      BY <1>2, <1>3, <2>0, <3>2, GrownKeeps, GrownUnlinked
  <2>3. CASE i # 0 /\ E # 0
    <3>1. imports' = [imports EXCEPT ![p[1]] = imports[p[1]]]
      BY <1>4, <2>3
    <3>2. imports' = imports
      <4>1. imports = [m \in DOMAIN mods |-> imports[m]]
        BY <1>2 DEF ListsOK
      <4> QED
        BY <1>3, <3>1, <4>1
    <3>3. IsListFor(imports, p[1], r.module, i)
      BY <1>2, <1>3, <2>3, LookupImportModuleIs
    <3>4. i \in DOMAIN imports[p[1]]
      BY <3>3 DEF IsListFor
    <3>5. E \in DOMAIN imports[p[1]][i].elmts /\ imports[p[1]][i].elmts[E].name = r.name
      <4>1. DOMAIN imports[p[1]][i].elmts \subseteq Nat \ {0}
        BY <1>2, <1>3, <3>4, ListsAre
      <4> QED
        BY <2>3, <4>1, LookupElmtIs
    <3>6. HasElmt(imports, p)
      BY <3>3, <3>4, <3>5 DEF HasElmt
    <3> QED
      BY <1>2, <2>0, <3>2, <3>6
  <2> QED
    BY <2>1, <2>2, <2>3
<1>6. ImportsInv(imports)' /\ HasElmt(imports, p)'
  BY <1>1, <1>5, PrimedLists
<1>7. ASSUME NEW q \in ItemPlaces', IsExternal(q)' PROVE q \in todo' \/ HasElmt(imports, q)'
  <2>1. q \in ItemPlaces /\ IsExternal(q)
    BY <1>1, <1>7, ModsStay
  <2>2. CASE q = p
    BY <1>6, <2>2
  <2>3. CASE q # p
    <3>1. q \in todo' \/ HasElmt(imports, q)
      BY <1>1, <1>2, <2>1, <2>3 DEF ParseInv
    <3> QED
      BY <1>1, <1>5, <2>1, <3>1, PrimedLists
  <2> QED
    BY <2>2, <2>3
<1>8. \A q \in ItemPlaces : links[q] = Unresolved
  BY <1>2 DEF ParseInv
<1>9. ParseInv'
  <2>1. AllOk'
    BY <1>1, <1>2 DEF AllOk, ParseInv
  <2>2. todo' \subseteq {q \in ItemPlaces' : IsExternal(q)'}
    BY <1>1, <1>2, ModsStay DEF ParseInv
  <2>3. \A q \in ItemPlaces' : links'[q] = Unresolved
    BY <1>1, <1>8, ModsStay
  <2>4. (\A m \in DOMAIN mods : \A j \in DOMAIN imports[m] : Unlinked(imports, m, j))'
    BY <1>1, <1>5, PrimedLists
  <2> QED
    BY <1>7, <2>1, <2>2, <2>3, <2>4 DEF ParseInv
<1>10. status' \in [DOMAIN mods' -> {"ok", "error"}]
  BY <1>1 DEF LinkInv
<1>11. LinksInv' /\ CountInv' /\ IsProgram(mods)'
  BY <1>1, <1>2, <1>8, UnlinkedStays, CountStays, ModsStay
<1> QED
  BY <1>1, <1>6, <1>9, <1>10, <1>11 DEF LinkInv

-----------------------------------------------------------------------------
(* From one pass to the next, and the last check                           *)

\* What the passes have found is the same while the links are.
LEMMA LinkingStays ==
  ASSUME mods' = mods, imports' = imports, links' = links
  PROVE  /\ NoListFails' = NoListFails /\ AllLinked' = AllLinked /\ Cause' = Cause
         /\ \A p : Selected(p)' = Selected(p)
<1> USE ModsStay, ListsStay
<1>1. \A p, f, n : LinkedPath(p, f, n)' = LinkedPath(p, f, n)
  BY DEF LinkedPath, ChoiceOf, RefOf
<1>2. \A d, p : HasField(d, p)' = HasField(d, p)
  BY DEF HasField
<1>3. \A p : Selected(p)' = Selected(p)
  BY <1>1, <1>2 DEF Selected
<1>4. \A p : Waits(p)' = Waits(p)
  <2>1. \A p, f, n : (/\ LinkedPath(p, f, n) /\ DefAt(f[n]).kind = "ref" /\ Earlier(p, RefOf(f[n])))'
                     = (/\ LinkedPath(p, f, n) /\ DefAt(f[n]).kind = "ref" /\ Earlier(p, RefOf(f[n])))
    BY <1>1 DEF Earlier, RefOf
  <2> QED
    BY <2>1 DEF Waits
<1>5. NoListFails' = NoListFails
  BY DEF NoListFails
<1>6. AllLinked' = AllLinked
  BY <1>3, <1>5 DEF AllLinked
<1>7. Cause' = Cause
  <2>1. (\E m \in DOMAIN mods : \E i \in DOMAIN imports[m] : ListFails(m, i))'
          = \E m \in DOMAIN mods : \E i \in DOMAIN imports[m] : ListFails(m, i)
    OBVIOUS
  <2>2. (\E q \in References : LinkOf(q) = Unresolved)' = \E q \in References : LinkOf(q) = Unresolved
    BY DEF Unresolved
  <2>3. (\E p \in ItemPlaces \ References :
           Waits(p) \/ \E f \in [0 .. LastHop -> DefPlaces] : LinkedPath(p, f, LastHop) /\ ~HasField(f[LastHop], p))'
          = \E p \in ItemPlaces \ References :
           Waits(p) \/ \E f \in [0 .. LastHop -> DefPlaces] : LinkedPath(p, f, LastHop) /\ ~HasField(f[LastHop], p)
    BY <1>1, <1>2, <1>4
  <2> QED
    BY <2>1, <2>2, <2>3 DEF Cause
<1> QED
  BY <1>3, <1>5, <1>6, <1>7

LEMMA ModNamesUniqueKeeps ==
  ASSUME LinkInv, ModNamesUnique
  PROVE  LinkInv'
<1>1. /\ step = "parse" /\ todo = {} /\ mods' = mods /\ imports' = imports /\ links' = links
      /\ localRefCount' = localRefCount /\ status' = status
      /\ IF NamesUnique THEN step' = "imports" /\ todo' = ListPlaces ELSE step' = "refused" /\ todo' = {}
  BY DEF ModNamesUnique
<1>2. IsProgram(mods) /\ ImportsInv(imports) /\ LinksInv /\ CountInv /\ ParseInv
  BY <1>1 DEF LinkInv
<1>3. Parsed
  BY <1>1, <1>2 DEF Parsed, ParseInv
<1>4. IsProgram(mods)' /\ ImportsInv(imports)' /\ LinksInv' /\ CountInv' /\ Parsed'
  BY <1>1, <1>2, <1>3, ModsStay, ListsStay, LinksStay, CountStays
<1>5. status' \in [DOMAIN mods' -> {"ok", "error"}]
  BY <1>1 DEF LinkInv
<1>6. CASE NamesUnique
  <2>1. step' = "imports" /\ todo' = ListPlaces
    BY <1>1, <1>6
  <2>2. \A m \in DOMAIN mods : \A i \in DOMAIN imports[m] : <<m, i>> \in ListPlaces
    BY DEF ListPlaces
  <2>3. AllOk'
    BY <1>1, <1>2 DEF ParseInv, AllOk
  <2>4. ListsInv'
    <3>1. NamesUnique' /\ todo' \subseteq ListPlaces'
      BY <1>1, <1>6, <2>1, ModsStay, ListsStay
    <3>2. \A p \in ItemPlaces' : links'[p] = Unresolved
      BY <1>1, <1>2, ModsStay DEF ParseInv
    <3>3. \A m \in DOMAIN mods' : \A i \in DOMAIN imports'[m] : <<m, i>> \in todo' /\ Unlinked(imports, m, i)'
      BY <1>1, <1>2, <2>1, <2>2 DEF ParseInv, Unlinked, Unresolved
    <3> QED
      BY <1>4, <2>3, <3>1, <3>2, <3>3 DEF ListsInv
  <2> QED
    BY <1>4, <1>5, <2>1, <2>4 DEF LinkInv
<1>7. CASE ~NamesUnique
  <2>1. step' = "refused" /\ ~NamesUnique'
    BY <1>1, <1>7, ModsStay
  <2>2. RefusedInv'
    BY <1>4, <2>1 DEF RefusedInv
  <2> QED
    BY <1>4, <1>5, <2>1, <2>2 DEF LinkInv
<1> QED
  BY <1>6, <1>7

LEMMA ImportListsLinkedKeeps ==
  ASSUME LinkInv, ImportListsLinked
  PROVE  LinkInv'
<1>1. /\ step = "imports" /\ todo = {} /\ mods' = mods /\ imports' = imports /\ links' = links
      /\ localRefCount' = localRefCount /\ status' = status /\ step' = "types" /\ todo' = ItemPlaces
  BY DEF ImportListsLinked
<1>2. IsProgram(mods) /\ ImportsInv(imports) /\ LinksInv /\ CountInv /\ ListsInv
  BY <1>1 DEF LinkInv
<1>3. IsProgram(mods)' /\ ImportsInv(imports)' /\ LinksInv' /\ CountInv' /\ Parsed' /\ NamesUnique'
  BY <1>1, <1>2, ModsStay, ListsStay, LinksStay, CountStays DEF ListsInv
<1>4. status' \in [DOMAIN mods' -> {"ok", "error"}]
  BY <1>1 DEF LinkInv
<1>5. (\A m \in DOMAIN mods : \A i \in DOMAIN imports[m] : Resolved(m, i))'
  BY <1>1, <1>2, ModsStay, ListsStay DEF ListsInv
<1>6. AllOk => NoListFails
  BY <1>1, <1>2 DEF ListsInv, NoListFails
<1>7. ~AllOk => Cause
  BY <1>2 DEF ListsInv, Cause
<1>8. AllOk' = AllOk
  BY <1>1 DEF AllOk
<1>9. TypesInv'
  <2>1. todo' \subseteq ItemPlaces' /\ References' \subseteq todo' /\ ItemPlaces' \subseteq todo'
    BY <1>1, ModsStay DEF References
  <2>2. \A p \in todo' : links'[p] = Unresolved
    BY <1>1, <1>2 DEF ListsInv
  <2>3. (~AllOk' => Cause') /\ (AllOk' => NoListFails')
    BY <1>1, <1>6, <1>7, <1>8, LinkingStays
  <2> QED
    BY <1>3, <1>5, <2>1, <2>2, <2>3 DEF TypesInv
<1> QED
  BY <1>1, <1>3, <1>4, <1>9 DEF LinkInv

LEMMA TypesLinkedKeeps ==
  ASSUME LinkInv, TypesLinked
  PROVE  LinkInv'
<1>1. /\ step = "types" /\ todo = {} /\ mods' = mods /\ imports' = imports /\ links' = links
      /\ localRefCount' = localRefCount /\ status' = status
      /\ IF Refused THEN step' = "refused" ELSE step' = "check" /\ todo' = {<<m>> : m \in DOMAIN mods}
  BY DEF TypesLinked
<1>2. IsProgram(mods) /\ ImportsInv(imports) /\ LinksInv /\ CountInv /\ TypesInv
  BY <1>1 DEF LinkInv
<1>3. IsProgram(mods)' /\ ImportsInv(imports)' /\ LinksInv' /\ CountInv' /\ Parsed' /\ NamesUnique'
  BY <1>1, <1>2, ModsStay, ListsStay, LinksStay, CountStays DEF TypesInv
<1>4. status' \in [DOMAIN mods' -> {"ok", "error"}]
  BY <1>1 DEF LinkInv
<1>5. CASE AllOk
  <2>1. ~Refused
    BY <1>5 DEF Refused, AllOk
  <2>2. step' = "check" /\ todo' = {<<m>> : m \in DOMAIN mods}
    BY <1>1, <2>1
  <2>3. AllLinked
    BY <1>1, <1>2, <1>5 DEF TypesInv, AllLinked
  <2>4. CheckInv'
    <3>1. AllLinked'
      BY <1>1, <2>3, LinkingStays
    <3>2. \A m \in DOMAIN mods' : <<m>> \in todo' /\ status'[m] # "error"
      BY <1>1, <1>5, <2>2 DEF AllOk
    <3> QED
      BY <1>3, <3>1, <3>2 DEF CheckInv
  <2> QED
    BY <1>3, <1>4, <2>2, <2>4 DEF LinkInv
<1>6. CASE ~AllOk
  <2>1. step' = "refused"
    BY <1>1, <1>6 DEF Refused, AllOk
  <2>2. RefusedInv'
    BY <1>1, <1>2, <1>3, <1>6, LinkingStays DEF TypesInv, RefusedInv
  <2> QED
    BY <1>3, <1>4, <2>1, <2>2 DEF LinkInv
<1> QED
  BY <1>5, <1>6

LEMMA ErrChkModuleKeeps ==
  ASSUME LinkInv, NEW p \in todo, ErrChkModule(p)
  PROVE  LinkInv'
<1> DEFINE m == p[1]
<1>1. /\ step = "check" /\ step' = "check" /\ todo' = todo \ {p} /\ mods' = mods /\ imports' = imports /\ links' = links
      /\ localRefCount' = localRefCount
      /\ IF MultiplyDefined(m) THEN status' = [status EXCEPT ![m] = "error"] ELSE status' = status
  BY DEF ErrChkModule, Takes, Errs
<1>2. IsProgram(mods) /\ ImportsInv(imports) /\ LinksInv /\ CountInv /\ CheckInv
  BY <1>1 DEF LinkInv
<1>3. IsProgram(mods)' /\ ImportsInv(imports)' /\ LinksInv' /\ CountInv' /\ Parsed' /\ NamesUnique' /\ AllLinked'
  BY <1>1, <1>2, ModsStay, ListsStay, LinksStay, CountStays, LinkingStays DEF CheckInv
<1>4. status \in [DOMAIN mods -> {"ok", "error"}]
  BY DEF LinkInv
<1>5. status' \in [DOMAIN mods' -> {"ok", "error"}]
  BY <1>1, <1>4
<1>6. ASSUME NEW n \in DOMAIN mods
      PROVE  /\ <<n>> \in todo' \/ (status'[n] = "error" <=> MultiplyDefined(n))
             /\ status'[n] = "error" => MultiplyDefined(n)
  <2>1. (<<n>> \in todo \/ (status[n] = "error" <=> MultiplyDefined(n))) /\ (status[n] = "error" => MultiplyDefined(n))
    BY <1>2 DEF CheckInv
  <2>2. CASE <<n>> = p
    <3>1. n = m
      BY <2>2
    <3> QED
      BY <1>1, <1>4, <2>1, <3>1
  <2>3. CASE <<n>> # p
    <3>1. status'[n] = "error" => status[n] = "error" \/ MultiplyDefined(n)
      BY <1>1, <1>4
    <3>2. status[n] = "error" => status'[n] = "error"
      BY <1>1, <1>4
    <3> QED
      BY <1>1, <2>1, <2>3, <3>1, <3>2
  <2> QED
    BY <2>2, <2>3
<1>7. CheckInv'
  BY <1>1, <1>3, <1>6, ListsStay DEF CheckInv
<1> QED
  BY <1>1, <1>3, <1>5, <1>7 DEF LinkInv

LEMMA AllCheckedKeeps ==
  ASSUME LinkInv, AllChecked
  PROVE  LinkInv'
<1>1. /\ step = "check" /\ todo = {} /\ mods' = mods /\ imports' = imports /\ links' = links
      /\ localRefCount' = localRefCount /\ status' = status
      /\ step' = IF Refused THEN "refused" ELSE "done"
  BY DEF AllChecked
<1>2. IsProgram(mods) /\ ImportsInv(imports) /\ LinksInv /\ CountInv /\ CheckInv
  BY <1>1 DEF LinkInv
<1>3. IsProgram(mods)' /\ ImportsInv(imports)' /\ LinksInv' /\ CountInv' /\ Parsed' /\ NamesUnique' /\ AllLinked'
  BY <1>1, <1>2, ModsStay, ListsStay, LinksStay, CountStays, LinkingStays DEF CheckInv
<1>4. status' \in [DOMAIN mods' -> {"ok", "error"}]
  BY <1>1 DEF LinkInv
<1>5. \A m \in DOMAIN mods : status[m] = "error" <=> MultiplyDefined(m)
  BY <1>1, <1>2 DEF CheckInv
<1>6. CASE Refused
  <2>1. step' = "refused"
    BY <1>1, <1>6
  <2>2. \E m \in DOMAIN mods : MultiplyDefined(m)
    BY <1>5, <1>6 DEF Refused
  <2>3. RefusedInv'
    BY <1>1, <1>3, <2>2, ListsStay DEF RefusedInv
  <2> QED
    BY <1>3, <1>4, <2>1, <2>3 DEF LinkInv
<1>7. CASE ~Refused
  <2>1. step' = "done"
    BY <1>1, <1>7
  <2>2. \A m \in DOMAIN mods : ~MultiplyDefined(m)
    BY <1>5, <1>7 DEF Refused
  <2>3. DoneInv'
    BY <1>1, <1>3, <2>2, ListsStay DEF DoneInv
  <2> QED
    BY <1>3, <1>4, <2>1, <2>3 DEF LinkInv
<1> QED
  BY <1>6, <1>7

-----------------------------------------------------------------------------
(* Import lists are linked                                                 *)

LEMMA ListPlacesAre ==
  ASSUME NEW p \in ListPlaces
  PROVE  p = <<p[1], p[2]>> /\ p[1] \in DOMAIN mods /\ p[2] \in DOMAIN imports[p[1]]
<1>1. PICK m \in DOMAIN mods : p \in {<<m, i>> : i \in DOMAIN imports[m]}
  BY DEF ListPlaces
<1>2. PICK i \in DOMAIN imports[m] : p = <<m, i>>
  BY <1>1
<1> QED
  BY <1>2

\* Lists with the same elements, but for what these are resolved to.
SameNames(l, k) ==
  /\ k.from = l.from /\ k.oid = l.oid /\ DOMAIN k.elmts = DOMAIN l.elmts
  /\ \A e \in DOMAIN l.elmts :
       k.elmts[e].name = l.elmts[e].name /\ k.elmts[e].privateScope = l.elmts[e].privateScope
Relinked(lists) ==
  \A m \in DOMAIN mods :
    DOMAIN lists[m] = DOMAIN imports[m] /\ \A i \in DOMAIN imports[m] : SameNames(imports[m][i], lists[m][i])

LEMMA RelinkedKeeps ==
  ASSUME IsProgram(mods), ImportsInv(imports), NEW lists, ListsOK(lists), Relinked(lists)
  PROVE  ImportsInv(lists) /\ \A q \in ItemPlaces : HasElmt(imports, q) => HasElmt(lists, q)
<1>1. ASSUME NEW m \in DOMAIN mods, NEW i \in DOMAIN imports[m]
      PROVE  /\ i \in DOMAIN lists[m] /\ DOMAIN lists[m] = DOMAIN imports[m]
             /\ lists[m][i].from = imports[m][i].from /\ lists[m][i].oid = imports[m][i].oid
             /\ DOMAIN lists[m][i].elmts = DOMAIN imports[m][i].elmts
             /\ \A e \in DOMAIN imports[m][i].elmts : lists[m][i].elmts[e].name = imports[m][i].elmts[e].name
             /\ \A e \in DOMAIN imports[m][i].elmts :
                  lists[m][i].elmts[e].privateScope = imports[m][i].elmts[e].privateScope
  BY DEF Relinked, SameNames
<1>2. ASSUME NEW m \in DOMAIN mods, NEW name, NEW i, IsListFor(imports, m, name, i)
      PROVE  IsListFor(lists, m, name, i)
  BY <1>1, <1>2 DEF IsListFor
<1>3. ASSUME NEW q \in ItemPlaces, HasElmt(imports, q) PROVE HasElmt(lists, q)
  <2>1. q[1] \in DOMAIN mods
    BY PlacesAre
  <2>2. PICK i \in DOMAIN imports[q[1]] : /\ IsListFor(imports, q[1], ItemAt(q).module, i)
                 /\ \E e \in DOMAIN imports[q[1]][i].elmts : imports[q[1]][i].elmts[e].name = ItemAt(q).name
    BY <1>3 DEF HasElmt
  <2>3. PICK e \in DOMAIN imports[q[1]][i].elmts : imports[q[1]][i].elmts[e].name = ItemAt(q).name
    BY <2>2
  <2>4. e \in DOMAIN lists[q[1]][i].elmts /\ lists[q[1]][i].elmts[e].name = ItemAt(q).name
    BY <1>1, <2>1, <2>3
  <2>5. IsListFor(lists, q[1], ItemAt(q).module, i) /\ i \in DOMAIN lists[q[1]]
    BY <1>1, <1>2, <2>1, <2>2
  <2> QED
    BY <2>4, <2>5 DEF HasElmt
<1>4. WrittenKept(lists)
  <2> SUFFICES ASSUME NEW m \in DOMAIN mods, NEW i \in DOMAIN mods[m].imports
      PROVE  /\ i \in DOMAIN lists[m]
             /\ lists[m][i].from = mods[m].imports[i].from /\ lists[m][i].oid = mods[m].imports[i].oid
             /\ \A e \in DOMAIN mods[m].imports[i].elmts :
                  e \in DOMAIN lists[m][i].elmts /\ lists[m][i].elmts[e].name = mods[m].imports[i].elmts[e]
             /\ \A e \in DOMAIN lists[m][i].elmts : lists[m][i].elmts[e].privateScope = FALSE
    BY DEF WrittenKept
  <2>1. /\ i \in DOMAIN imports[m]
        /\ imports[m][i].from = mods[m].imports[i].from /\ imports[m][i].oid = mods[m].imports[i].oid
        /\ \A e \in DOMAIN mods[m].imports[i].elmts :
             e \in DOMAIN imports[m][i].elmts /\ imports[m][i].elmts[e].name = mods[m].imports[i].elmts[e]
        /\ \A e \in DOMAIN imports[m][i].elmts : imports[m][i].elmts[e].privateScope = FALSE
    BY DEF ImportsInv, WrittenKept
  <2> QED
    BY <1>1, <2>1
<1>5. ASSUME NEW m \in DOMAIN mods, NEW i \in DOMAIN lists[m]
      PROVE  i \in DOMAIN mods[m].imports \/ lists[m][i].oid = None
  <2>1. i \in DOMAIN imports[m]
    BY DEF Relinked
  <2> QED
    BY <1>1, <2>1 DEF ImportsInv, AddedForReference
<1>6. ASSUME NEW m \in DOMAIN mods, NEW i \in DOMAIN lists[m], NEW e \in DOMAIN lists[m][i].elmts
      PROVE  \/ IsWritten(m, i, e)
             \/ \E q \in ItemPlaces : /\ IsExternal(q) /\ q[1] = m /\ IsListFor(lists, m, ItemAt(q).module, i)
                                      /\ ItemAt(q).name = lists[m][i].elmts[e].name
  <2>1. i \in DOMAIN imports[m]
    BY DEF Relinked
  <2>2. e \in DOMAIN imports[m][i].elmts /\ lists[m][i].elmts[e].name = imports[m][i].elmts[e].name
    BY <1>1, <2>1
  <2>3. \/ IsWritten(m, i, e)
        \/ \E q \in ItemPlaces : /\ IsExternal(q) /\ q[1] = m /\ IsListFor(imports, m, ItemAt(q).module, i)
                                 /\ ItemAt(q).name = imports[m][i].elmts[e].name
    BY <2>1, <2>2 DEF ImportsInv, AddedForReference
  <2> QED
    BY <1>2, <2>2, <2>3
<1> QED
  BY <1>3, <1>4, <1>5, <1>6 DEF ImportsInv, AddedForReference

\* One list is given what its elements are resolved to.
ResolvedTo(l, f, elmts) ==
  /\ elmts = [e \in DOMAIN l.elmts |-> elmts[e]]
  /\ \A e \in DOMAIN l.elmts : elmts[e] = [l.elmts[e] EXCEPT !.resolved = f[e]]

LEMMA OneRelinked ==
  ASSUME IsProgram(mods), ListsOK(imports), NEW n \in DOMAIN mods, NEW i \in DOMAIN imports[n],
         NEW f, NEW elmts, ResolvedTo(imports[n][i], f, elmts),
         NEW lists, lists = [imports EXCEPT ![n] = [imports[n] EXCEPT ![i] = [imports[n][i] EXCEPT !.elmts = elmts]]]
  PROVE  /\ ListsOK(lists) /\ Relinked(lists)
         /\ \A m \in DOMAIN mods : \A j \in DOMAIN imports[m] : m # n \/ j # i => lists[m][j] = imports[m][j]
<1> DEFINE l == imports[n][i]
           k == [from |-> l.from, oid |-> l.oid, elmts |-> elmts]
<1>1. DOMAIN imports = DOMAIN mods /\ IsSequence(imports[n]) /\ ListOK(l)
  BY ListsAre DEF ListsOK
<1>2. l = [from |-> l.from, oid |-> l.oid, elmts |-> l.elmts] /\ IsSequence(l.elmts)
      /\ \A e \in DOMAIN l.elmts : ElmtOK(l.elmts[e])
  BY <1>1 DEF ListOK
<1>3. lists = [imports EXCEPT ![n] = [imports[n] EXCEPT ![i] = k]]
  <2>1. lists = [imports EXCEPT ![n] = [imports[n] EXCEPT ![i] = [l EXCEPT !.elmts = elmts]]]
    OBVIOUS
  <2>2. [l EXCEPT !.elmts = elmts] = k
    BY <1>2, ListWithIs
  <2> HIDE DEF k
  <2> QED
    BY <1>1, <2>1, <2>2
<1>4. ASSUME NEW e \in DOMAIN l.elmts
      PROVE  /\ ElmtOK(elmts[e]) /\ elmts[e].resolved = f[e]
             /\ elmts[e].name = l.elmts[e].name /\ elmts[e].privateScope = l.elmts[e].privateScope
  <2>1. l.elmts[e] = [name |-> l.elmts[e].name, privateScope |-> l.elmts[e].privateScope, resolved |-> l.elmts[e].resolved]
    BY <1>2 DEF ElmtOK
  <2>2. elmts[e] = [l.elmts[e] EXCEPT !.resolved = f[e]]
    BY DEF ResolvedTo
  <2> QED
    BY <2>1, <2>2 DEF ElmtOK
<1>5. DOMAIN elmts = DOMAIN l.elmts /\ elmts = [e \in DOMAIN l.elmts |-> elmts[e]]
  BY DEF ResolvedTo
<1>6. k.from = l.from /\ k.oid = l.oid /\ k.elmts = elmts /\ k = [from |-> k.from, oid |-> k.oid, elmts |-> k.elmts]
  OBVIOUS
<1> HIDE DEF k
<1>7. ListOK(k) /\ SameNames(l, k)
  <2>1. IsSequence(elmts)
    BY <1>2, <1>5, SameDomainIs
  <2> QED
    BY <1>4, <1>5, <1>6, <2>1 DEF ListOK, SameNames
<1>8. /\ DOMAIN lists = DOMAIN mods /\ lists = [m \in DOMAIN mods |-> lists[m]]
      /\ lists[n] = [imports[n] EXCEPT ![i] = k] /\ \A m \in DOMAIN mods \ {n} : lists[m] = imports[m]
  BY <1>1, <1>3
<1>9. /\ DOMAIN lists[n] = DOMAIN imports[n] /\ lists[n][i] = k
      /\ \A j \in DOMAIN imports[n] \ {i} : lists[n][j] = imports[n][j]
  BY <1>8
<1>10. IsSequence(lists[n])
  <2>1. IsSequence([imports[n] EXCEPT ![i] = k])
    BY <1>1, ReplacedIs
  <2> QED
    BY <1>8, <2>1
<1>11. ListsOK(lists)
  <2>1. ASSUME NEW m \in DOMAIN mods PROVE IsSequence(lists[m]) /\ \A j \in DOMAIN lists[m] : ListOK(lists[m][j])
    BY <1>7, <1>8, <1>9, <1>10 DEF ListsOK
  <2> QED
    BY <1>8, <2>1 DEF ListsOK
<1>12. Relinked(lists)
  <2>1. ASSUME NEW m \in DOMAIN mods, NEW j \in DOMAIN imports[m]
        PROVE  DOMAIN lists[m] = DOMAIN imports[m] /\ SameNames(imports[m][j], lists[m][j])
    <3>1. CASE m = n /\ j = i
      BY <1>7, <1>9, <3>1
    <3>2. CASE ~(m = n /\ j = i)
      BY <1>8, <1>9, <3>2 DEF SameNames
    <3> QED
      BY <3>1, <3>2
  <2>2. \A m \in DOMAIN mods : DOMAIN lists[m] = DOMAIN imports[m]
    BY <1>8, <1>9
  <2> QED
    BY <2>1, <2>2 DEF Relinked
<1>13. \A m \in DOMAIN mods : \A j \in DOMAIN imports[m] : m # n \/ j # i => lists[m][j] = imports[m][j]
  BY <1>8, <1>9
<1> QED
  BY <1>4, <1>6, <1>9, <1>11, <1>12, <1>13

LEMMA RelinkedFails ==
  ASSUME mods' = mods, Relinked(imports'), NEW m \in DOMAIN mods, NEW i \in DOMAIN imports[m]
  PROVE  /\ ModuleOf(m, i)' = ModuleOf(m, i)
         /\ \A e \in DOMAIN imports[m][i].elmts : TargetOf(m, i, e)' = TargetOf(m, i, e)
         /\ ListFails(m, i)' <=> ListFails(m, i)
<1>1. SameNames(imports[m][i], imports'[m][i])
  BY DEF Relinked
<1>2. ModuleOf(m, i)' = ModuleOf(m, i)
  BY <1>1, ModsStay DEF SameNames, ModuleOf
<1>3. DOMAIN imports'[m][i].elmts = DOMAIN imports[m][i].elmts
  BY <1>1 DEF SameNames
<1>4. ASSUME NEW e \in DOMAIN imports[m][i].elmts PROVE TargetOf(m, i, e)' = TargetOf(m, i, e)
  <2>1. imports'[m][i].elmts[e].name = imports[m][i].elmts[e].name
    BY <1>1 DEF SameNames
  <2> QED
    BY <1>2, <2>1, ModsStay DEF TargetOf
<1>5. ListFails(m, i)' <=> ListFails(m, i)
  BY <1>2, <1>3, <1>4, ModsStay DEF ListFails
<1> QED
  BY <1>2, <1>4, <1>5

LEMMA RelinkedItself ==
  ASSUME ListsOK(imports)
  PROVE  Relinked(imports)
BY DEF Relinked, SameNames

\* What LinkImportList does to the lists.
LEMMA ListRelinked ==
  ASSUME IsProgram(mods), ListsOK(imports), NEW p \in ListPlaces, LinkImportList(p),
         Unlinked(imports, p[1], p[2])
  PROVE  /\ ListsOK(imports') /\ Relinked(imports')
         /\ \A m \in DOMAIN mods : \A i \in DOMAIN imports[m] : <<m, i>> # p => imports'[m][i] = imports[m][i]
         /\ \A e \in DOMAIN imports[p[1]][p[2]].elmts :
              imports'[p[1]][p[2]].elmts[e].resolved = TargetOf(p[1], p[2], e)
<1> DEFINE n == p[1]
           i == p[2]
           l == imports[n][i]
           k == ModuleOf(n, i)
           f == [e \in DOMAIN l.elmts |-> Found(k, l.elmts[e].name)]
<1>1. p = <<n, i>> /\ n \in DOMAIN mods /\ i \in DOMAIN imports[n]
  BY ListPlacesAre
<1>2. CASE k = 0
  <2>1. imports' = imports
    BY <1>2 DEF LinkImportList, ModuleOf
  <2>2. \A e \in DOMAIN l.elmts : l.elmts[e].resolved = TargetOf(n, i, e)
    BY <1>2 DEF Unlinked, TargetOf
  <2> QED
    BY <2>1, <2>2, RelinkedItself
<1>3. CASE k # 0
  <2>1. imports' = [imports EXCEPT ![n][i].elmts =
                      [e \in DOMAIN l.elmts |-> [l.elmts[e] EXCEPT !.resolved = Found(k, l.elmts[e].name)]]]
    BY <1>3 DEF LinkImportList, ModuleOf
  <2> DEFINE elmts == [e \in DOMAIN l.elmts |-> [l.elmts[e] EXCEPT !.resolved = Found(k, l.elmts[e].name)]]
  <2>2. ResolvedTo(l, f, elmts)
    BY DEF ResolvedTo
  <2>3. imports' = [imports EXCEPT ![n] = [imports[n] EXCEPT ![i] = [imports[n][i] EXCEPT !.elmts = elmts]]]
    <3>1. imports' = [imports EXCEPT ![n][i].elmts = elmts]
      BY <2>1
    <3> HIDE DEF elmts
    <3>2. [imports[n] EXCEPT ![i].elmts = elmts] = [imports[n] EXCEPT ![i] = [imports[n][i] EXCEPT !.elmts = elmts]]
      BY <1>1, ListInPlaceIs
    <3>3. imports' = [imports EXCEPT ![n] = [imports[n] EXCEPT ![i].elmts = elmts]]
      BY <3>1
    <3> QED
      BY <3>2, <3>3
  <2>4. \A e \in DOMAIN l.elmts : f[e] = TargetOf(n, i, e)
    BY <1>3 DEF TargetOf
  <2> HIDE DEF f, elmts
  <2>5. /\ ListsOK(imports') /\ Relinked(imports')
        /\ \A m \in DOMAIN mods : \A j \in DOMAIN imports[m] : m # n \/ j # i => imports'[m][j] = imports[m][j]
        /\ \A e \in DOMAIN imports[n][i].elmts : imports'[n][i].elmts[e].resolved = f[e]
    <3>1. PICK lists : lists = imports'
      OBVIOUS
    <3>2. lists = [imports EXCEPT ![n] = [imports[n] EXCEPT ![i] = [imports[n][i] EXCEPT !.elmts = elmts]]]
      BY <2>3, <3>1
    <3> HIDE DEF n, i
    <3>3. /\ ListsOK(lists) /\ Relinked(lists)
      BY <1>1, <2>2, <3>2, OneRelinked
    <3>4. \A m \in DOMAIN mods : \A j \in DOMAIN imports[m] : m # n \/ j # i => lists[m][j] = imports[m][j]
      BY <1>1, <2>2, <3>2, OneRelinked
    <3>5. lists[n][i].elmts = elmts
      <4>1. imports[n][i] = [from |-> imports[n][i].from, oid |-> imports[n][i].oid, elmts |-> imports[n][i].elmts]
        BY <1>1 DEF ListsOK, ListOK, n, i
      <4>2. lists[n][i] = [imports[n][i] EXCEPT !.elmts = elmts]
        BY <1>1, <3>2, ListsAre
      <4> QED
        BY <4>1, <4>2
    <3>6. ASSUME NEW e \in DOMAIN l.elmts PROVE elmts[e].resolved = f[e]
      <4>1. ElmtOK(l.elmts[e])
        BY <1>1 DEF ListsOK, ListOK, n, i
      <4>2. elmts[e] = [l.elmts[e] EXCEPT !.resolved = f[e]]
        BY <2>2 DEF ResolvedTo
      <4> QED
        BY <4>1, <4>2 DEF ElmtOK
    <3> QED
      BY <3>1, <3>3, <3>4, <3>5, <3>6
  <2> QED
    BY <1>1, <2>4, <2>5
<1> QED
  BY <1>2, <1>3

LEMMA LinkImportListKeeps ==
  ASSUME LinkInv, NEW p \in todo, LinkImportList(p)
  PROVE  LinkInv'
<1> DEFINE n == p[1]
           i == p[2]
           l == imports[n][i]
<1>1. /\ step = "imports" /\ step' = "imports" /\ todo' = todo \ {p} /\ mods' = mods /\ links' = links
      /\ localRefCount' = localRefCount
  BY DEF LinkImportList, Takes
<1>2. IsProgram(mods) /\ ImportsInv(imports) /\ LinksInv /\ CountInv /\ ListsInv /\ ListsOK(imports)
  BY <1>1 DEF LinkInv, ImportsInv
<1>3. p \in ListPlaces /\ p = <<n, i>> /\ n \in DOMAIN mods /\ i \in DOMAIN imports[n]
  BY <1>2, ListPlacesAre DEF ListsInv
<1>4. status' = IF ListFails(n, i) THEN [status EXCEPT ![n] = "error"] ELSE status
  <2>1. ListFails(n, i) <=> ~(/\ ModuleOf(n, i) # 0
                              /\ \A e \in DOMAIN l.elmts : /\ Found(ModuleOf(n, i), l.elmts[e].name) # Unresolved
                                                           /\ Exported(Found(ModuleOf(n, i), l.elmts[e].name)))
    BY DEF ListFails, TargetOf
  <2>2. status' = IF /\ ModuleOf(n, i) # 0
                     /\ \A e \in DOMAIN l.elmts : /\ Found(ModuleOf(n, i), l.elmts[e].name) # Unresolved
                                                  /\ Exported(Found(ModuleOf(n, i), l.elmts[e].name))
                  THEN status ELSE [status EXCEPT ![n] = "error"]
    BY DEF LinkImportList, ModuleOf
  <2> QED
    BY <2>1, <2>2
<1>5. status \in [DOMAIN mods -> {"ok", "error"}]
  BY DEF LinkInv
<1>6. status' \in [DOMAIN mods' -> {"ok", "error"}]
  BY <1>1, <1>4, <1>5
<1>7. /\ ListsOK(imports') /\ Relinked(imports')
      /\ \A m \in DOMAIN mods : \A j \in DOMAIN imports[m] : <<m, j>> # p => imports'[m][j] = imports[m][j]
      /\ \A e \in DOMAIN l.elmts : imports'[n][i].elmts[e].resolved = TargetOf(n, i, e)
  <2>1. Unlinked(imports, n, i)
    BY <1>2, <1>3 DEF ListsInv
  <2> QED
    BY <1>2, <1>3, <2>1, ListRelinked
<1>8. ImportsInv(imports)' /\ Parsed' /\ NamesUnique' /\ IsProgram(mods)'
  <2>1. ImportsInv(imports') /\ \A q \in ItemPlaces : HasElmt(imports, q) => HasElmt(imports', q)
    BY <1>2, <1>7, RelinkedKeeps
  <2>2. \A q \in ItemPlaces : IsExternal(q) => HasElmt(imports, q)
    BY <1>2 DEF ListsInv, Parsed
  <2> QED
    BY <1>1, <1>2, <2>1, <2>2, ModsStay, PrimedLists DEF Parsed, ListsInv
<1>9. LinksInv' /\ CountInv'
  BY <1>1, <1>2, UnlinkedStays, CountStays DEF ListsInv
<1>10. AllOk' => AllOk /\ ~ListFails(n, i)
  BY <1>1, <1>3, <1>4, <1>5 DEF AllOk
<1>11. ~AllOk' => ~AllOk \/ ListFails(n, i)
  BY <1>1, <1>4 DEF AllOk
<1>12. \A m \in DOMAIN mods : DOMAIN imports'[m] = DOMAIN imports[m]
  BY <1>7 DEF Relinked
<1>13. ASSUME NEW m \in DOMAIN mods, NEW j \in DOMAIN imports[m]
       PROVE  IF <<m, j>> \in todo' THEN Unlinked(imports, m, j)'
              ELSE Resolved(m, j)' /\ (AllOk' => ~ListFails(m, j)')
  <2>1. IF <<m, j>> \in todo THEN Unlinked(imports, m, j) ELSE Resolved(m, j) /\ (AllOk => ~ListFails(m, j))
    BY <1>2 DEF ListsInv
  <2>2. /\ ListFails(m, j)' <=> ListFails(m, j)
        /\ \A e \in DOMAIN imports[m][j].elmts : TargetOf(m, j, e)' = TargetOf(m, j, e)
    BY <1>1, <1>7, RelinkedFails
  <2>3. DOMAIN imports'[m][j].elmts = DOMAIN imports[m][j].elmts
    BY <1>7 DEF Relinked, SameNames
  <2>4. CASE <<m, j>> = p
    <3>1. m = n /\ j = i
      BY <1>3, <2>4
    <3>2. Resolved(m, j)'
      BY <1>7, <2>2, <2>3, <3>1 DEF Resolved
    <3> QED
      BY <1>1, <1>10, <2>2, <2>4, <3>1, <3>2
  <2>5. CASE <<m, j>> # p
    <3>1. imports'[m][j] = imports[m][j]
      BY <1>7, <2>5
    <3>2. Unlinked(imports, m, j) => Unlinked(imports, m, j)'
      BY <3>1 DEF Unlinked, Unresolved
    <3>3. Resolved(m, j) => Resolved(m, j)'
      BY <2>2, <3>1 DEF Resolved
    <3> QED
      BY <1>1, <1>10, <2>1, <2>2, <2>5, <3>2, <3>3
  <2> QED
    BY <2>4, <2>5
<1>14. ~AllOk' => (\E m \in DOMAIN mods : \E j \in DOMAIN imports[m] : ListFails(m, j))'
  <2>1. ~AllOk' => \E m \in DOMAIN mods : \E j \in DOMAIN imports[m] : ListFails(m, j)
    BY <1>2, <1>3, <1>11 DEF ListsInv
  <2>2. \A m \in DOMAIN mods : \A j \in DOMAIN imports[m] : ListFails(m, j)' <=> ListFails(m, j)
    BY <1>1, <1>7, RelinkedFails
  <2> QED
    BY <1>1, <1>12, <2>1, <2>2
<1>15. todo' \subseteq ListPlaces'
  <2>1. ListPlaces' = ListPlaces
    BY <1>1, <1>12 DEF ListPlaces
  <2> QED
    BY <1>1, <1>2, <2>1 DEF ListsInv
<1>16. \A q \in ItemPlaces' : links'[q] = Unresolved
  BY <1>1, <1>2, ModsStay DEF ListsInv
<1>17. (\A m \in DOMAIN mods : \A j \in DOMAIN imports[m] :
         IF <<m, j>> \in todo THEN Unlinked(imports, m, j) ELSE Resolved(m, j) /\ (AllOk => ~ListFails(m, j)))'
  BY <1>1, <1>12, <1>13
<1>18. ListsInv'
  BY <1>8, <1>14, <1>15, <1>16, <1>17 DEF ListsInv
<1> QED
  BY <1>1, <1>6, <1>8, <1>9, <1>18 DEF LinkInv

-----------------------------------------------------------------------------
(* References are linked                                                   *)

LEMMA LinkOfIs ==
  ASSUME Parsed, NEW p \in References
  PROVE  /\ LinkOf(p) # Unresolved => LinkOf(p) \in DefPlaces
         /\ IsLocal(p) => LinkOf(p) # Unresolved /\ LinkOf(p)[1] = p[1] /\ ~IsExternal(p)
         /\ ~IsLocal(p) /\ ~IsExternal(p) /\ LinkOf(p) # Unresolved => LinkOf(p)[1] # p[1]
<1> DEFINE m == p[1]
           name == ItemAt(p).name
           i == ImportList(p)
           e == ElmtOf(p)
           k == ModuleOf(m, i)
<1>1. m \in DOMAIN mods /\ IsProgram(mods)
  BY ImportOf DEF Parsed
<1>2. \A n \in DOMAIN mods : Found(n, name) # Unresolved => Found(n, name) \in DefPlaces /\ Found(n, name)[1] = n
  BY <1>1, FoundIs DEF Named
<1>3. CASE IsLocal(p)
  <2>1. LinkOf(p) = Found(m, name) /\ LookupType(m, name) # 0 /\ ItemAt(p).module = None
    BY <1>3 DEF LinkOf, IsLocal
  <2>2. LinkOf(p) # Unresolved
    BY <1>1, <2>1, FoundIs
  <2> QED
    BY <1>1, <1>2, <1>3, <2>1, <2>2 DEF IsExternal
<1>4. CASE ~IsLocal(p) /\ LinkOf(p) # Unresolved
  <2>1. IsImported(p) /\ LinkOf(p) = TargetOf(m, i, e)
    BY <1>4 DEF LinkOf
  <2>2. i # 0 /\ imports[m][i].elmts[e].name = name
    BY <2>1, ImportOf DEF IsImported
  <2>3. k # 0 /\ LinkOf(p) = Found(k, name)
    BY <1>4, <2>1, <2>2 DEF TargetOf
  <2>4. k \in DOMAIN mods
    BY <1>1, <2>3, LookupModuleFindsMeant DEF ModuleOf
  <2>5. LinkOf(p) \in DefPlaces /\ LinkOf(p)[1] = k
    BY <1>2, <1>4, <2>3, <2>4
  <2>6. ASSUME ~IsExternal(p) PROVE k # m
    <3>1. IsRefTo(p) /\ ItemAt(p).module = None
      BY <2>6 DEF IsExternal, References
    <3>2. LookupType(m, name) = 0
      BY <1>4, <3>1 DEF IsLocal
    <3>3. Found(m, name) = Unresolved
      BY <3>2 DEF Found
    <3> QED
      BY <1>4, <2>3, <3>3
  <2> QED
    BY <1>4, <2>5, <2>6
<1> QED
  BY <1>3, <1>4

\* What is linked stays so.
LEMMA PathKept ==
  ASSUME IsProgram(mods), mods' = mods, \A x \in ItemPlaces : links[x] # Unresolved => links'[x] = links[x],
         NEW p \in ItemPlaces \ References, NEW n \in Nat,
         NEW f \in [0 .. n -> DefPlaces], LinkedPath(p, f, n)
  PROVE  LinkedPath(p, f, n)'
<1>2. n \in Nat
  OBVIOUS
<1>3. Unresolved \notin DefPlaces
  BY UnresolvedIsNoPlace
<1>4. f[0] = links[ChoiceOf(p)] /\ f[0] \in DefPlaces
  BY <1>2 DEF LinkedPath
<1>5. ChoiceOf(p) \in ItemPlaces
  BY ReferencesInPlace DEF References
<1>6. links'[ChoiceOf(p)] = f[0]
  BY <1>3, <1>4, <1>5
<1>7. ASSUME NEW j \in 0 .. n - 1
      PROVE  f[j + 1] = IF DefAt(f[j]).kind = "ref" THEN links'[RefOf(f[j])] ELSE f[j]
  <2>1. f[j + 1] = IF DefAt(f[j]).kind = "ref" THEN links[RefOf(f[j])] ELSE f[j]
    BY DEF LinkedPath
  <2>2. f[j] \in DefPlaces /\ f[j + 1] \in DefPlaces
    <3>1. j \in 0 .. n /\ j + 1 \in 0 .. n
      BY <1>2
    <3> QED
      BY <3>1
  <2>3. CASE DefAt(f[j]).kind = "ref"
    <3>1. RefOf(f[j]) \in ItemPlaces
      BY <2>2, <2>3, ReferencesInPlace DEF References
    <3> QED
      BY <1>3, <2>1, <2>2, <2>3, <3>1
  <2>4. CASE DefAt(f[j]).kind # "ref"
    BY <2>1, <2>4
  <2> QED
    BY <2>3, <2>4
<1>8. f \in [0 .. n -> DefPlaces']
  BY ModsStay
<1> QED
  BY <1>6, <1>7, <1>8, ModsStay DEF LinkedPath, ChoiceOf, RefOf

\* So a selection that was accepted stays accepted, and a cause of an error one.
LEMMA LinkingKept ==
  ASSUME IsProgram(mods), mods' = mods, imports' = imports,
         \A x \in ItemPlaces : links[x] # Unresolved => links'[x] = links[x]
  PROVE  /\ \A p \in ItemPlaces \ References : Selected(p) => Selected(p)'
         /\ Cause => Cause'
<1>0. LastHop \in Nat
  BY FinitePlaces DEF LastHop
<1>1. \A d, p : HasField(d, p)' = HasField(d, p)
  BY ModsStay DEF HasField
<1>5. ASSUME NEW p \in ItemPlaces \ References, NEW f \in [0 .. LastHop -> DefPlaces], LinkedPath(p, f, LastHop)
      PROVE  LinkedPath(p, f, LastHop)' /\ f \in [0 .. LastHop' -> DefPlaces'] /\ HasField(f[LastHop], p)' = HasField(f[LastHop], p)
  <2>1. PICK n : n = LastHop
    OBVIOUS
  <2>2. n \in Nat /\ f \in [0 .. n -> DefPlaces] /\ LinkedPath(p, f, n)
    BY <1>0, <1>5, <2>1
  <2>3. LinkedPath(p, f, n)'
    BY <2>2, PathKept
  <2>4. LastHop' = n
    BY <2>1, ModsStay
  <2>5. LinkedPath(p, f, LastHop)'
    BY <2>3, <2>4
  <2>6. HasField(f[LastHop], p)' = HasField(f[LastHop], p)
    BY <1>1, <2>1, <2>4
  <2> QED
    BY <2>1, <2>2, <2>4, <2>5, <2>6, ModsStay
<1>2. ASSUME NEW p \in ItemPlaces \ References, Selected(p) PROVE Selected(p)'
  <2>1. PICK f \in [0 .. LastHop -> DefPlaces] : LinkedPath(p, f, LastHop) /\ HasField(f[LastHop], p)
    BY <1>2 DEF Selected
  <2>2. LinkedPath(p, f, LastHop)'
    BY <1>5, <2>1
  <2>3. f \in [0 .. LastHop' -> DefPlaces'] /\ HasField(f[LastHop], p)'
    BY <1>5, <2>1
  <2> QED
    BY <2>2, <2>3 DEF Selected
<1>3. ASSUME NEW p \in ItemPlaces \ References, Waits(p) PROVE Waits(p)'
  <2>1. PICK n \in 0 .. LastHop : \E f \in [0 .. n -> DefPlaces] :
           LinkedPath(p, f, n) /\ DefAt(f[n]).kind = "ref" /\ Earlier(p, RefOf(f[n]))
    BY <1>3 DEF Waits
  <2>2. PICK f \in [0 .. n -> DefPlaces] :
           LinkedPath(p, f, n) /\ DefAt(f[n]).kind = "ref" /\ Earlier(p, RefOf(f[n]))
    BY <2>1
  <2>3. LinkedPath(p, f, n)'
    BY <2>2, PathKept
  <2>4. (LinkedPath(p, f, n) /\ DefAt(f[n]).kind = "ref" /\ Earlier(p, RefOf(f[n])))'
    BY <2>2, <2>3, ModsStay DEF Earlier, RefOf
  <2>5. n \in 0 .. LastHop' /\ f \in [0 .. n -> DefPlaces']
    BY ModsStay
  <2> QED
    BY <2>4, <2>5 DEF Waits
<1>4. ASSUME Cause PROVE Cause'
  <2>1. CASE \E m \in DOMAIN mods : \E i \in DOMAIN imports[m] : ListFails(m, i)
    BY <2>1, ListsStay DEF Cause
  <2>2. CASE \E q \in References : LinkOf(q) = Unresolved
    BY <2>2, ModsStay, ListsStay DEF Cause, Unresolved
  <2>3. CASE \E p \in ItemPlaces \ References :
               Waits(p) \/ \E f \in [0 .. LastHop -> DefPlaces] : LinkedPath(p, f, LastHop) /\ ~HasField(f[LastHop], p)
    <3>1. PICK p \in ItemPlaces \ References :
               Waits(p) \/ \E f \in [0 .. LastHop -> DefPlaces] : LinkedPath(p, f, LastHop) /\ ~HasField(f[LastHop], p)
      BY <2>3
    <3>2. p \in ItemPlaces' \ References'
      BY ModsStay
    <3>3. CASE Waits(p)
      <4>1. Waits(p)'
        BY <1>3, <3>3
      <4> QED
        BY <3>2, <4>1 DEF Cause
    <3>4. CASE \E f \in [0 .. LastHop -> DefPlaces] : LinkedPath(p, f, LastHop) /\ ~HasField(f[LastHop], p)
      <4>1. PICK f \in [0 .. LastHop -> DefPlaces] : LinkedPath(p, f, LastHop) /\ ~HasField(f[LastHop], p)
        BY <3>4
      <4>2. LinkedPath(p, f, LastHop)'
        BY <1>5, <4>1
      <4>3. f \in [0 .. LastHop' -> DefPlaces'] /\ ~HasField(f[LastHop], p)'
        BY <1>5, <4>1
      <4> QED
        BY <3>2, <4>2, <4>3 DEF Cause
    <3> QED
      BY <3>1, <3>3, <3>4
  <2> QED
    BY <1>4, <2>1, <2>2, <2>3 DEF Cause
<1> QED
  BY <1>2, <1>4

\* A reference to a definition of its own module is counted there.
LEMMA LocalCounted ==
  ASSUME IsProgram(mods), mods' = mods, LinksInv, CountInv, NEW p \in References, links[p] = Unresolved,
         NEW v \in DefPlaces, ~IsExternal(p), v[1] = p[1],
         links' = [links EXCEPT ![p] = v], localRefCount' = [localRefCount EXCEPT ![v] = @ + 1]
  PROVE  CountInv'
<1>1. p \in ItemPlaces /\ References \subseteq ItemPlaces
  BY DEF References
<1>2. links'[p] = v /\ \A q \in References \ {p} : links'[q] = links[q]
  BY <1>1 DEF LinksInv
<1>3. v # Unresolved
  BY UnresolvedIsNoPlace
<1>4. Counted(v)' = Counted(v) \cup {p} /\ p \notin Counted(v)
  BY <1>2, <1>3, ModsStay DEF Counted
<1>5. \A d \in DefPlaces \ {v} : Counted(d)' = Counted(d)
  <2> SUFFICES ASSUME NEW d \in DefPlaces \ {v} PROVE Counted(d)' = Counted(d)
    OBVIOUS
  <2>1. d # Unresolved
    BY UnresolvedIsNoPlace
  <2> QED
    BY <1>2, <2>1, ModsStay DEF Counted
<1>6. IsFiniteSet(Counted(v))
  <2>1. Counted(v) \subseteq ItemPlaces
    BY DEF Counted, References
  <2> QED
    BY <2>1, FinitePlaces, FS_Subset
<1>7. Cardinality(Counted(v) \cup {p}) = Cardinality(Counted(v)) + 1
  BY <1>4, <1>6, FS_AddElement
<1>8. localRefCount = [d \in DefPlaces |-> Cardinality(Counted(d))]
  BY DEF CountInv
<1>9. localRefCount' = [d \in DefPlaces |-> localRefCount'[d]]
  BY <1>8
<1>10. ASSUME NEW d \in DefPlaces PROVE localRefCount'[d] = Cardinality(Counted(d)')
  <2>1. CASE d = v
    <3>1. localRefCount'[v] = Cardinality(Counted(v)) + 1
      BY <1>8
    <3> QED
      BY <1>4, <1>7, <2>1, <3>1
  <2>2. CASE d # v
    BY <1>5, <1>8, <2>2
  <2> QED
    BY <2>1, <2>2
<1> QED
  BY <1>9, <1>10, ModsStay DEF CountInv

\* One to another module's is not, nor is one to nothing.
LEMMA OthersNotCounted ==
  ASSUME IsProgram(mods), mods' = mods, LinksInv, CountInv, NEW p \in References, links[p] = Unresolved,
         NEW v, v = Unresolved \/ IsExternal(p) \/ v[1] # p[1],
         links' = [links EXCEPT ![p] = v], localRefCount' = localRefCount
  PROVE  CountInv'
<1>1. p \in ItemPlaces /\ References \subseteq ItemPlaces
  BY DEF References
<1>2. links'[p] = v /\ \A q \in References \ {p} : links'[q] = links[q]
  BY <1>1 DEF LinksInv
<1>3. ASSUME NEW d \in DefPlaces PROVE Counted(d)' = Counted(d)
  <2>1. d # Unresolved
    BY UnresolvedIsNoPlace
  <2>2. p \notin Counted(d)
    BY <2>1 DEF Counted
  <2>3. \A q \in References : q \in Counted(d)' <=> q \in Counted(d)
    <3> SUFFICES ASSUME NEW q \in References PROVE q \in Counted(d)' <=> q \in Counted(d)
      OBVIOUS
    <3>1. CASE q = p
      <4>1. ~(links'[p] = d /\ ~IsExternal(p) /\ p[1] = d[1])
        BY <1>2, <2>1
      <4> QED
        BY <2>2, <3>1, <4>1, ModsStay DEF Counted
    <3>2. CASE q # p
      BY <1>2, <3>2, ModsStay DEF Counted
    <3> QED
      BY <3>1, <3>2
  <2>4. Counted(d)' \subseteq References /\ Counted(d) \subseteq References
    BY ModsStay DEF Counted
  <2> QED
    BY <2>3, <2>4
<1> QED
  BY <1>3, ModsStay DEF CountInv

\* What the four actions that link types have in common.
LEMMA TypesStep ==
  ASSUME TypesInv, LinksInv, NEW p \in todo, mods' = mods, imports' = imports, todo' = todo \ {p},
         IF p \in References THEN links' = [links EXCEPT ![p] = LinkOf(p)] ELSE links' = links,
         status \in [DOMAIN mods -> {"ok", "error"}],
         \/ status' = status /\ (IF p \in References THEN IsLocal(p) \/ IsImported(p) ELSE Selected(p))
         \/ status' = [status EXCEPT ![p[1]] = "error"] /\ Cause
  PROVE  /\ TypesInv' /\ LinksInv' /\ IsProgram(mods)' /\ ImportsInv(imports)'
         /\ status' \in [DOMAIN mods' -> {"ok", "error"}]
<1>1. p \in ItemPlaces /\ IsProgram(mods) /\ Parsed /\ ImportsInv(imports)
  BY DEF TypesInv, Parsed
<1>2. p[1] \in DOMAIN mods
  BY <1>1, PlacesAre
<1>3. links[p] = Unresolved
  BY DEF TypesInv
<1>4. /\ p \in References => links'[p] = LinkOf(p)
      /\ p \notin References => links'[p] = links[p]
      /\ \A q \in ItemPlaces \ {p} : links'[q] = links[q]
  BY <1>1 DEF LinksInv
<1>5. \A x \in ItemPlaces : links[x] # Unresolved => links'[x] = links[x]
  BY <1>3, <1>4
<1>6. LinksInv'
  <2>1. links' = [q \in ItemPlaces |-> links'[q]]
    BY DEF LinksInv
  <2>2. ASSUME NEW q \in ItemPlaces, links'[q] # Unresolved
        PROVE  q \in References /\ links'[q] = LinkOf(q) /\ links'[q] \in DefPlaces
    <3>1. CASE q = p /\ p \in References
      BY <1>1, <1>4, <2>2, <3>1, LinkOfIs
    <3>2. CASE ~(q = p /\ p \in References)
      <4>1. links'[q] = links[q]
        BY <1>4, <3>2
      <4> QED
        BY <2>2, <4>1 DEF LinksInv
    <3> QED
      BY <3>1, <3>2
  <2>3. \A q \in ItemPlaces' : links'[q] # Unresolved => q \in References' /\ links'[q] = LinkOf(q)' /\ links'[q] \in DefPlaces'
    BY <2>2, ModsStay, ListsStay
  <2> QED
    BY <2>1, <2>3, ModsStay DEF LinksInv
<1>7. status' \in [DOMAIN mods' -> {"ok", "error"}] /\ (AllOk' => AllOk /\ status' = status)
  <2>1. CASE status' = status
    BY <2>1 DEF AllOk
  <2>2. CASE status' = [status EXCEPT ![p[1]] = "error"]
    BY <1>2, <2>2 DEF AllOk
  <2> QED
    BY <2>1, <2>2
<1>8. ~AllOk' => Cause'
  <2>1. ~AllOk' => ~AllOk \/ Cause
    BY DEF AllOk
  <2>2. ~AllOk => Cause
    BY DEF TypesInv
  <2> QED
    BY <1>1, <1>5, <2>1, <2>2, LinkingKept
<1>9. ASSUME AllOk'
      PROVE  /\ NoListFails
             /\ \A q \in References \ todo' : IsLocal(q) \/ IsImported(q)
             /\ \A q \in (ItemPlaces \ References) \ todo' : Selected(q)'
  <2>1. AllOk
    BY <1>7, <1>9
  <2>2. IF p \in References THEN IsLocal(p) \/ IsImported(p) ELSE Selected(p)
    <3>1. status' # [status EXCEPT ![p[1]] = "error"]
      BY <1>2, <1>9 DEF AllOk
    <3> QED
      BY <3>1
  <2>3. /\ NoListFails
        /\ \A q \in References \ todo : IsLocal(q) \/ IsImported(q)
        /\ \A q \in (ItemPlaces \ References) \ todo : Selected(q)
    BY <2>1 DEF TypesInv
  <2>4. \A q \in (ItemPlaces \ References) \ todo' : Selected(q)
    BY <2>2, <2>3
  <2> QED
    BY <1>1, <1>5, <2>2, <2>3, <2>4, LinkingKept
<1>10. NoListFails' = NoListFails
  BY ListsStay DEF NoListFails
<1>11. (AllOk => /\ NoListFails
                 /\ \A q \in References \ todo : IsLocal(q) \/ IsImported(q)
                 /\ \A q \in (ItemPlaces \ References) \ todo : Selected(q))'
  BY <1>9, <1>10, ModsStay, ListsStay
<1>12. Parsed' /\ NamesUnique' /\ todo' \subseteq ItemPlaces' /\ IsProgram(mods)' /\ ImportsInv(imports)'
  BY <1>1, ModsStay, ListsStay DEF TypesInv
<1>13. (\A m \in DOMAIN mods : \A i \in DOMAIN imports[m] : Resolved(m, i))'
  BY ListsStay DEF TypesInv
<1>14. \A q \in todo' : links'[q] = Unresolved
  BY <1>4 DEF TypesInv
<1>15. \A q \in References' \ todo' : links'[q] = LinkOf(q)'
  <2> SUFFICES ASSUME NEW q \in References \ todo' PROVE links'[q] = LinkOf(q)
    BY ModsStay, ListsStay
  <2>1. CASE q = p
    BY <1>4, <2>1
  <2>2. CASE q # p
    <3>1. q \in References \ todo /\ q \in ItemPlaces
      BY <2>2 DEF References
    <3>2. links[q] = LinkOf(q)
      BY <3>1 DEF TypesInv
    <3> QED
      BY <1>4, <2>2, <3>1, <3>2
  <2> QED
    BY <2>1, <2>2
<1>16. TypesInv'
  BY <1>8, <1>11, <1>12, <1>13, <1>14, <1>15 DEF TypesInv
<1> QED
  BY <1>6, <1>7, <1>12, <1>16

LEMMA TypesAre ==
  ASSUME LinkInv, step = "types", NEW p \in todo, Takes(p)
  PROVE  /\ TypesInv /\ LinksInv /\ CountInv /\ Parsed /\ IsProgram(mods) /\ LinksTyped
         /\ status \in [DOMAIN mods -> {"ok", "error"}]
         /\ p \in ItemPlaces /\ (IsRefTo(p) <=> p \in References) /\ links[p] = Unresolved
         /\ todo' = todo \ {p} /\ \A q \in todo \ {p} : Earlier(p, q)
  BY DEF LinkInv, TypesInv, LinksInv, LinksTyped, References, Takes

LEMMA LinkLocalTypeRefKeeps ==
  ASSUME LinkInv, NEW p \in todo, LinkLocalTypeRef(p)
  PROVE  LinkInv'
<1> DEFINE v == Found(p[1], ItemAt(p).name)
<1>1. /\ step = "types" /\ Takes(p) /\ IsLocal(p) /\ IsRefTo(p) /\ mods' = mods /\ imports' = imports
      /\ status' = status /\ step' = step /\ links' = [links EXCEPT ![p] = v]
      /\ localRefCount' = [localRefCount EXCEPT ![v] = @ + 1]
  BY DEF LinkLocalTypeRef, IsLocal
<1>2. /\ TypesInv /\ LinksInv /\ CountInv /\ Parsed /\ IsProgram(mods)
      /\ status \in [DOMAIN mods -> {"ok", "error"}] /\ links[p] = Unresolved
      /\ p \in References /\ todo' = todo \ {p}
  BY <1>1, TypesAre
<1>3. LinkOf(p) = v
  BY <1>1 DEF LinkOf
<1>4. v \in DefPlaces /\ v[1] = p[1] /\ ~IsExternal(p)
  BY <1>1, <1>2, <1>3, LinkOfIs
<1> HIDE DEF v
<1>5. /\ TypesInv' /\ LinksInv' /\ IsProgram(mods)' /\ ImportsInv(imports)'
      /\ status' \in [DOMAIN mods' -> {"ok", "error"}]
  BY <1>1, <1>2, <1>3, TypesStep
<1>6. CountInv'
  BY <1>1, <1>2, <1>4, LocalCounted
<1> QED
  BY <1>1, <1>5, <1>6 DEF LinkInv

LEMMA LinkImportTypeRefKeeps ==
  ASSUME LinkInv, NEW p \in todo, LinkImportTypeRef(p)
  PROVE  LinkInv'
<1> DEFINE m == p[1]
           i == ImportList(p)
           e == ElmtOf(p)
<1>1. /\ step = "types" /\ Takes(p) /\ IsRefTo(p) /\ ~IsLocal(p) /\ IsImported(p) /\ mods' = mods /\ imports' = imports
      /\ status' = status /\ step' = step /\ links' = [links EXCEPT ![p] = ImportElmt(p).resolved]
      /\ localRefCount' = localRefCount
  BY DEF LinkImportTypeRef
<1>2. /\ TypesInv /\ LinksInv /\ CountInv /\ Parsed /\ IsProgram(mods)
      /\ status \in [DOMAIN mods -> {"ok", "error"}] /\ links[p] = Unresolved
      /\ p \in References /\ todo' = todo \ {p}
  BY <1>1, TypesAre
<1>3. ImportElmt(p).resolved = LinkOf(p)
  <2>1. i # 0
    BY <1>1 DEF IsImported
  <2>2. m \in DOMAIN mods /\ i \in DOMAIN imports[m] /\ e \in DOMAIN imports[m][i].elmts
    BY <1>2, <2>1, ImportOf
  <2>3. ImportElmt(p) = imports[m][i].elmts[e]
    BY DEF ImportElmt, ElmtOf
  <2>4. imports[m][i].elmts[e].resolved = TargetOf(m, i, e)
    BY <1>2, <2>2 DEF TypesInv, Resolved
  <2> QED
    BY <1>1, <2>3, <2>4 DEF LinkOf
<1>4. LinkOf(p) = Unresolved \/ IsExternal(p) \/ LinkOf(p)[1] # p[1]
  BY <1>1, <1>2, LinkOfIs
<1>5. links' = [links EXCEPT ![p] = LinkOf(p)]
  BY <1>1, <1>3
<1>6. /\ TypesInv' /\ LinksInv' /\ IsProgram(mods)' /\ ImportsInv(imports)'
      /\ status' \in [DOMAIN mods' -> {"ok", "error"}]
  BY <1>1, <1>2, <1>5, TypesStep
<1>7. CountInv'
  BY <1>1, <1>2, <1>4, <1>5, OthersNotCounted
<1> QED
  BY <1>1, <1>6, <1>7 DEF LinkInv

LEMMA NeitherDefinedNorImportedKeeps ==
  ASSUME LinkInv, NEW p \in todo, NeitherDefinedNorImported(p)
  PROVE  LinkInv'
<1>1. /\ step = "types" /\ Takes(p) /\ IsRefTo(p) /\ ~IsLocal(p) /\ ~IsImported(p) /\ mods' = mods /\ imports' = imports
      /\ status' = [status EXCEPT ![p[1]] = "error"] /\ step' = step /\ links' = links
      /\ localRefCount' = localRefCount
  BY DEF NeitherDefinedNorImported, Errs
<1>2. /\ TypesInv /\ LinksInv /\ CountInv /\ Parsed /\ IsProgram(mods)
      /\ status \in [DOMAIN mods -> {"ok", "error"}] /\ links[p] = Unresolved
      /\ p \in References /\ p \in ItemPlaces /\ todo' = todo \ {p}
  BY <1>1, TypesAre
<1>3. LinkOf(p) = Unresolved
  BY <1>1 DEF LinkOf
<1>4. Cause
  BY <1>2, <1>3 DEF Cause
<1>5. links' = [links EXCEPT ![p] = LinkOf(p)]
  BY <1>1, <1>2, <1>3 DEF LinksInv
<1>6. /\ TypesInv' /\ LinksInv' /\ IsProgram(mods)' /\ ImportsInv(imports)'
      /\ status' \in [DOMAIN mods' -> {"ok", "error"}]
  BY <1>1, <1>2, <1>4, <1>5, TypesStep
<1>7. CountInv'
  BY <1>1, <1>2, CountStays
<1> QED
  BY <1>1, <1>6, <1>7 DEF LinkInv

LEMMA LinkSelectionKeeps ==
  ASSUME LinkInv, NEW p \in todo, LinkSelection(p)
  PROVE  LinkInv'
<1> DEFINE choice == links[ChoiceOf(p)]
           Taken == choice # Unresolved /\ LookupFieldInType(choice, ItemAt(p).field)
<1>1. /\ step = "types" /\ Takes(p) /\ ~IsRefTo(p) /\ mods' = mods /\ imports' = imports
      /\ step' = step /\ links' = links /\ localRefCount' = localRefCount
      /\ IF Taken THEN status' = status ELSE status' = [status EXCEPT ![p[1]] = "error"]
  BY DEF LinkSelection, Errs, ChoiceOf
<1>2. /\ TypesInv /\ LinksInv /\ CountInv /\ Parsed /\ IsProgram(mods) /\ LinksTyped
      /\ status \in [DOMAIN mods -> {"ok", "error"}]
      /\ p \in ItemPlaces \ References /\ todo' = todo \ {p} /\ \A q \in todo \ {p} : Earlier(p, q)
  BY <1>1, TypesAre
<1>3. Taken => Selected(p)
  BY <1>2, SelectionTaken DEF Selected
<1>4. ~Taken => Cause
  <2> SUFFICES ASSUME ~Taken PROVE Cause
    OBVIOUS
  <2>1. \A q \in References \ todo : links[q] = LinkOf(q)
    BY <1>2 DEF TypesInv
  <2>2. \/ \E q \in References : LinkOf(q) = Unresolved
        \/ Waits(p)
        \/ \E f \in [0 .. LastHop -> DefPlaces] : LinkedPath(p, f, LastHop) /\ ~HasField(f[LastHop], p)
    BY <1>2, <2>1, SelectionFailed
  <2> QED
    BY <1>2, <2>2 DEF Cause
<1> HIDE DEF Taken
<1>5. /\ TypesInv' /\ LinksInv' /\ IsProgram(mods)' /\ ImportsInv(imports)'
      /\ status' \in [DOMAIN mods' -> {"ok", "error"}]
  BY <1>1, <1>2, <1>3, <1>4, TypesStep
<1>6. CountInv'
  BY <1>1, <1>2, CountStays
<1> QED
  BY <1>1, <1>5, <1>6 DEF LinkInv

-----------------------------------------------------------------------------
(* All steps                                                               *)

LEMMA UnchangedKeeps ==
  ASSUME LinkInv, UNCHANGED linkVars
  PROVE  LinkInv'
<1>1. /\ mods' = mods /\ imports' = imports /\ links' = links /\ localRefCount' = localRefCount
      /\ status' = status /\ step' = step /\ todo' = todo
  BY DEF linkVars
<1> USE <1>1
<1>2. IsProgram(mods)' /\ ImportsInv(imports)' /\ LinksInv' /\ CountInv' /\ status' \in [DOMAIN mods' -> {"ok", "error"}]
  BY ModsStay, ListsStay, LinksStay, CountStays DEF LinkInv
<1>3. AllOk' = AllOk
  BY DEF AllOk
<1>4. \A m, i : Unlinked(imports, m, i)' = Unlinked(imports, m, i)
  BY DEF Unlinked, Unresolved
<1>5. ParseInv => ParseInv'
  BY <1>3, <1>4, ModsStay, ListsStay DEF ParseInv, Unresolved
<1>6. ListsInv => ListsInv'
  BY <1>3, <1>4, ModsStay, ListsStay DEF ListsInv, Unresolved
<1>7. TypesInv => TypesInv'
  BY <1>3, ModsStay, ListsStay, LinkingStays DEF TypesInv, Unresolved
<1>8. CheckInv => CheckInv'
  BY ModsStay, ListsStay, LinkingStays DEF CheckInv
<1>9. DoneInv => DoneInv'
  BY ModsStay, ListsStay, LinkingStays DEF DoneInv
<1>10. RefusedInv => RefusedInv'
  BY ModsStay, ListsStay, LinkingStays DEF RefusedInv
<1> QED
  BY <1>2, <1>5, <1>6, <1>7, <1>8, <1>9, <1>10 DEF LinkInv

\* Whatever modules are given to the compiler: a program that it accepts has
\* every reference linked to a definition that its name denotes, and is right in
\* its imports, names and selections; one that it refuses is not right; but for
\* what NamesAreLinked excepts (link-types.c:160-740, err-chk.c:190-240).
THEOREM ProgramIsLinkedOrWrong == LinkSpec => []NamesAreLinked
<1>1. LinkInit => LinkInv
  BY InitKeeps
<1>2. LinkInv /\ [LinkNext]_linkVars => LinkInv'
  <2> SUFFICES ASSUME LinkInv, [LinkNext]_linkVars PROVE LinkInv'
    OBVIOUS
  <2>1. CASE UNCHANGED linkVars
    BY <2>1, UnchangedKeeps
  <2>2. ASSUME NEW p \in todo, AddPrivateImportElmt(p) PROVE LinkInv'
    BY <2>2, AddPrivateImportElmtKeeps
  <2>3. ASSUME NEW p \in todo, LinkImportList(p) PROVE LinkInv'
    BY <2>3, LinkImportListKeeps
  <2>4. ASSUME NEW p \in todo, LinkLocalTypeRef(p) PROVE LinkInv'
    BY <2>4, LinkLocalTypeRefKeeps
  <2>5. ASSUME NEW p \in todo, LinkImportTypeRef(p) PROVE LinkInv'
    BY <2>5, LinkImportTypeRefKeeps
  <2>6. ASSUME NEW p \in todo, NeitherDefinedNorImported(p) PROVE LinkInv'
    BY <2>6, NeitherDefinedNorImportedKeeps
  <2>7. ASSUME NEW p \in todo, LinkSelection(p) PROVE LinkInv'
    BY <2>7, LinkSelectionKeeps
  <2>8. ASSUME NEW p \in todo, ErrChkModule(p) PROVE LinkInv'
    BY <2>8, ErrChkModuleKeeps
  <2>9. CASE ModNamesUnique
    BY <2>9, ModNamesUniqueKeeps
  <2>10. CASE ImportListsLinked
    BY <2>10, ImportListsLinkedKeeps
  <2>11. CASE TypesLinked
    BY <2>11, TypesLinkedKeeps
  <2>12. CASE AllChecked
    BY <2>12, AllCheckedKeeps
  <2> QED
    BY <2>1, <2>2, <2>3, <2>4, <2>5, <2>6, <2>7, <2>8, <2>9, <2>10, <2>11, <2>12 DEF LinkNext
<1>3. LinkInv => NamesAreLinked
  BY LinkInvMeans
<1> QED
  BY <1>1, <1>2, <1>3, PTL DEF LinkSpec
=============================================================================
