----------------------------- MODULE MCCompiler -----------------------------
(***************************************************************************)
(* Every module of three definitions with up to two references each, the   *)
(* second of them in a few forms, and modules of four definitions around   *)
(* two cycles; and programs of two or three modules whose names are linked.*)
(* The names and the passes share nothing here: one of the two is explored *)
(* at a time.                                                              *)
(***************************************************************************)
EXTENDS Compiler, LinkTypes

Of(kind, refs, others) == [kind |-> kind, refs |-> refs, others |-> others]
Ref(to) == [to |-> to, opt |-> FALSE]
Opt(to) == [to |-> to, opt |-> TRUE]

Library == Of("library", << >>, 1)

Definition(N) ==
  {Library, Of("sequence", << >>, 1)}
    \cup UNION {{Of("ref", <<Ref(i)>>, 0),
                 Of("list", <<Ref(i)>>, 0),
                 Of("choice", <<Ref(i)>>, 1),
                 Of("sequence", <<Ref(i)>>, 0),
                 Of("sequence", <<Opt(i)>>, 0)} : i \in N}
    \cup {Of("sequence", <<Opt(p[1]), Ref(p[2])>>, 0) :
            p \in {q \in N \X N : q[1] < q[2]}}

MCTarget == {"C", "C++"}

Three == [1..3 -> Definition(1..3)]

\* Definitions a and b refer to each other, n refers to one of them, and r,
\* often recursive, to n: in every order.
Order == {p \in [{"r", "n", "a", "b"} -> 1..4] : \A x, y \in DOMAIN p : p[x] = p[y] => x = y}

Roles(p) ==
  [r : {Of("sequence", <<Ref(p.n), Opt(p.r)>>, 0), Of("choice", <<Ref(p.r), Ref(p.n)>>, 0),
        Of("set", <<Ref(p.n), Ref(p.a)>>, 0)},
   n : {Of("sequence", <<Ref(p.a)>>, 0), Of("sequence", <<Opt(p.r), Ref(p.a)>>, 0),
        Of("ref", <<Ref(p.a)>>, 0)},
   a : {Of("sequence", <<Opt(p.b)>>, 0), Of("choice", <<Ref(p.b)>>, 0)},
   b : {Of("list", <<Ref(p.a)>>, 0), Of("sequence", <<Ref(p.a), Opt(p.n)>>, 0)}]

RoleAt(p, d) == CHOOSE x \in DOMAIN p : p[x] = d

Four == UNION {{[d \in 1..4 |-> f[RoleAt(p, d)]] : f \in Roles(p)} : p \in Order}

MCModule == Three \cup Four

-----------------------------------------------------------------------------
\* Programs: A, with what it may define and import, and a module B.
Local(name)       == [t |-> "ref", name |-> name, module |-> None]
Extern(m, name)   == [t |-> "ref", name |-> name, module |-> m]
Select(field)     == [t |-> "selection", field |-> field]
Body(kind, items) == [kind |-> kind, fields |-> IF kind = "choice" THEN {"x"} ELSE {}, items |-> items]
AChoice           == Body("choice", <<>>)
Def(name, body)   == [name |-> name, kind |-> body.kind, fields |-> body.fields, items |-> body.items]
From(m, oid, elmts) == [from |-> m, oid |-> oid, elmts |-> elmts]
Mod(name, oid, imps, exports, defs) ==
  [name |-> name, oid |-> oid, imports |-> imps, exports |-> exports, defs |-> defs]

Bodies ==
  {AChoice, Body("ref", <<Local("T")>>), Body("ref", <<Local("U")>>), Body("ref", <<Extern("B", "T")>>),
   Body("other", <<Extern("B", "U"), Local("U"), Select("x")>>), Body("other", <<Extern("A", "T")>>),
   Body("other", <<Local("T"), Select("x")>>), Body("other", <<Extern("B", "U"), Select("x")>>)}
DefsOfA ==
  {<<Def(n, b)>> : n \in {"T", "U", "V"}, b \in Bodies}
    \cup {<<Def(n[1], b), Def(n[2], c)>> : n \in {<<"T", "U">>, <<"U", "T">>}, b \in Bodies, c \in Bodies}
ListsOfA ==
  {<<>>, <<From("B", None, <<"T">>)>>, <<From("B", None, <<"U">>)>>, <<From("B", None, <<"T", "U">>)>>,
   <<From("N", None, <<"T">>)>>}

All == {None}
SomeB ==
  {Mod("B", None, <<>>, {"T"}, <<Def("T", AChoice), Def("U", AChoice)>>),
   Mod("B", None, <<>>, All, <<Def("T", Body("ref", <<Local("U")>>)), Def("U", AChoice)>>),
   Mod("B", None, <<From("A", None, <<"T">>)>>, All,
       <<Def("U", Body("other", <<Extern("A", "T"), Select("x")>>)), Def("V", Body("ref", <<Extern("A", "T")>>))>>),
   Mod("B", None, <<>>, {"U"}, <<Def("U", AChoice), Def("U", Body("ref", <<Local("T")>>))>>)}

\* Imports by an object identifier, and modules that may or may not be meant.
ByOid ==
  {Mod("A", None, <<From("B", o, <<"T">>)>>, All, <<Def("U", b)>>) :
     o \in {None, "o1", "o2"}, b \in {Body("ref", <<Local("T")>>), Body("other", <<Extern("B", "T")>>)}}
Candidates ==
  {Mod(n, o, <<>>, All, <<Def(d, AChoice)>>) : n \in {"A", "B", "C"}, o \in {None, "o1", "o2"}, d \in {"T", "V"}}

\* Several lists from one name, and the modules of that name.
SeveralLists ==
  {Mod("A", None, l, All, <<Def("V", b)>>) :
     l \in {<<From("B", None, <<"T">>), From("C", None, <<"U">>)>>, <<From("B", None, <<"U">>)>>,
            <<From("B", "o1", <<"T">>), From("B", "o2", <<"U">>)>>, <<From("B", "o2", <<"U">>), From("B", "o1", <<"T">>)>>},
     b \in {Body("ref", <<Extern("B", "U")>>), Body("other", <<Extern("B", "U"), Local("U"), Select("x")>>)}}
Namesakes ==
  {Mod("B", o, <<>>, e, ds) : o \in {None, "o1"}, e \in {All, {"T"}},
     ds \in {<<Def("T", AChoice)>>, <<Def("T", AChoice), Def("U", Body("ref", <<Local("T")>>))>>}}

NoPrograms == {<<>>}
MCPrograms ==
  LET two   == {Mod("A", None, l, All, d) : l \in ListsOfA, d \in DefsOfA} \X SomeB
      three == (ByOid \X Candidates \X Candidates) \cup (SeveralLists \X Namesakes \X Namesakes)
  IN NoPrograms \cup two \cup {<<p[2], p[1]>> : p \in two}
       \cup three \cup {<<p[2], p[3], p[1]>> : p \in three}

-----------------------------------------------------------------------------
\* A definition that is a reference to itself: the passes are not run on it.
Alone == [d \in 1..3 |-> Of("ref", <<Ref(d)>>, 0)]

MCVars == <<vars, linkVars>>
MCInit == \/ mods = <<>> /\ LinkInit /\ Init
          \/ types = Alone /\ target = "C" /\ Init /\ LinkInit
MCNext == \/ mods # <<>> /\ LinkNext /\ UNCHANGED vars
          \/ mods = <<>> /\ Next /\ UNCHANGED linkVars
MCSpec == MCInit /\ [][MCNext]_MCVars /\ WF_MCVars(MCNext)
=============================================================================
