----------------------------- MODULE LinkTypes -----------------------------
(***************************************************************************)
(* From the names that the modules of one call of the compiler use to the  *)
(* definitions they denote: the import lists that the parser makes, STEP 1 *)
(* and 2 of snacc.c, and the check for names defined twice in STEP 8.      *)
(*                                                                         *)
(* Every loop of link-types.c goes through lists in the order they have:   *)
(* todo is what the running loop has not come to.                          *)
(***************************************************************************)
EXTENDS Integers, Sequences, FiniteSets

CONSTANTS Programs,   \* the sequences of modules tried
          None        \* no object identifier, no module before the name

ASSUME NoneAssumption == \A p \in Programs : \A m \in DOMAIN p : p[m].name # None

\* What the parser makes of the files: a definition that is a reference has it
\* as its first item, and a selection has its reference before it.
IsSequence(s) == s \in Seq({s[i] : i \in DOMAIN s})
IsDefinition(def) ==
  /\ IsSequence(def.items)
  /\ def.kind = "ref" => def.items # <<>> /\ def.items[1].t = "ref"
  /\ \A k \in DOMAIN def.items : def.items[k].t # "ref" => k > 1 /\ def.items[k - 1].t = "ref"
IsProgram(p) ==
  /\ IsSequence(p)
  /\ \A m \in DOMAIN p :
       /\ IsSequence(p[m].imports) /\ \A i \in DOMAIN p[m].imports : IsSequence(p[m].imports[i].elmts)
       /\ IsSequence(p[m].defs) /\ \A d \in DOMAIN p[m].defs : IsDefinition(p[m].defs[d])

ASSUME ProgramsAssumption == \A p \in Programs : IsProgram(p)

VARIABLES
  mods,           \* allMods: [name, oid, imports, exports, defs]
  imports,        \* of each module: a sequence of [from, oid, elmts]
  links,          \* of each reference: the definition it is linked to
  localRefCount,  \* of each definition
  status,         \* of each module: "ok" or "error"
  step,           \* parse, imports, types, check, done or refused
  todo

linkVars == <<mods, imports, links, localRefCount, status, step, todo>>

-----------------------------------------------------------------------------
\* A definition is [name, kind, fields, items].  It is a reference, a CHOICE
\* (with fields) or something else; its items are what TypeLinkType comes to:
\* references [t, name, module] and selections [t, field], each behind the
\* reference to the CHOICE.  A definition has the place <<module, number>>, an
\* item that of its definition and its number there.
DefAt(p)  == mods[p[1]].defs[p[2]]
ItemAt(p) == DefAt(p).items[p[3]]

DefPlaces  == UNION {{<<m, d>> : d \in DOMAIN mods[m].defs} : m \in DOMAIN mods}
ItemPlaces == UNION {{<<p[1], p[2], k>> : k \in DOMAIN DefAt(p).items} : p \in DefPlaces}
ListPlaces == UNION {{<<m, i>> : i \in DOMAIN imports[m]} : m \in DOMAIN mods}

IsRefTo(p)    == ItemAt(p).t = "ref"
IsExternal(p) == IsRefTo(p) /\ ItemAt(p).module # None

Earlier(p, q) == \E i \in DOMAIN p : p[i] < q[i] /\ \A j \in 1..(i - 1) : p[j] = q[j]
Takes(p) ==
  /\ p \in todo /\ \A q \in todo \ {p} : Earlier(p, q)
  /\ todo' = todo \ {p}

\* The first of some places in a list, 0 when there is none.
FirstOf(S) == IF S = {} THEN 0 ELSE CHOOSE i \in S : \A j \in S : i <= j

LookupType(m, name) == FirstOf({d \in DOMAIN mods[m].defs : mods[m].defs[d].name = name})
LookupElmt(elmts, name) == FirstOf({e \in DOMAIN elmts : elmts[e].name = name})
LookupImportModule(m, name) == FirstOf({i \in DOMAIN imports[m] : imports[m][i].from = name})
LookupImportElmtInModule(m, name) ==
  FirstOf({i \in DOMAIN imports[m] : LookupElmt(imports[m][i].elmts, name) # 0})

\* By object identifier or by name, whichever is found first.
LookupModule(name, oid) ==
  FirstOf({m \in DOMAIN mods : (oid # None /\ mods[m].oid = oid) \/ mods[m].name = name})

\* SetExports: without an EXPORTS, here {None}, all is exported.
Exported(p) == {None, DefAt(p).name} \cap mods[p[1]].exports # {}

-----------------------------------------------------------------------------
(* The parser                                                              *)

Unresolved == <<>>
NewElmt(name, privateScope) == [name |-> name, privateScope |-> privateScope, resolved |-> Unresolved]
AsWritten(list) ==
  [from |-> list.from, oid |-> list.oid, elmts |-> [e \in DOMAIN list.elmts |-> NewElmt(list.elmts[e], FALSE)]]

LinkInit ==
  /\ mods \in Programs
  /\ imports = [m \in DOMAIN mods |-> [i \in DOMAIN mods[m].imports |-> AsWritten(mods[m].imports[i])]]
  /\ links = [p \in ItemPlaces |-> Unresolved]
  /\ localRefCount = [p \in DefPlaces |-> 0]
  /\ status = [m \in DOMAIN mods |-> "ok"]
  /\ step = "parse" /\ todo = {p \in ItemPlaces : IsExternal(p)}

\* In a list that was there already the element has no private scope.
AddPrivateImportElmt(p) ==
  LET m     == p[1]
      r     == ItemAt(p)
      lists == imports[m]
      i     == LookupImportModule(m, r.module)
  IN
  /\ step = "parse" /\ Takes(p)
  /\ imports' = [imports EXCEPT ![m] =
       IF i = 0
       THEN Append(lists, [from |-> r.module, oid |-> None, elmts |-> <<NewElmt(r.name, TRUE)>>])
       ELSE IF LookupElmt(lists[i].elmts, r.name) = 0
            THEN [lists EXCEPT ![i].elmts = Append(lists[i].elmts, NewElmt(r.name, FALSE))]
            ELSE lists]
  /\ UNCHANGED <<mods, links, localRefCount, status, step>>

-----------------------------------------------------------------------------
(* The modules and their import lists                                      *)

Conflicts(m, n) ==
  IF mods[m].oid # None THEN mods[n].oid = mods[m].oid ELSE mods[n].name = mods[m].name
NamesUnique == \A m \in DOMAIN mods, n \in DOMAIN mods : n < m => ~Conflicts(m, n)

ModNamesUnique ==
  /\ step = "parse" /\ todo = {}
  /\ IF NamesUnique THEN step' = "imports" /\ todo' = ListPlaces ELSE step' = "refused" /\ todo' = {}
  /\ UNCHANGED <<mods, imports, links, localRefCount, status>>

Found(m, name) == LET d == LookupType(m, name) IN IF d = 0 THEN Unresolved ELSE <<m, d>>

LinkImportList(p) ==
  LET list == imports[p[1]][p[2]]
      m    == LookupModule(list.from, list.oid)
      for(e) == Found(m, list.elmts[e].name)
  IN
  /\ step = "imports" /\ Takes(p)
  /\ status' = IF m # 0 /\ \A e \in DOMAIN list.elmts : for(e) # Unresolved /\ Exported(for(e))
               THEN status ELSE [status EXCEPT ![p[1]] = "error"]
  /\ imports' = IF m = 0 THEN imports
                ELSE [imports EXCEPT ![p[1]][p[2]].elmts =
                  [e \in DOMAIN list.elmts |-> [list.elmts[e] EXCEPT !.resolved = for(e)]]]
  /\ UNCHANGED <<mods, links, localRefCount, step>>

ImportListsLinked ==
  /\ step = "imports" /\ todo = {}
  /\ step' = "types" /\ todo' = ItemPlaces
  /\ UNCHANGED <<mods, imports, links, localRefCount, status>>

-----------------------------------------------------------------------------
(* The references                                                          *)

Errs(m) == status' = [status EXCEPT ![m] = "error"]

IsLocal(p) == IsRefTo(p) /\ ItemAt(p).module = None /\ LookupType(p[1], ItemAt(p).name) # 0

LinkLocalTypeRef(p) ==
  LET def == Found(p[1], ItemAt(p).name) IN
  /\ step = "types" /\ Takes(p) /\ IsLocal(p)
  /\ links' = [links EXCEPT ![p] = def]
  /\ localRefCount' = [localRefCount EXCEPT ![def] = @ + 1]
  /\ UNCHANGED <<mods, imports, status, step>>

\* The element of the import lists for a reference; a private one is only for
\* references with the module's name.
ImportList(p) ==
  IF IsExternal(p) THEN LookupImportModule(p[1], ItemAt(p).module)
  ELSE LookupImportElmtInModule(p[1], ItemAt(p).name)
ImportElmt(p) ==
  LET elmts == imports[p[1]][ImportList(p)].elmts IN elmts[LookupElmt(elmts, ItemAt(p).name)]

\* A mutant: an element with private scope is for all references.
IsImportedPrivateToo(p) == ImportList(p) # 0

IsImported(p) == ImportList(p) # 0 /\ (IsExternal(p) \/ ~ImportElmt(p).privateScope)

LinkImportTypeRef(p) ==
  /\ step = "types" /\ Takes(p) /\ IsRefTo(p) /\ ~IsLocal(p) /\ IsImported(p)
  /\ links' = [links EXCEPT ![p] = ImportElmt(p).resolved]
  /\ UNCHANGED <<mods, imports, localRefCount, status, step>>

NeitherDefinedNorImported(p) ==
  /\ step = "types" /\ Takes(p) /\ IsRefTo(p) /\ ~IsLocal(p) /\ ~IsImported(p)
  /\ Errs(p[1])
  /\ UNCHANGED <<mods, imports, links, localRefCount, step>>

\* What a definition is when its references are followed, as far as they are
\* linked; on a circle it stays a reference.
Follow(d) ==
  LET ref == <<d[1], d[2], 1>> IN
  IF DefAt(d).kind = "ref" /\ links[ref] # Unresolved THEN links[ref] ELSE d
Hops == 0..Cardinality(DefPlaces)
Following(d) == LET after[n \in Hops] == IF n = 0 THEN d ELSE Follow(after[n - 1]) IN after
ParanoidGetType(d) == Following(d)[Cardinality(DefPlaces)]

LookupFieldInType(d, field) ==
  LET def == DefAt(ParanoidGetType(d)) IN def.kind = "choice" /\ field \in def.fields

LinkSelection(p) ==
  LET choice == links[<<p[1], p[2], p[3] - 1>>] IN
  /\ step = "types" /\ Takes(p) /\ ~IsRefTo(p)
  /\ IF choice # Unresolved /\ LookupFieldInType(choice, ItemAt(p).field) THEN UNCHANGED status ELSE Errs(p[1])
  /\ UNCHANGED <<mods, imports, links, localRefCount, step>>

Refused == \E m \in DOMAIN mods : status[m] = "error"

TypesLinked ==
  /\ step = "types" /\ todo = {}
  /\ IF Refused THEN step' = "refused" /\ UNCHANGED todo
     ELSE step' = "check" /\ todo' = {<<m>> : m \in DOMAIN mods}
  /\ UNCHANGED <<mods, imports, links, localRefCount, status>>

-----------------------------------------------------------------------------
\* The names of a module, private ones left out, are different.
NamesIn(m) ==
  LET elmts(i) == {<<i, e>> : e \in {x \in DOMAIN imports[m][i].elmts : ~imports[m][i].elmts[x].privateScope}}
  IN {<<0, d>> : d \in DOMAIN mods[m].defs} \cup UNION {elmts(i) : i \in DOMAIN imports[m]}
NameOf(m, x) == IF x[1] = 0 THEN mods[m].defs[x[2]].name ELSE imports[m][x[1]].elmts[x[2]].name
MultiplyDefined(m) == \E x, y \in NamesIn(m) : x # y /\ NameOf(m, x) = NameOf(m, y)

ErrChkModule(p) ==
  /\ step = "check" /\ Takes(p)
  /\ IF MultiplyDefined(p[1]) THEN Errs(p[1]) ELSE UNCHANGED status
  /\ UNCHANGED <<mods, imports, links, localRefCount, step>>

AllChecked ==
  /\ step = "check" /\ todo = {}
  /\ step' = IF Refused THEN "refused" ELSE "done"
  /\ UNCHANGED <<mods, imports, links, localRefCount, status, todo>>

LinkNext ==
  \/ \E p \in todo : \/ AddPrivateImportElmt(p) \/ LinkImportList(p)
                     \/ LinkLocalTypeRef(p) \/ LinkImportTypeRef(p) \/ NeitherDefinedNorImported(p)
                     \/ LinkSelection(p) \/ ErrChkModule(p)
  \/ ModNamesUnique \/ ImportListsLinked \/ TypesLinked \/ AllChecked

LinkSpec == LinkInit /\ [][LinkNext]_linkVars

-----------------------------------------------------------------------------
(* What the names denote, from the modules as they are written             *)

\* An object identifier decides, if there is one and it is known.
ModulesMeant(name, oid) ==
  LET byOid == {m \in DOMAIN mods : oid # None /\ mods[m].oid = oid}
  IN IF byOid # {} THEN byOid ELSE {m \in DOMAIN mods : mods[m].name = name}

Named(ms, name) == {p \in DefPlaces : p[1] \in ms /\ DefAt(p).name = name}

\* The IMPORTS of module m that F says something of.
Written(m, F(_)) == {list \in {mods[m].imports[i] : i \in DOMAIN mods[m].imports} : F(list)}

ImportedInto(m, name) ==
  LET Has(list) == \E e \in DOMAIN list.elmts : list.elmts[e] = name
  IN UNION {Named(ModulesMeant(list.from, list.oid), name) : list \in Written(m, Has)}

\* A module's name before a reference: an import list may say which module is
\* meant.
Denoted(p) ==
  LET m == p[1]
      r == ItemAt(p)
      IsFrom(list) == list.from = r.module
      ms == UNION {ModulesMeant(list.from, list.oid) : list \in Written(m, IsFrom)}
  IN IF IsExternal(p) THEN Named(IF Written(m, IsFrom) = {} THEN ModulesMeant(r.module, None) ELSE ms, r.name)
     ELSE IF Named({m}, r.name) # {} THEN Named({m}, r.name) ELSE ImportedInto(m, r.name)

References == {p \in ItemPlaces : IsRefTo(p)}

WrittenNames(m) ==
  {<<0, d>> : d \in DOMAIN mods[m].defs}
    \cup UNION {{<<i, e>> : e \in DOMAIN mods[m].imports[i].elmts} : i \in DOMAIN mods[m].imports}

\* An external reference whose module has an import list already adds to it
\* for all references (snacc-util.c:193-200).
Leaked(m, name) ==
  \E i \in DOMAIN imports[m] : \E e \in DOMAIN imports[m][i].elmts :
    /\ imports[m][i].elmts[e].name = name /\ ~imports[m][i].elmts[e].privateScope
    /\ i \notin DOMAIN mods[m].imports \/ e \notin DOMAIN mods[m].imports[i].elmts

\* Such an element has the name of another element or of a definition.
LeakClashes(m) ==
  \E x \in NamesIn(m) \ WrittenNames(m), y \in NamesIn(m) : x # y /\ NameOf(m, x) = NameOf(m, y)

\* A module with the name is found before the one with the object identifier
\* (snacc-util.c:592-598).
NameFirst(m) ==
  \E i \in DOMAIN imports[m] :
    LET list == imports[m][i] IN LookupModule(list.from, list.oid) \notin ModulesMeant(list.from, list.oid) \cup {0}

\* A selection comes through a reference that is linked after it
\* (link-types.c:655-662).
LinkedLater(p) ==
  LET choice == links[<<p[1], p[2], p[3] - 1>>] IN
  /\ ~IsRefTo(p) /\ choice # Unresolved
  /\ \E n \in Hops : LET d == Following(choice)[n] IN DefAt(d).kind = "ref" /\ Earlier(p, <<d[1], d[2], 1>>)

SameId(m, n)   == mods[m].oid = mods[n].oid
SameName(m, n) == mods[m].name = mods[n].name
ModulesRight ==
  \A m, n \in DOMAIN mods : m # n => IF mods[m].oid = None THEN ~SameName(m, n) ELSE ~SameId(m, n)
\* An import list means one module, and lists from one name the same.
ModulesKnown ==
  \A m \in DOMAIN mods : \A i \in DOMAIN imports[m] :
    LET Meant(j) == ModulesMeant(imports[m][j].from, imports[m][j].oid) IN
    \E n \in DOMAIN mods :
      \A j \in DOMAIN imports[m] : imports[m][j].from = imports[m][i].from => Meant(j) = {n}

WrittenName(m, x) == IF x[1] = 0 THEN mods[m].defs[x[2]].name ELSE mods[m].imports[x[1]].elmts[x[2]]
NamesRight ==
  \A m \in DOMAIN mods : \A x, y \in WrittenNames(m) : WrittenName(m, x) = WrittenName(m, y) => x = y

ImportsRight(m) ==
  \A i \in DOMAIN mods[m].imports :
    LET list == mods[m].imports[i]
        meant(e) == Named(ModulesMeant(list.from, list.oid), list.elmts[e])
    IN \A e \in DOMAIN list.elmts : \E p \in meant(e) : Exported(p)

ReferencesRight ==
  \A p \in References : Denoted(p) # {} /\ (IsExternal(p) => \A d \in Denoted(p) : Exported(d))

\* What a selection selects from, when references are followed by what they
\* denote.
Behind(defs) ==
  UNION {IF DefAt(d).kind = "ref" THEN Denoted(<<d[1], d[2], 1>>) ELSE {d} : d \in defs}
SelectedFrom(p) ==
  LET defs[n \in Hops] == IF n = 0 THEN Denoted(<<p[1], p[2], p[3] - 1>>) ELSE Behind(defs[n - 1])
  IN defs[Cardinality(DefPlaces)]
SelectionsRight ==
  \A p \in ItemPlaces \ References :
    \E d \in SelectedFrom(p) : DefAt(d).kind = "choice" /\ ItemAt(p).field \in DefAt(d).fields

ProgramRight ==
  /\ ModulesRight /\ ModulesKnown /\ NamesRight
  /\ \A m \in DOMAIN mods : ImportsRight(m)
  /\ ReferencesRight /\ SelectionsRight

LinkedAsDenoted(p) == links[p] \in Denoted(p) \/ Leaked(p[1], ItemAt(p).name) \/ NameFirst(p[1])

ModulesDiffer ==
  \A m, n \in DOMAIN mods : m # n /\ SameId(m, n) => mods[m].oid = None /\ ~SameName(m, n)

ReferencesCounted ==
  \A d \in DefPlaces : localRefCount[d] =
    Cardinality({p \in References : links[p] = d /\ ~IsExternal(p) /\ p[1] = d[1]})

AcceptedIsRight ==
  /\ \A p \in References : LinkedAsDenoted(p)
  /\ \A m \in DOMAIN mods : ImportsRight(m) \/ NameFirst(m)
  /\ ModulesDiffer /\ NamesRight
  /\ SelectionsRight \/ \E p \in References : Leaked(p[1], ItemAt(p).name) \/ NameFirst(p[1])
  /\ ReferencesCounted

RefusedIsWrong ==
  \/ ~ProgramRight
  \/ \E m \in DOMAIN mods : NameFirst(m) \/ LeakClashes(m)
  \/ \E p \in ItemPlaces : LinkedLater(p)

\* A program that is accepted has every reference linked to a definition it
\* denotes, and is right in its imports, its names and its selections; one
\* that is refused is not right: whatever the order of modules, lists and
\* definitions, and whatever the parser added to the lists (link-types.c:160-225,
\* err-chk.c:190-240).  The exceptions are what the code is known to do
\* otherwise: an import that was to be private, a module found by its name
\* before the one with the object identifier, a selection linked too early.
NamesAreLinked == (step = "done" => AcceptedIsRight) /\ (step = "refused" => RefusedIsWrong)
=============================================================================
