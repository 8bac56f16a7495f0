------------------------------ MODULE Compiler ------------------------------
(***************************************************************************)
(* The passes of snacc.c over one module from STEP 7 to STEP 10: recursive *)
(* definitions are marked, the back end asks for the built-in type of each *)
(* definition, the definitions are sorted.                                 *)
(***************************************************************************)
EXTENDS Recursive, Dependency

CONSTANTS
  Module,     \* the modules tried: the values of "types"
  Target      \* the back ends tried

ASSUME ModuleAssumption == \A defs \in Module : IsModule(defs)

VARIABLES
  asked,      \* the definition FillCTDIDefaults is at: 0 before the first
  linked      \* the definition GetType has come to: 0 when it is not running

vars == <<types, target, recursive, recursiveVars, dependencyVars, asked, linked>>

Init ==
  /\ types \in Module
  /\ target \in Target
  /\ recursive = {}
  /\ RecursiveInit
  /\ DependencyInit
  /\ asked = 0
  /\ linked = 0

Mark ==
  /\ RecursiveNext
  /\ UNCHANGED <<types, target, dependencyVars, asked, linked>>

(***************************************************************************)
(* FillCTypeInfo, FillCxxTypeInfo: GetBuiltinType of every definition      *)
(***************************************************************************)
AllTypesFilled == asked = Len(types) /\ linked = 0

FillTDIDefaults ==
  /\ AllMarked
  /\ linked = 0
  /\ asked < Len(types)
  /\ asked' = asked + 1
  /\ linked' = asked + 1
  /\ UNCHANGED <<types, target, recursive, recursiveVars, dependencyVars>>

GetTypeFollows ==
  /\ linked # 0
  /\ IsRef(linked)
  /\ linked' = Link(linked)
  /\ UNCHANGED <<types, target, recursive, recursiveVars, dependencyVars, asked>>

GetTypeReturns ==
  /\ linked # 0
  /\ ~IsRef(linked)
  /\ linked' = 0
  /\ UNCHANGED <<types, target, recursive, recursiveVars, dependencyVars, asked>>

Sort ==
  /\ AllMarked
  /\ AllTypesFilled
  /\ DependencyNext
  /\ UNCHANGED <<types, target, recursive, recursiveVars, asked, linked>>

Next == Mark \/ FillTDIDefaults \/ GetTypeFollows \/ GetTypeReturns \/ Sort

Spec == Init /\ [][Next]_vars

\* The compiler is one process that nothing interrupts.
FairSpec == Spec /\ WF_vars(Next)

(***************************************************************************)
(* Properties of the marking                                               *)
(***************************************************************************)
Flagged == recursive \cup noValues \cup infinite

\* Types: the definitions named by any variable are those of the module, and
\* the place in a list is one of its places.
TypeOK ==
  /\ original \in 0 .. Len(types)
  /\ Flagged \cup entered \subseteq TypeDefs
  /\ \A i \in DOMAIN frames :
       /\ frames[i].td \in TypeDefs
       /\ frames[i].at \in 1 .. Len(ElementsOf(frames[i].td)) + 1
  /\ asked \in 0 .. Len(types)
  /\ linked \in 0 .. Len(types)
  /\ at \in 0 .. Len(tdl)
  /\ sorting \in Phase
  /\ \A list \in {prims, noRefs, notRefd, tdl, subList, linear, nonRec, rec, sortedNonRec,
                 cLists, typeDefs} : ToSet(list) \subseteq TypeDefs

\* The marks are the path the walk is on: a definition is entered once, and
\* no mark outlives the walk it was set by (recursive.c:194-210).
EnteredIsPath ==
  /\ entered = {frames[i].td : i \in 2 .. Len(frames)}
  /\ \A i, j \in DOMAIN frames : frames[i].td = frames[j].td => i = j

Finished(td) == td < original \/ (td = original /\ frames = << >>)

\* A definition is marked if and only if it reaches itself, whatever
\* cycles through other definitions its walk has met (recursive.c:90-104); one
\* that is warned of has no value of finite size, and one that "can hold no
\* values" is nothing but itself (recursive.c:176-187).
RecursiveFound ==
  /\ \A td \in TypeDefs : Finished(td) => (td \in recursive <=> OnCycle(RefsOf, td))
  /\ \A td \in noValues : OnCycle(NothingBut, td)
  /\ (noValues \cup infinite) \cap Finite = {}

ChoicesHaveAWayOut ==
  \A td \in TypeDefs : types[td].kind = "choice" /\ Arity(td) > 1 => types[td].others > 0

\* When a definition has no finite value, one it is made of is warned of,
\* unless every alternative of a CHOICE of several is to blame: the walk takes
\* those for optional (recursive.c:133-141).  So the user knows of the circles of
\* references on which the loop of GetType does not end (snacc-util.c:688).
InfinityWarned ==
  /\ AllMarked /\ ChoicesHaveAWayOut =>
       \A td \in TypeDefs \ Finite :
         (ReachedBy(RefsOf, td) \cup {td}) \cap (noValues \cup infinite) # {}
  /\ linked # 0 /\ ~HasBuiltin(linked) => ReachedBy(NothingBut, linked) \cap noValues # {}

(***************************************************************************)
(* Properties of the sorting                                               *)
(***************************************************************************)
Place(td) == CHOOSE i \in DOMAIN typeDefs : typeDefs[i] = td
Before(a, b) == Place(a) < Place(b)
Done == sorting = "done"

\* The module has every definition once when it is sorted, whichever lists
\* it went through (dependency.c:474-482 and 196-205).
NothingLost ==
  Done => Len(typeDefs) = Len(types) /\ ToSet(typeDefs) = TypeDefs

\* What a call takes out depends on nothing it left or took out later
\* (dependency.c:281-307).
TakenInOrder ==
  Calling =>
    \A i \in DOMAIN subList :
      RefList(subList[i]) \cap (ToSet(tdl) \cup {subList[j] : j \in i+1 .. Len(subList)}) = {}

\* A definition that is not recursive comes after all it refers to, the
\* recursive ones among them (dependency.c:330-335, 345); none of them is
\* left over: "there should be no problems (ie unsorted leftovers) since
\* none of them are recursive" (dependency.c:335).
ReferredFirst ==
  /\ Returns("nonRec") => tdl = << >>
  /\ Done => \A td \in TypeDefs \ recursive : \A d \in RefsOf(td) : Before(d, td)

Unknotted(td) ==
  \A d \in ReachedBy(ByValueRefsOf, td) \cup {td} : ~OnCycle(ByValueRefsOf, d)

\* A recursive definition comes after the recursive ones it contains by
\* value, unless it contains a knot of them (dependency.c:337-341).
ByValueFirst ==
  Done => \A td \in recursive :
            Unknotted(td) => \A d \in ByValueRefsOf(td) \cap recursive : Before(d, td)

\* A module whose references all lead to a built-in type is compiled.
Terminates == (\A td \in TypeDefs : HasBuiltin(td)) ~> Done

(***************************************************************************)
(* What the comments promise and the code does not keep                    *)
(***************************************************************************)

\* "Sorts type dependencies by reodering TypeDefs linear list with least
\* dependent types followed by dependent types" (dependency.c:79-80): what
\* a definition contains by value comes before it.
DeclaredBeforeUse ==
  Done => \A td \in TypeDefs :
            Unknotted(td) => \A d \in ByValueRefsOf(td) : Before(d, td)

=============================================================================
