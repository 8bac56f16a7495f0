----------------------------- MODULE Dependency -----------------------------
(***************************************************************************)
(* SortTypeDependencies (compiler/core/dependency.c): the definitions of a *)
(* module are put in an order in which the generated code can declare      *)
(* them.  RemoveAndSortIndependents is called up to three times, on the    *)
(* definitions that refer to others ("all"), on those of the rest that are *)
(* not recursive ("nonRec"), and on the recursive ones with only the       *)
(* references by value counted ("weighted").                               *)
(***************************************************************************)
EXTENDS TypeGraph, SequencesExt

VARIABLES
  sorting,      \* where the pass is: see Phase
  prims,        \* the four groups: definitions by a library type
  noRefs,       \* ... that refer to none
  notRefd,      \* ... that none refers to
  tdl,          \* ... the others, and later the list a call sorts
  subList,      \* what RemoveAndSortIndependents has taken out of tdl
  at,           \* the place in tdl of currTd, or 0 at the head of a loop
  last,         \* the definition that ends a round
  lastSLCount,  \* the length of subList before the round
  linear,       \* what the first call took out ("A")
  nonRec,       \* the definitions the first call left that are not recursive
  rec,          \* the others, while nonRec is sorted
  sortedNonRec, \* nonRec, sorted ("C")
  cLists,       \* the lists among the recursive ones, when the target is C
  typeDefs      \* m->typeDefs, in the new order at the end

groups == <<prims, noRefs, notRefd>>
call   == <<subList, at, last, lastSLCount>>
lists  == <<linear, nonRec, rec, sortedNonRec, cLists>>

dependencyVars == <<sorting, groups, tdl, call, lists, typeDefs>>

Calling == sorting \in {"all", "nonRec", "weighted"}
Phase == {"group", "divide", "strip", "done"} \cup {"all", "nonRec", "weighted"}

DependencyInit ==
  /\ sorting = "group"
  /\ prims = << >> /\ noRefs = << >> /\ notRefd = << >> /\ tdl = << >>
  /\ subList = << >> /\ at = 0 /\ last = 0 /\ lastSLCount = -1
  /\ linear = << >> /\ nonRec = << >> /\ rec = << >>
  /\ sortedNonRec = << >> /\ cLists = << >>
  /\ typeDefs = [td \in TypeDefs |-> td]

(***************************************************************************)
(* SortTypeDependencies: the four groups                                   *)
(***************************************************************************)
IsDefinedByLibraryType(td) == types[td].kind = "library"

\* localRefCount, which link-types.c and normalize.c count: references that
\* normalisation has since expanded (COMPONENTS OF) are left out here.
Referenced(td) == \E d \in TypeDefs : td \in RefsOf(d)

Grouped == Len(prims) + Len(noRefs) + Len(notRefd) + Len(tdl)

\* A group grows by the definition that comes next, if that is its place.
Grows(group, belongs) == IF belongs THEN Append(group, Grouped + 1) ELSE group

GroupTypeDef ==
  /\ sorting = "group"
  /\ Grouped < Len(types)
  /\ LET td == Grouped + 1
         library == IsDefinedByLibraryType(td)
         refd == ~library /\ Referenced(td)
     IN  /\ prims'   = Grows(prims, library)
         /\ notRefd' = Grows(notRefd, ~library /\ ~refd)
         /\ noRefs'  = Grows(noRefs, refd /\ RefsOf(td) = {})
         /\ tdl'     = Grows(tdl, refd /\ RefsOf(td) # {})
  /\ UNCHANGED <<sorting, call, lists, typeDefs>>

(***************************************************************************)
(* RemoveAndSortIndependents                                               *)
(***************************************************************************)
Call(which) ==
  /\ sorting' = which
  /\ subList' = << >>
  /\ at' = 0
  /\ lastSLCount' = -1
  /\ UNCHANGED last

\* A mutant: the references by pointer still count in the last call.
RefListUnweighted(td) == RefsOf(td)

RefList(td) == IF sorting = "weighted" THEN ByValueRefsOf(td) ELSE RefsOf(td)

\* A mutant: a round that took nothing out is followed by another.
ProgressedAlways == TRUE

Progressed == Len(subList) > lastSLCount

StartRound ==
  /\ Calling
  /\ at = 0
  /\ tdl # << >>
  /\ Progressed
  /\ lastSLCount' = Len(subList)
  /\ last' = tdl[Len(tdl)]
  /\ at' = 1
  /\ UNCHANGED <<sorting, groups, tdl, subList, lists, typeDefs>>

\* A mutant: only the definitions still to come in the round count.
MustStayForLater(td) == RefList(td) \cap {tdl[i] : i \in at + 1 .. Len(tdl)} # {}

\* keep: currTd names another definition that is still in the list.
MustStay(td) == RefList(td) \cap (ToSet(tdl) \ {td}) # {}

\* A mutant: the round goes on after its last definition is removed.
TakeOutPastLast == tdl' = RemoveAt(tdl, at) /\ at' = at

\* currTd is left where it is, or removed, and the loop goes on to the next one
\* or, after the last one, out.
GoOn == tdl' = tdl /\ at' = IF tdl[at] = last THEN 0 ELSE at + 1
TakeOut == tdl' = RemoveAt(tdl, at) /\ at' = IF tdl[at] = last THEN 0 ELSE at

KeepTypeDef ==
  /\ Calling
  /\ at > 0
  /\ MustStay(tdl[at])
  /\ GoOn
  /\ UNCHANGED <<sorting, groups, subList, last, lastSLCount, lists, typeDefs>>

TakeTypeDef ==
  /\ Calling
  /\ at > 0
  /\ ~MustStay(tdl[at])
  /\ subList' = Append(subList, tdl[at])
  /\ TakeOut
  /\ UNCHANGED <<sorting, groups, last, lastSLCount, lists, typeDefs>>

Returns(which) ==
  /\ sorting = which
  /\ at = 0
  /\ tdl = << >> \/ ~Progressed

(***************************************************************************)
(* SortTypeDefs                                                            *)
(***************************************************************************)
Finish(refs) ==
  /\ sorting' = "done"
  /\ typeDefs' = prims \o noRefs \o refs \o notRefd
  /\ UNCHANGED <<groups, tdl, call>>

NothingToSort ==
  /\ sorting = "group"
  /\ Grouped = Len(types)
  /\ tdl = << >>
  /\ Finish(<< >>)
  /\ UNCHANGED lists

SortTypeDefs ==
  /\ sorting = "group"
  /\ Grouped = Len(types)
  /\ tdl # << >>
  /\ Call("all")
  /\ UNCHANGED <<groups, tdl, lists, typeDefs>>

SimpleSortWorked ==
  /\ Returns("all")
  /\ tdl = << >>
  /\ Finish(subList)
  /\ UNCHANGED lists

\* A loop over the whole of tdl begins.
LoopOver(which) ==
  /\ sorting' = which
  /\ at' = 1
  /\ last' = tdl[Len(tdl)]

StartDividing ==
  /\ Returns("all")
  /\ tdl # << >>
  /\ linear' = subList
  /\ subList' = << >>
  /\ LoopOver("divide")
  /\ UNCHANGED <<groups, tdl, lastSLCount, nonRec, rec, sortedNonRec, cLists, typeDefs>>

IsRecursive(td) == td \in recursive

KeepRecursive ==
  /\ sorting = "divide"
  /\ at > 0
  /\ IsRecursive(tdl[at])
  /\ GoOn
  /\ UNCHANGED <<sorting, groups, subList, last, lastSLCount, lists, typeDefs>>

MoveNonRecursive ==
  /\ sorting = "divide"
  /\ at > 0
  /\ ~IsRecursive(tdl[at])
  /\ nonRec' = Append(nonRec, tdl[at])
  /\ TakeOut
  /\ UNCHANGED <<sorting, groups, subList, last, lastSLCount,
                 linear, rec, sortedNonRec, cLists, typeDefs>>

Divided ==
  /\ sorting = "divide"
  /\ at = 0
  /\ rec' = tdl
  /\ tdl' = nonRec
  /\ nonRec' = << >>
  /\ Call("nonRec")
  /\ UNCHANGED <<groups, linear, sortedNonRec, cLists, typeDefs>>

\* What fails the sort is put behind what did not, after a message.
SortedNonRec ==
  /\ Returns("nonRec")
  /\ sortedNonRec' = subList \o tdl
  /\ subList' = << >>
  /\ tdl' = rec
  /\ rec' = << >>
  /\ sorting' = "strip"
  /\ at' = IF rec = << >> THEN 0 ELSE 1
  /\ last' = IF rec = << >> THEN last ELSE rec[Len(rec)]
  /\ UNCHANGED <<groups, lastSLCount, linear, nonRec, cLists, typeDefs>>

IsCList(td) == target = "C" /\ IsList(td)

KeepOther ==
  /\ sorting = "strip"
  /\ at > 0
  /\ ~IsCList(tdl[at])
  /\ GoOn
  /\ UNCHANGED <<sorting, groups, subList, last, lastSLCount, lists, typeDefs>>

StripCList ==
  /\ sorting = "strip"
  /\ at > 0
  /\ IsCList(tdl[at])
  /\ cLists' = Append(cLists, tdl[at])
  /\ TakeOut
  /\ UNCHANGED <<sorting, groups, subList, last, lastSLCount,
                 linear, nonRec, rec, sortedNonRec, typeDefs>>

Stripped ==
  /\ sorting = "strip"
  /\ at = 0
  /\ Call("weighted")
  /\ UNCHANGED <<groups, tdl, lists, typeDefs>>

\* A mutant: the lists of C are set apart and not put back.
MergedWithoutLists == linear \o subList \o tdl \o sortedNonRec

\* A mutant: the definitions that are not recursive go first.
MergedNonRecursiveFirst == linear \o cLists \o sortedNonRec \o subList \o tdl

Merged == linear \o cLists \o subList \o tdl \o sortedNonRec

SortedRec ==
  /\ Returns("weighted")
  /\ Finish(Merged)
  /\ UNCHANGED lists

DependencyNext ==
  \/ GroupTypeDef \/ NothingToSort \/ SortTypeDefs
  \/ StartRound \/ KeepTypeDef \/ TakeTypeDef
  \/ SimpleSortWorked
  \/ StartDividing \/ KeepRecursive \/ MoveNonRecursive \/ Divided
  \/ SortedNonRec
  \/ KeepOther \/ StripCList \/ Stripped
  \/ SortedRec
=============================================================================
