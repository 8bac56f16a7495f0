----------------------------- MODULE Recursive -----------------------------
(***************************************************************************)
(* MarkRecursiveTypes (compiler/core/recursive.c): for each definition in  *)
(* turn a walk through everything it refers to, looking for a reference    *)
(* back to it.  The walk marks the definitions it is in, not those it has  *)
(* left, so that it takes every path once.  A frame is a call of MkRecType *)
(* on the type of a definition.                                            *)
(***************************************************************************)
EXTENDS TypeGraph

VARIABLES
  original,   \* the definition of MkRecTypeDef: 0 before the first
  frames,     \* the calls of MkRecType, the last one running
  entered,    \* the definitions whose tmpRefCount is 1
  noValues,   \* definitions warned of: "can hold no values!"
  infinite    \* definitions warned of: "infinitely sized values"

recursiveVars == <<original, frames, entered, noValues, infinite>>

Frame(td, optional, empty) == [td |-> td, at |-> 1, optional |-> optional, empty |-> empty]

RecursiveInit ==
  /\ original = 0
  /\ frames = << >>
  /\ entered = {}
  /\ noValues = {}
  /\ infinite = {}

AllMarked == original = Len(types) /\ frames = << >>

MkRecTypeDef ==
  /\ frames = << >>
  /\ original < Len(types)
  /\ original' = original + 1
  /\ frames' = <<Frame(original + 1, FALSE, TRUE)>>
  /\ UNCHANGED <<recursive, entered, noValues, infinite>>

Top == frames[Len(frames)]
Element == ElementsOf(Top.td)[Top.at]
AtElement == frames # << >> /\ Top.at <= Len(ElementsOf(Top.td))

\* A mutant: the only alternative of a CHOICE is optional.
OptionalInAnyChoice ==
  Top.optional \/ types[Top.td].kind = "choice" \/ IsList(Top.td) \/ Element.opt

\* The two flags for the elements of the running call's type.
Optional ==
  \/ Top.optional
  \/ types[Top.td].kind = "choice" /\ Arity(Top.td) > 1
  \/ IsList(Top.td)
  \/ Element.opt
Empty ==
  /\ Top.empty
  /\ \/ IsRef(Top.td)
     \/ types[Top.td].kind = "choice" /\ Arity(Top.td) <= 1

Advanced == [frames EXCEPT ![Len(frames)].at = @ + 1]

RefToOriginal ==
  /\ AtElement
  /\ Element.to = original
  /\ recursive' = recursive \cup {original}
  /\ noValues' = IF Empty THEN noValues \cup {original} ELSE noValues
  /\ infinite' = IF ~Empty /\ ~Optional THEN infinite \cup {original} ELSE infinite
  /\ frames' = Advanced
  /\ UNCHANGED <<original, entered>>

\* A mutant: the definition entered is not marked.
EnterRefUnmarked ==
  /\ AtElement
  /\ Element.to # original
  /\ Element.to \notin entered
  /\ frames' = Append(Advanced, Frame(Element.to, Optional, Empty))
  /\ UNCHANGED <<original, recursive, entered, noValues, infinite>>

EnterRef ==
  /\ AtElement
  /\ Element.to # original
  /\ Element.to \notin entered
  /\ entered' = entered \cup {Element.to}
  /\ frames' = Append(Advanced, Frame(Element.to, Optional, Empty))
  /\ UNCHANGED <<original, recursive, noValues, infinite>>

PassRef ==
  /\ AtElement
  /\ Element.to # original
  /\ Element.to \in entered
  /\ frames' = Advanced
  /\ UNCHANGED <<original, recursive, entered, noValues, infinite>>

\* A mutant: the mark stays when the walk leaves.
LeftMarked(td) == entered

Left(td) == entered \ {td}

MkRecTypeReturns ==
  /\ frames # << >>
  /\ ~AtElement
  /\ entered' = IF Len(frames) > 1 THEN Left(Top.td) ELSE entered
  /\ frames' = SubSeq(frames, 1, Len(frames) - 1)
  /\ UNCHANGED <<original, recursive, noValues, infinite>>

RecursiveNext == MkRecTypeDef \/ RefToOriginal \/ EnterRef \/ PassRef \/ MkRecTypeReturns
=============================================================================
