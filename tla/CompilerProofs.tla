--------------------------- MODULE CompilerProofs ---------------------------
(***************************************************************************)
(* The walk of recursive.c over any module: its marks are its path.        *)
(***************************************************************************)
EXTENDS Compiler, GraphProofs

FrameType ==
  [td : TypeDefs, at : Nat \ {0}, optional : BOOLEAN, empty : BOOLEAN]

\* The strengthening: the variables of the walk have their types, and the walk
\* began at the definition it looks for, so that "not the original, and not
\* marked" means "not on the path".
WalkTypeOK ==
  /\ types \in Module
  /\ original \in 0 .. Len(types)
  /\ frames \in Seq(FrameType)

BeganAtOriginal ==
  frames # << >> => original \in TypeDefs /\ frames[1].td = original

WalkInv == WalkTypeOK /\ BeganAtOriginal /\ EnteredIsPath

walkVars == <<types, original, frames, entered>>

-----------------------------------------------------------------------------
LEMMA ElementIsATypeDef ==
  ASSUME WalkTypeOK, AtElement
  PROVE  /\ Len(frames) \in DOMAIN frames
         /\ Top \in FrameType
         /\ Element.to \in TypeDefs
         /\ Optional \in BOOLEAN
         /\ Empty \in BOOLEAN
<1>1. IsModule(types)
  BY ModuleAssumption DEF WalkTypeOK
<1>2. Len(frames) \in DOMAIN frames /\ Top \in FrameType
  BY DEF WalkTypeOK, AtElement, Top
<1> DEFINE reference == [to : 1 .. Len(types), opt : BOOLEAN]
           definition == [kind : Kinds, refs : Seq(reference), others : Nat]
<1>3. ElementsOf(Top.td) \in Seq(reference)
  <2>1. types \in Seq(definition)
    BY <1>1 DEF IsModule
  <2>2. Top.td \in DOMAIN types
    BY <1>2 DEF FrameType, TypeDefs
  <2> HIDE DEF definition
  <2>3. types[Top.td] \in definition
    BY <2>1, <2>2
  <2> QED
    BY <2>3 DEF definition, ElementsOf
<1> HIDE DEF reference
<1>4. Top.at \in DOMAIN ElementsOf(Top.td)
  BY <1>2, <1>3 DEF AtElement, FrameType
<1>5. Element \in reference
  BY <1>3, <1>4 DEF Element
<1>6. Element.to \in TypeDefs /\ Element.opt \in BOOLEAN
  BY <1>1, <1>5 DEF reference, IsModule, TypeDefs
<1>7. Optional \in BOOLEAN /\ Empty \in BOOLEAN
  BY <1>2, <1>6 DEF Optional, Empty, FrameType, IsList
<1> QED
  BY <1>2, <1>6, <1>7

\* The next element of the running call changes no definition on the path.
LEMMA AdvancedSamePath ==
  ASSUME WalkTypeOK, AtElement
  PROVE  /\ Advanced \in Seq(FrameType)
         /\ Len(Advanced) = Len(frames)
         /\ \A i \in DOMAIN frames : Advanced[i].td = frames[i].td
<1>1. Len(frames) \in DOMAIN frames /\ Top \in FrameType
  BY ElementIsATypeDef
<1>2. frames \in Seq(FrameType)
  BY DEF WalkTypeOK
<1>3. \A i \in DOMAIN frames : frames[i] \in FrameType
  BY <1>2
<1>4. [frames[Len(frames)] EXCEPT !.at = @ + 1] \in FrameType
  BY <1>1, <1>3 DEF FrameType
<1> QED
  BY <1>1, <1>2, <1>3, <1>4 DEF Advanced, FrameType

-----------------------------------------------------------------------------
LEMMA InitWalkInv == Init => WalkInv
<1> SUFFICES ASSUME Init PROVE WalkInv
  OBVIOUS
<1>1. IsModule(types) /\ types \in Module
  BY ModuleAssumption DEF Init
<1>2. WalkTypeOK
  BY <1>1 DEF Init, RecursiveInit, WalkTypeOK, IsModule
<1> QED
  BY <1>2 DEF Init, RecursiveInit, WalkInv, BeganAtOriginal, EnteredIsPath

LEMMA MkRecTypeDefKeeps == WalkInv /\ MkRecTypeDef /\ types' = types => WalkInv'
<1> SUFFICES ASSUME WalkInv, MkRecTypeDef, types' = types PROVE WalkInv'
  OBVIOUS
<1>1. original + 1 \in TypeDefs /\ original + 1 \in 0 .. Len(types)
  BY ModuleAssumption DEF WalkInv, WalkTypeOK, MkRecTypeDef, IsModule, TypeDefs
<1>2. Frame(original + 1, FALSE, TRUE) \in FrameType
  BY <1>1 DEF Frame, FrameType
<1>3. FrameType' = FrameType
  BY DEF FrameType, TypeDefs
<1>4. frames' \in Seq(FrameType) /\ Len(frames') = 1 /\ frames'[1].td = original'
  BY <1>2 DEF MkRecTypeDef, Frame
<1>5. entered = {}
  BY DEF WalkInv, EnteredIsPath, MkRecTypeDef
<1>6. EnteredIsPath'
  BY <1>4, <1>5 DEF MkRecTypeDef, EnteredIsPath
<1> QED
  BY <1>1, <1>3, <1>4, <1>6 DEF WalkInv, WalkTypeOK, BeganAtOriginal, MkRecTypeDef, TypeDefs

\* RefToOriginal and PassRef only go on to the next element.
LEMMA AdvanceKeeps ==
  ASSUME WalkInv, AtElement, frames' = Advanced, UNCHANGED <<types, original, entered>>
  PROVE  WalkInv'
<1>1. /\ frames' \in Seq(FrameType)
      /\ Len(frames') = Len(frames)
      /\ DOMAIN frames' = DOMAIN frames
      /\ \A i \in DOMAIN frames : frames'[i].td = frames[i].td
  BY AdvancedSamePath DEF WalkInv, WalkTypeOK
<1>2. FrameType' = FrameType
  BY DEF FrameType, TypeDefs
<1>3. WalkTypeOK'
  BY <1>1, <1>2 DEF WalkInv, WalkTypeOK
<1>4. BeganAtOriginal'
  BY <1>1 DEF WalkInv, WalkTypeOK, BeganAtOriginal, AtElement, TypeDefs
<1>5. EnteredIsPath'
  BY <1>1 DEF WalkInv, WalkTypeOK, EnteredIsPath
<1> QED
  BY <1>3, <1>4, <1>5 DEF WalkInv

\* The definition entered is not on the path: it is neither the original,
\* where the path begins, nor marked, as the rest of the path is.
LEMMA EnterRefKeeps == WalkInv /\ EnterRef /\ types' = types => WalkInv'
<1> SUFFICES ASSUME WalkInv, EnterRef, types' = types PROVE WalkInv'
  OBVIOUS
<1> DEFINE new == Frame(Element.to, Optional, Empty)
           n == Len(frames)
<1>1. WalkTypeOK /\ AtElement
  BY DEF WalkInv, EnterRef
<1>2. new \in FrameType /\ new.td = Element.to
  BY <1>1, ElementIsATypeDef DEF Frame, FrameType
<1>3. FrameType' = FrameType
  BY DEF FrameType, TypeDefs
<1>4. /\ Advanced \in Seq(FrameType)
      /\ Len(Advanced) = n
      /\ \A i \in 1 .. n : Advanced[i].td = frames[i].td
      /\ n \in Nat \ {0}
  BY <1>1, AdvancedSamePath DEF WalkTypeOK, AtElement
<1>5. frames' = Append(Advanced, new)
  BY DEF EnterRef
<1> HIDE DEF new
<1>6. /\ frames' \in Seq(FrameType)
      /\ Len(frames') = n + 1
      /\ \A i \in 1 .. n : frames'[i].td = frames[i].td
      /\ frames'[n + 1].td = Element.to
  BY <1>2, <1>4, <1>5
<1>7. \A i \in 1 .. n : frames[i].td # Element.to
  <2>1. frames[1].td # Element.to
    BY <1>4 DEF WalkInv, BeganAtOriginal, EnterRef
  <2>2. \A i \in 2 .. n : frames[i].td # Element.to
    BY DEF WalkInv, EnteredIsPath, EnterRef
  <2> QED
    BY <2>1, <2>2, <1>4
<1>8. WalkTypeOK'
  BY <1>3, <1>6 DEF WalkInv, WalkTypeOK, EnterRef
<1>9. BeganAtOriginal'
  BY <1>1, <1>4, <1>6 DEF WalkInv, BeganAtOriginal, EnterRef, AtElement, TypeDefs
<1>10. EnteredIsPath'
  <2>1. DOMAIN frames' = 1 .. n + 1 /\ DOMAIN frames = 1 .. n
    BY <1>1, <1>6 DEF WalkTypeOK
  <2>2. \A i, j \in DOMAIN frames' : frames'[i].td = frames'[j].td => i = j
    BY <2>1, <1>4, <1>6, <1>7 DEF WalkInv, EnteredIsPath
  <2>3. entered' = {frames'[i].td : i \in 2 .. Len(frames')}
    BY <1>4, <1>6 DEF WalkInv, EnteredIsPath, EnterRef
  <2> QED
    BY <2>2, <2>3 DEF EnteredIsPath
<1> QED
  BY <1>8, <1>9, <1>10 DEF WalkInv

\* The mark cleared is that of the definition the path loses.
LEMMA ReturnKeeps == WalkInv /\ MkRecTypeReturns /\ types' = types => WalkInv'
<1> SUFFICES ASSUME WalkInv, MkRecTypeReturns, types' = types PROVE WalkInv'
  OBVIOUS
<1> DEFINE n == Len(frames)
<1>1. frames \in Seq(FrameType) /\ n \in Nat \ {0} /\ DOMAIN frames = 1 .. n
  BY DEF WalkInv, WalkTypeOK, MkRecTypeReturns
<1>2. FrameType' = FrameType
  BY DEF FrameType, TypeDefs
<1>3. /\ frames' \in Seq(FrameType)
      /\ Len(frames') = n - 1
      /\ \A i \in 1 .. n - 1 : frames'[i] = frames[i]
  BY <1>1 DEF MkRecTypeReturns
<1>4. WalkTypeOK'
  BY <1>2, <1>3 DEF WalkInv, WalkTypeOK, MkRecTypeReturns
<1>5. BeganAtOriginal'
  BY <1>1, <1>3 DEF WalkInv, BeganAtOriginal, MkRecTypeReturns, TypeDefs
<1>6. EnteredIsPath'
  <2>1. \A i, j \in DOMAIN frames' : frames'[i].td = frames'[j].td => i = j
    BY <1>1, <1>3 DEF WalkInv, EnteredIsPath
  <2>2. entered' = {frames'[i].td : i \in 2 .. Len(frames')}
    <3>1. CASE n = 1
      BY <3>1, <1>1, <1>3 DEF WalkInv, EnteredIsPath, MkRecTypeReturns
    <3>2. CASE n > 1
      <4>1. entered' = entered \ {frames[n].td}
        BY <3>2 DEF MkRecTypeReturns, Left, Top
      <4>2. \A i \in 2 .. n - 1 : frames[i].td # frames[n].td
        BY <1>1 DEF WalkInv, EnteredIsPath
      <4>3. entered = {frames[i].td : i \in 2 .. n - 1} \cup {frames[n].td}
        BY <1>1, <3>2 DEF WalkInv, EnteredIsPath
      <4>4. entered' = {frames[i].td : i \in 2 .. n - 1}
        BY <4>1, <4>2, <4>3
      <4> QED
        BY <4>4, <1>3
    <3> QED
      BY <1>1, <3>1, <3>2
  <2> QED
    BY <2>1, <2>2 DEF EnteredIsPath
<1> QED
  BY <1>4, <1>5, <1>6 DEF WalkInv

LEMMA NextKeepsWalkInv == WalkInv /\ [Next]_vars => WalkInv'
<1> SUFFICES ASSUME WalkInv, [Next]_vars PROVE WalkInv'
  OBVIOUS
<1>1. CASE Mark
  <2>1. types' = types
    BY <1>1 DEF Mark
  <2>2. CASE MkRecTypeDef
    BY <2>1, <2>2, MkRecTypeDefKeeps
  <2>3. CASE RefToOriginal
    BY <2>1, <2>3, AdvanceKeeps DEF RefToOriginal
  <2>4. CASE EnterRef
    BY <2>1, <2>4, EnterRefKeeps
  <2>5. CASE PassRef
    BY <2>1, <2>5, AdvanceKeeps DEF PassRef
  <2>6. CASE MkRecTypeReturns
    BY <2>1, <2>6, ReturnKeeps
  <2> QED
    BY <1>1, <2>2, <2>3, <2>4, <2>5, <2>6 DEF Mark, RecursiveNext
<1>2. CASE UNCHANGED walkVars
  BY <1>2 DEF walkVars, WalkInv, WalkTypeOK, BeganAtOriginal, EnteredIsPath, FrameType, TypeDefs
<1>3. FillTDIDefaults \/ GetTypeFollows \/ GetTypeReturns \/ Sort \/ UNCHANGED vars
      => UNCHANGED walkVars
  BY DEF FillTDIDefaults, GetTypeFollows, GetTypeReturns, Sort, vars, recursiveVars, walkVars
<1> QED
  BY <1>1, <1>2, <1>3 DEF Next

-----------------------------------------------------------------------------
\* Whatever the module, the definitions MkRecType has marked are those on the
\* path of its walk, each on it once; no mark outlives the walk that set it
\* (recursive.c:194-210).
THEOREM MarksAreThePath == Spec => []EnteredIsPath
<1>1. Init => WalkInv
  BY InitWalkInv
<1>2. WalkInv /\ [Next]_vars => WalkInv'
  BY NextKeepsWalkInv
<1>3. WalkInv => EnteredIsPath
  BY DEF WalkInv
<1> QED
  BY <1>1, <1>2, <1>3, PTL DEF Spec

-----------------------------------------------------------------------------
(* The walk finds the definitions that reach themselves, and no others.    *)

\* A value of the original must contain one of the frame's definition.
Must(frame) == ~frame.optional

\* Nothing is optional on a path of references and CHOICEs of one alternative.
EmptyIsMandatory ==
  \A i \in DOMAIN frames : frames[i].empty => ~frames[i].optional

PathReached ==
  \A i \in DOMAIN frames : i > 1 =>
    /\ frames[i].td \in ReachedBy(RefsOf, original)
    /\ frames[i].empty => frames[i].td \in ReachedBy(NothingBut, original)

PathNeeded ==
  \A i, j \in DOMAIN frames : i < j /\ Must(frames[j]) =>
    Must(frames[i]) /\ Needs(frames[i].td, frames[i+1].td)

Sound ==
  /\ \A td \in recursive : OnCycle(RefsOf, td)
  /\ \A td \in noValues : OnCycle(NothingBut, td)
  /\ (noValues \cup infinite) \cap Finite = {}

\* The definitions on the path up to a frame, and a way back to the original
\* that begins at an element the frame has still to come to.
On(path, i) == {path[k].td : k \in 2 .. i}

HeldBy(look, frame) ==
  CASE look = "any" -> TRUE [] look = "must" -> Must(frame) [] look = "only" -> frame.empty

Found(look) ==
  CASE look = "any" -> recursive [] look = "must" -> noValues \cup infinite [] look = "only" -> noValues

WayBackFrom(look, i, j) ==
  /\ j \in DOMAIN ElementsOf(frames[i].td) /\ j >= frames[i].at
  /\ HeldBy(look, frames[i]) /\ Follows(look, frames[i].td, j)
  /\ Attains(Steps(look), Len(types), On(frames, i), ElementsOf(frames[i].td)[j].to, original)

LeadsBack(look, td) == td \in Reach(Steps(look), Len(types), td)

StillAhead ==
  \A look \in Looks :
    frames # << >> /\ LeadsBack(look, original) /\ original \notin Found(look) =>
      \E i \in DOMAIN frames : \E j \in Nat : WayBackFrom(look, i, j)

FoundBefore ==
  \A look \in Looks : \A td \in TypeDefs : Finished(td) /\ LeadsBack(look, td) => td \in Found(look)

FoundInv == PathReached /\ EmptyIsMandatory /\ PathNeeded /\ Sound /\ StillAhead /\ FoundBefore

-----------------------------------------------------------------------------
LEMMA AdvancedFields ==
  ASSUME WalkTypeOK, AtElement
  PROVE  LET n == Len(frames)
         IN  /\ n \in Nat \ {0} /\ DOMAIN frames = 1 .. n /\ DOMAIN Advanced = 1 .. n
             /\ Advanced \in Seq(FrameType) /\ Len(Advanced) = n
             /\ \A i \in 1 .. n :
                  /\ Advanced[i].td = frames[i].td /\ Advanced[i].empty = frames[i].empty
                  /\ Advanced[i].optional = frames[i].optional
                  /\ i < n => Advanced[i].at = frames[i].at
             /\ Advanced[n].at = frames[n].at + 1
<1>1. Len(frames) \in DOMAIN frames /\ Top \in FrameType
  BY ElementIsATypeDef
<1>2. frames \in Seq(FrameType) /\ Advanced \in Seq(FrameType) /\ Len(Advanced) = Len(frames)
  BY AdvancedSamePath DEF WalkTypeOK
<1>3. \A i \in DOMAIN frames : frames[i] \in FrameType
  BY <1>2
<1>4. \A i \in DOMAIN frames :
        Advanced[i] = IF i = Len(frames) THEN [frames[i] EXCEPT !.at = @ + 1] ELSE frames[i]
  BY <1>1, <1>2 DEF Advanced
<1>5. \A i \in DOMAIN frames :
        /\ Advanced[i].td = frames[i].td /\ Advanced[i].empty = frames[i].empty
        /\ Advanced[i].optional = frames[i].optional
        /\ i # Len(frames) => Advanced[i].at = frames[i].at
        /\ i = Len(frames) => Advanced[i].at = frames[i].at + 1
  BY <1>3, <1>4 DEF FrameType
<1> QED
  BY <1>1, <1>2, <1>5

\* What the running call's element is to its definition.
LEMMA ElementFacts ==
  ASSUME WalkTypeOK, AtElement, EmptyIsMandatory
  PROVE  /\ IsModule(types) /\ Top.td \in TypeDefs
         /\ Top.at \in DOMAIN ElementsOf(Top.td)
         /\ Element.to \in RefsOf(Top.td)
         /\ Empty => Top.empty /\ Element.to \in NothingBut(Top.td)
         /\ Empty => ~Optional
         /\ ~Optional => Must(Top) /\ Needs(Top.td, Element.to)
         /\ Must(Top) /\ Follows("must", Top.td, Top.at) => ~Optional
         /\ Top.empty /\ Follows("only", Top.td, Top.at) => Empty
<1>1. IsModule(types) /\ Top \in FrameType /\ Top.td \in TypeDefs
  BY ElementIsATypeDef, ModuleAssumption DEF WalkTypeOK, FrameType
<1>2. Top.at \in DOMAIN ElementsOf(Top.td) /\ types[Top.td].others \in Nat
      /\ types[Top.td].kind \in Kinds
  BY <1>1, ModuleFacts DEF AtElement, FrameType
<1>3. Element.to \in RefsOf(Top.td)
  BY <1>2 DEF RefsOf, Element
<1>4. Empty => Top.empty /\ Element.to \in NothingBut(Top.td)
  <2>1. Len(ElementsOf(Top.td)) >= 1 /\ Len(ElementsOf(Top.td)) \in Nat
    BY <1>1, <1>2, ModuleFacts
  <2>2. types[Top.td].kind = "choice" /\ Arity(Top.td) <= 1 => Arity(Top.td) = 1
    BY <1>2, <2>1 DEF Arity
  <2> QED
    BY <1>3, <2>2 DEF Empty, NothingBut
<1>6. Empty => ~Optional
  <2>1. Top.empty => ~Top.optional
    BY <1>1, ElementIsATypeDef DEF EmptyIsMandatory, Top
  <2>2. Element.opt => types[Top.td].kind \in {"set", "sequence"}
    BY <1>1, <1>2, ModuleFacts DEF Element
  <2>3. types[Top.td].kind = "choice" /\ Arity(Top.td) <= 1 => ~(Arity(Top.td) > 1)
    <3>1. Arity(Top.td) \in Nat
      BY <1>1, <1>2, ModuleFacts DEF Arity
    <3> QED
      BY <3>1
  <2> QED
    BY <2>1, <2>2, <2>3 DEF Empty, Optional, IsList, IsRef
<1>7. Must(Top) /\ Follows("must", Top.td, Top.at) => ~Optional
  BY DEF Must, Follows, Optional, Element
<1>8. Top.empty /\ Follows("only", Top.td, Top.at) => Empty
  BY DEF Follows, Empty
<1>5. ASSUME ~Optional PROVE Must(Top) /\ Needs(Top.td, Element.to)
  <2>1. Must(Top)
    BY <1>5 DEF Must, Optional
  <2>2. ASSUME NEW X \in SUBSET TypeDefs, Built(Top.td, X) PROVE Element.to \in X
    <3>1. types[Top.td].kind # "library"
      BY <1>1, <1>2, ModuleFacts
    <3>2. types[Top.td].kind # "list"
      BY <1>5 DEF Optional, IsList
    <3>3. CASE types[Top.td].kind = "ref"
      <4>1. Top.at = 1
        BY <1>1, <1>2, <3>3, ModuleFacts DEF IsRef
      <4> QED
        BY <2>2, <3>3, <4>1 DEF Built, Link, Element
    <3>4. CASE types[Top.td].kind = "choice"
      <4>1. Arity(Top.td) <= 1
        <5>1. Arity(Top.td) \in Nat
          BY <1>1, <1>2, ModuleFacts DEF Arity
        <5> QED
          BY <1>5, <3>4, <5>1 DEF Optional
      <4>2. types[Top.td].others = 0 /\ Len(ElementsOf(Top.td)) = 1
        <5> DEFINE l == Len(ElementsOf(Top.td))
                   o == types[Top.td].others
        <5>1. l \in Nat /\ l >= 1
          BY <1>1, <1>2, ModuleFacts
        <5>2. l + o <= 1 /\ o \in Nat
          BY <1>2, <4>1 DEF Arity
        <5> HIDE DEF l, o
        <5>3. l = 1 /\ o = 0
          BY <5>1, <5>2
        <5> QED
          BY <5>3 DEF l, o
      <4>3. RefsOf(Top.td) = {Element.to}
        <5>1. DOMAIN ElementsOf(Top.td) = {1} /\ Top.at = 1
          BY <1>1, <1>2, <4>2, ModuleFacts
        <5> QED
          BY <5>1 DEF RefsOf, Element
      <4> QED
        BY <2>2, <3>4, <4>2, <4>3 DEF Built
    <3>5. CASE types[Top.td].kind \in {"set", "sequence"}
      <4>1. ~Element.opt
        BY <1>5 DEF Optional
      <4>2. \A i \in DOMAIN types[Top.td].refs : types[Top.td].refs[i].opt \/ types[Top.td].refs[i].to \in X
        BY <2>2, <3>5 DEF Built
      <4> QED
        BY <1>2, <4>1, <4>2 DEF Element, ElementsOf
    <3> QED
      BY <1>2, <3>1, <3>2, <3>3, <3>4, <3>5 DEF Kinds
  <2> QED
    BY <2>1, <2>2 DEF Needs
<1> QED
  BY <1>1, <1>2, <1>3, <1>4, <1>5, <1>6, <1>7, <1>8

-----------------------------------------------------------------------------
LEMMA AdvanceKeepsPath ==
  ASSUME WalkTypeOK, AtElement, PathReached, EmptyIsMandatory, PathNeeded, frames' = Advanced,
         UNCHANGED <<types, original>>
  PROVE  PathReached' /\ EmptyIsMandatory' /\ PathNeeded' /\ DOMAIN frames' = DOMAIN frames
         /\ \A i \in DOMAIN frames : On(frames', i) = On(frames, i)
<1> DEFINE n == Len(frames)
<1>1. /\ DOMAIN frames' = 1 .. n /\ DOMAIN frames = 1 .. n /\ n \in Nat
      /\ \A i \in 1 .. n : frames'[i].td = frames[i].td /\ frames'[i].empty = frames[i].empty
                           /\ frames'[i].optional = frames[i].optional
  BY AdvancedFields
<1>2. \A i \in 1 .. n : Must(frames'[i]) = Must(frames[i])
  BY <1>1 DEF Must
<1> HIDE DEF n
<1>3. PathReached'
  <2>1. \A td : ReachedBy(RefsOf, td)' = ReachedBy(RefsOf, td)
    BY SameTypes
  <2>2. \A td : ReachedBy(NothingBut, td)' = ReachedBy(NothingBut, td)
    BY SameTypes
  <2> QED
    BY <1>1, <2>1, <2>2 DEF PathReached
<1>4. PathNeeded'
  <2>1. \A td, d : Needs(td, d)' = Needs(td, d)
    BY SameTypes
  <2>2. \A i, j \in 1 .. n : i < j => i + 1 \in 1 .. n
    BY <1>1
  <2> SUFFICES ASSUME NEW i \in 1 .. n, NEW j \in 1 .. n, i < j, Must(frames'[j])
               PROVE  (Must(frames[i]) /\ Needs(frames[i].td, frames[i+1].td))'
    BY <1>1 DEF PathNeeded
  <2>3. Must(frames[i]) /\ Needs(frames[i].td, frames[i+1].td)
    BY <1>1, <1>2 DEF PathNeeded
  <2> QED
    BY <1>1, <1>2, <2>1, <2>2, <2>3
<1>5. \A i \in 1 .. n : On(frames', i) = On(frames, i)
  BY <1>1 DEF On
<1>6. EmptyIsMandatory'
  BY <1>1 DEF EmptyIsMandatory
<1> QED
  BY <1>1, <1>3, <1>4, <1>5, <1>6

\* The walk begins: if the definition reaches itself, a way back begins at one
\* of its elements.
LEMMA MkRecTypeDefFinds ==
  ASSUME WalkInv, FoundInv, MkRecTypeDef, types' = types
  PROVE  FoundInv'
<1>1. /\ IsModule(types) /\ original + 1 \in TypeDefs
      /\ original \in Nat /\ original' = original + 1
  <2>1. IsModule(types) /\ original \in 0 .. Len(types)
    BY ModuleAssumption DEF WalkInv, WalkTypeOK
  <2>2. Len(types) \in Nat /\ TypeDefs = 1 .. Len(types)
    BY <2>1, ModuleFacts
  <2> QED
    BY <2>1, <2>2 DEF MkRecTypeDef
<1>2. /\ Len(frames') = 1 /\ DOMAIN frames' = {1} /\ frames'[1].td = original'
      /\ frames'[1].at = 1 /\ frames'[1].empty /\ ~frames'[1].optional /\ frames' # << >>
  BY DEF MkRecTypeDef, Frame
<1>3. PathReached' /\ EmptyIsMandatory' /\ PathNeeded'
  BY <1>2 DEF PathReached, EmptyIsMandatory, PathNeeded
<1>4. Sound'
  <2>1. UNCHANGED <<recursive, noValues, infinite>> /\ Sound
    BY DEF FoundInv, MkRecTypeDef
  <2> QED
    BY <2>1, SameTypes DEF Sound
<1>5. StillAhead'
  <2> SUFFICES ASSUME NEW look \in Looks, LeadsBack(look, original + 1)
               PROVE  \E j \in Nat : WayBackFrom(look, 1, j)'
    BY <1>1, <1>2, SameTypes DEF StillAhead, LeadsBack
  <2>1. IsGraph(Steps(look), Len(types)) /\ original + 1 \in 1 .. Len(types)
    BY <1>1, StepsAreAGraph
  <2>2. PICK f \in Steps(look)[original + 1] : Attains(Steps(look), Len(types), {}, f, original + 1)
    BY <2>1, AttainsFirst DEF LeadsBack
  <2>3. PICK j \in DOMAIN ElementsOf(original + 1) :
          Follows(look, original + 1, j) /\ ElementsOf(original + 1)[j].to = f
    BY <1>1 DEF Steps
  <2>4. j >= 1 /\ j \in Nat
    BY <1>1, ModuleFacts
  <2>5. On(frames', 1) = {}
    BY DEF On
  <2>6. HeldBy(look, frames'[1])
    BY <1>2 DEF HeldBy, Looks, Must
  <2>7. /\ \A td : ElementsOf(td)' = ElementsOf(td)
        /\ Steps(look)' = Steps(look)
        /\ \A td : Follows(look, td, j)' = Follows(look, td, j)
    BY SameTypes
  <2>8. WayBackFrom(look, 1, j)'
    BY <1>1, <1>2, <2>2, <2>3, <2>4, <2>5, <2>6, <2>7 DEF WayBackFrom
  <2> QED
    BY <2>4, <2>8
<1>6. FoundBefore'
  <2>1. \A td \in TypeDefs : Finished(td)' => Finished(td)
    BY <1>1, <1>2, ModuleFacts DEF Finished, MkRecTypeDef
  <2> QED
    BY <2>1, SameTypes DEF FoundBefore, FoundInv, MkRecTypeDef, Found, LeadsBack
<1> QED
  BY <1>3, <1>4, <1>5, <1>6 DEF FoundInv

LEMMA OnLast == WalkInv => On(frames, Len(frames)) = entered
BY DEF WalkInv, EnteredIsPath, On

\* A step that leaves the walk running finishes no definition.
LEMMA StillLooking ==
  ASSUME WalkInv, frames # << >>, frames' # << >>, FoundBefore,
         UNCHANGED <<types, original>>, \A look \in Looks : Found(look) \subseteq Found(look)'
  PROVE  FoundBefore'
<1>1. \A td \in TypeDefs : Finished(td)' => Finished(td)
  BY DEF Finished
<1> QED
  BY <1>1, SameTypes DEF FoundBefore, LeadsBack

\* An element still to come that is a way back stays one, if its frame stays.
LEMMA WayBackStays ==
  ASSUME UNCHANGED <<types, original>>, NEW look, NEW i, NEW j, WayBackFrom(look, i, j),
         frames'[i].td = frames[i].td, HeldBy(look, frames'[i]) = HeldBy(look, frames[i]),
         j >= frames'[i].at, On(frames', i) = On(frames, i)
  PROVE  WayBackFrom(look, i, j)'
<1>1. /\ \A td : ElementsOf(td)' = ElementsOf(td)
      /\ Steps(look)' = Steps(look)
      /\ \A td : Follows(look, td, j)' = Follows(look, td, j)
  BY SameTypes
<1> QED
  BY <1>1 DEF WayBackFrom

\* A way back begins at the running call's element, or stays.
LEMMA WayBackAtElementOrStays ==
  ASSUME WalkInv, AtElement, UNCHANGED <<types, original>>,
         \A k \in DOMAIN frames : frames'[k] = Advanced[k],
         NEW look, NEW i \in DOMAIN frames, NEW j \in Nat, WayBackFrom(look, i, j)
  PROVE  \/ /\ HeldBy(look, Top) /\ Follows(look, Top.td, Top.at)
            /\ Attains(Steps(look), Len(types), entered, Element.to, original)
         \/ WayBackFrom(look, i, j)'
<1> DEFINE n == Len(frames)
<1>1. n \in Nat \ {0} /\ DOMAIN frames = 1 .. n /\ frames[n] = Top /\ frames[n].at \in Nat
  <2>1. WalkTypeOK
    BY DEF WalkInv
  <2>2. Top \in FrameType
    BY <2>1, ElementIsATypeDef
  <2> QED
    BY <2>1, <2>2, AdvancedFields DEF Top, FrameType
<1>2. /\ \A k \in 1 .. n :
           /\ frames'[k].td = frames[k].td /\ frames'[k].empty = frames[k].empty
           /\ frames'[k].optional = frames[k].optional
           /\ k < n => frames'[k].at = frames[k].at
      /\ frames'[n].at = frames[n].at + 1
  <2>1. WalkTypeOK
    BY DEF WalkInv
  <2>2. /\ \A k \in 1 .. n :
             /\ Advanced[k].td = frames[k].td /\ Advanced[k].empty = frames[k].empty
             /\ Advanced[k].optional = frames[k].optional
             /\ k < n => Advanced[k].at = frames[k].at
        /\ Advanced[n].at = frames[n].at + 1
    BY <2>1, AdvancedFields
  <2>3. \A k \in 1 .. n : frames'[k] = Advanced[k]
    BY <1>1
  <2>4. n \in 1 .. n
    BY <1>1
  <2> HIDE DEF n
  <2> QED
    BY <2>2, <2>3, <2>4
<1>3. On(frames', i) = On(frames, i)
  <2>1. \A k \in 2 .. i : k \in 1 .. n
    BY <1>1
  <2> QED
    BY <1>2, <2>1 DEF On
<1>4. HeldBy(look, frames'[i]) = HeldBy(look, frames[i])
  BY <1>1, <1>2 DEF HeldBy, Must
<1>5. CASE i = n /\ j = frames[n].at
  BY <1>1, <1>5, OnLast DEF WayBackFrom, Element
<1>6. CASE ~(i = n /\ j = frames[n].at)
  <2>1. j >= frames[i].at
    BY DEF WayBackFrom
  <2>2. j >= frames'[i].at
    <3>1. CASE i = n
      BY <1>1, <1>2, <1>6, <2>1, <3>1
    <3>2. CASE i # n
      BY <1>1, <1>2, <2>1, <3>2
    <3> QED
      BY <3>1, <3>2
  <2> QED
    BY <1>1, <1>2, <1>3, <1>4, <2>2, WayBackStays
<1> QED
  BY <1>5, <1>6

\* The element is a definition on the path: no way back begins there.
LEMMA PassRefFinds ==
  ASSUME WalkInv, FoundInv, PassRef, types' = types, recursive' = recursive
  PROVE  FoundInv'
<1>1. /\ WalkTypeOK /\ AtElement /\ PathReached /\ EmptyIsMandatory /\ PathNeeded
      /\ frames' = Advanced /\ UNCHANGED <<types, original, noValues, infinite>>
      /\ Element.to \in entered
  BY DEF WalkInv, FoundInv, PassRef
<1>2. PathReached' /\ EmptyIsMandatory' /\ PathNeeded' /\ DOMAIN frames' = DOMAIN frames
  BY <1>1, AdvanceKeepsPath
<1>3. Sound'
  BY <1>1, SameTypes DEF Sound, FoundInv
<1>4. frames # << >> /\ frames' # << >>
  BY <1>1, AdvancedFields DEF AtElement
<1>5. \A look : Found(look)' = Found(look)
  BY <1>1 DEF Found
<1>6. StillAhead'
  <2> SUFFICES ASSUME NEW look \in Looks, LeadsBack(look, original), original \notin Found(look)
               PROVE  \E i \in DOMAIN frames' : \E j \in Nat : WayBackFrom(look, i, j)'
    BY <1>1, <1>5, SameTypes DEF StillAhead, LeadsBack
  <2>1. PICK i \in DOMAIN frames, j \in Nat : WayBackFrom(look, i, j)
    BY <1>4 DEF FoundInv, StillAhead
  <2>2. ~Attains(Steps(look), Len(types), entered, Element.to, original)
    BY <1>1 DEF Attains
  <2>3. WayBackFrom(look, i, j)'
    BY <1>1, <2>1, <2>2, WayBackAtElementOrStays
  <2> QED
    BY <1>2, <2>3
<1>7. FoundBefore'
  BY <1>1, <1>4, <1>5, StillLooking DEF FoundInv
<1> QED
  BY <1>2, <1>3, <1>6, <1>7 DEF FoundInv

\* The original is reached: it is marked, and warned of when what the path is
\* made of leaves it no value.
LEMMA RefToOriginalFinds ==
  ASSUME WalkInv, FoundInv, RefToOriginal, types' = types
  PROVE  FoundInv'
<1> DEFINE n == Len(frames)
<1>1. /\ WalkTypeOK /\ AtElement /\ PathReached /\ EmptyIsMandatory /\ PathNeeded
      /\ frames' = Advanced
      /\ UNCHANGED <<types, original>> /\ recursive' = recursive \cup {original}
      /\ Element.to = original
  BY DEF WalkInv, FoundInv, RefToOriginal
<1>2. PathReached' /\ EmptyIsMandatory' /\ PathNeeded' /\ DOMAIN frames' = DOMAIN frames
  BY <1>1, AdvanceKeepsPath
<1>0. /\ original \in TypeDefs /\ IsModule(types) /\ frames[1].td = original
      /\ \A i \in DOMAIN frames : frames[i].td \in TypeDefs
  <2>1. \A i \in DOMAIN frames : frames[i] \in FrameType
    BY <1>1 DEF WalkTypeOK
  <2> QED
    BY <1>1, <2>1, ElementFacts DEF WalkInv, BeganAtOriginal, AtElement, FrameType
<1>3. n \in Nat \ {0} /\ DOMAIN frames = 1 .. n /\ frames[n] = Top /\ frames # << >> /\ frames' # << >>
  BY <1>1, AdvancedFields DEF Top, AtElement
<1>4. /\ Top.td \in TypeDefs /\ original \in RefsOf(Top.td)
      /\ Empty => Top.empty /\ original \in NothingBut(Top.td)
      /\ Empty => ~Optional
      /\ ~Optional => Must(Top) /\ Needs(Top.td, original)
  BY <1>1, ElementFacts
<1>5. OnCycle(RefsOf, original)
  <2>1. CASE n = 1
    <3>1. Top.td = original
      BY <1>0, <1>3, <2>1
    <3> QED
      BY <1>0, <1>4, <3>1, ReachedByRefsOf DEF OnCycle
  <2>2. CASE n > 1
    <3>1. Top.td \in ReachedBy(RefsOf, original)
      BY <1>1, <1>3, <2>2 DEF PathReached
    <3> QED
      BY <1>0, <1>4, <3>1, ReachedByRefsOf DEF OnCycle
  <2> QED
    BY <1>3, <2>1, <2>2
<1>6. ASSUME Empty PROVE OnCycle(NothingBut, original)
  <2>1. CASE n = 1
    <3>1. Top.td = original
      BY <1>0, <1>3, <2>1
    <3> QED
      BY <1>0, <1>4, <1>6, <3>1, ReachedByNothingBut DEF OnCycle
  <2>2. CASE n > 1
    <3>1. Top.td \in ReachedBy(NothingBut, original)
      <4>1. n \in DOMAIN frames /\ n > 1 /\ frames[n].empty
        BY <1>3, <1>4, <1>6, <2>2
      <4>2. frames[n].td \in ReachedBy(NothingBut, original)
        BY <1>1, <4>1 DEF PathReached
      <4> QED
        BY <1>3, <4>2
    <3> QED
      BY <1>0, <1>4, <1>6, <3>1, ReachedByNothingBut DEF OnCycle
  <2> QED
    BY <1>3, <2>1, <2>2
<1>7. ASSUME ~Optional PROVE original \notin Finite
  <2>0. n \in Nat \ {0}
    BY <1>3
  <2> HIDE DEF n
  <2>1. ASSUME NEW i \in 1 .. n PROVE \E k \in 1 .. n : Needs(frames[i].td, frames[k].td)
    <3>1. CASE i = n
      <4>1. 1 \in 1 .. n /\ Needs(frames[i].td, frames[1].td)
        BY <1>0, <1>3, <1>4, <1>7, <3>1
      <4> QED
        BY <4>1
    <3>2. CASE i # n
      <4>1. i < n /\ i + 1 \in 1 .. n /\ n \in 1 .. n
        BY <2>0, <3>2
      <4>2. Needs(frames[i].td, frames[i+1].td)
        BY <1>1, <1>3, <1>4, <1>7, <4>1 DEF PathNeeded
      <4> QED
        BY <4>1, <4>2
    <3> QED
      BY <3>1, <3>2
  <2> DEFINE K == {frames[i].td : i \in 1 .. n}
  <2>2. K \in SUBSET TypeDefs /\ original \in K
    BY <1>0, <1>3
  <2>3. \A td \in K : \E d \in K : Needs(td, d)
    BY <2>1
  <2> HIDE DEF K
  <2> QED
    BY <1>0, <2>2, <2>3, NeedingEachOther
<1>8. Sound'
  <2>1. \A td \in recursive' : OnCycle(RefsOf, td)
    BY <1>1, <1>5 DEF FoundInv, Sound
  <2>2. \A td \in noValues' : OnCycle(NothingBut, td)
    BY <1>6 DEF FoundInv, Sound, RefToOriginal
  <2>3. (noValues' \cup infinite') \cap Finite = {}
    BY <1>4, <1>7 DEF FoundInv, Sound, RefToOriginal
  <2> QED
    BY <1>1, <2>1, <2>2, <2>3, SameTypes DEF Sound
<1>9. /\ \A look \in Looks : Found(look) \subseteq Found(look)'
      /\ \A look \in Looks :
           HeldBy(look, Top) /\ Follows(look, Top.td, Top.at) => original \in Found(look)'
  <2>1. noValues' = IF Empty THEN noValues \cup {original} ELSE noValues
    BY DEF RefToOriginal
  <2>2. infinite' = IF ~Empty /\ ~Optional THEN infinite \cup {original} ELSE infinite
    BY DEF RefToOriginal
  <2>3. /\ Must(Top) /\ Follows("must", Top.td, Top.at) => ~Optional
        /\ Top.empty /\ Follows("only", Top.td, Top.at) => Empty
    BY <1>1, ElementFacts
  <2> QED
    BY <1>1, <2>1, <2>2, <2>3 DEF Found, Looks, HeldBy
<1>10. StillAhead'
  <2> SUFFICES ASSUME NEW look \in Looks, LeadsBack(look, original), original \notin Found(look)'
               PROVE  \E i \in DOMAIN frames' : \E j \in Nat : WayBackFrom(look, i, j)'
    BY <1>1, SameTypes DEF StillAhead, LeadsBack
  <2>1. PICK i \in DOMAIN frames, j \in Nat : WayBackFrom(look, i, j)
    BY <1>3, <1>9 DEF FoundInv, StillAhead
  <2>2. WayBackFrom(look, i, j)'
    BY <1>1, <1>9, <2>1, WayBackAtElementOrStays
  <2> QED
    BY <1>2, <2>2
<1>11. FoundBefore'
  BY <1>1, <1>3, <1>9, StillLooking DEF FoundInv
<1> QED
  BY <1>2, <1>8, <1>10, <1>11 DEF FoundInv

\* A definition is entered: a way back that began at this element begins at
\* one of that definition's.
LEMMA EnterRefFinds ==
  ASSUME WalkInv, FoundInv, EnterRef, types' = types, recursive' = recursive
  PROVE  FoundInv'
<1> DEFINE n == Len(frames)
           new == Frame(Element.to, Optional, Empty)
<1>0. \A i \in DOMAIN frames : frames[i] \in FrameType
  BY DEF WalkInv, WalkTypeOK
<1>1. /\ WalkTypeOK /\ AtElement /\ PathReached /\ EmptyIsMandatory
      /\ PathNeeded /\ StillAhead
      /\ UNCHANGED <<types, original, noValues, infinite>>
      /\ Element.to # original /\ Element.to \notin entered
      /\ frames' = Append(Advanced, new)
  BY DEF WalkInv, FoundInv, EnterRef
<1>2. /\ n \in Nat \ {0} /\ DOMAIN frames = 1 .. n /\ frames[n] = Top /\ frames[1].td = original
      /\ original \in TypeDefs /\ IsModule(types) /\ frames # << >> /\ Element.to \in TypeDefs
  BY <1>1, AdvancedFields, ElementFacts, ElementIsATypeDef DEF Top, WalkInv, BeganAtOriginal, AtElement
<1>3. /\ Top.td \in TypeDefs /\ Element.to \in RefsOf(Top.td)
      /\ Empty => Top.empty /\ Element.to \in NothingBut(Top.td)
      /\ Empty => ~Optional
      /\ ~Optional => Must(Top) /\ Needs(Top.td, Element.to)
      /\ Must(Top) /\ Follows("must", Top.td, Top.at) => ~Optional
      /\ Top.empty /\ Follows("only", Top.td, Top.at) => Empty
  BY <1>1, ElementFacts
<1>4. /\ new.td = Element.to /\ new.at = 1 /\ new.optional = Optional /\ new.empty = Empty
      /\ Must(new) = ~Optional
  BY DEF Frame, Must
<1>5. /\ Advanced \in Seq(FrameType) /\ Len(Advanced) = n
      /\ \A i \in 1 .. n :
           /\ Advanced[i].td = frames[i].td /\ Advanced[i].empty = frames[i].empty
           /\ Advanced[i].optional = frames[i].optional
           /\ i < n => Advanced[i].at = frames[i].at
      /\ Advanced[n].at = frames[n].at + 1
  BY <1>1, AdvancedFields
<1> HIDE DEF new
<1>6. /\ DOMAIN frames' = 1 .. n + 1 /\ frames' # << >> /\ frames'[n+1] = new
      /\ \A i \in 1 .. n : frames'[i] = Advanced[i]
  BY <1>1, <1>2, <1>5
<1>7. PathReached'
  <2>1. Element.to \in ReachedBy(RefsOf, original)
    <3>1. CASE n = 1
      BY <1>2, <1>3, <3>1, ReachedByRefsOf
    <3>2. CASE n > 1
      <4>1. Top.td \in ReachedBy(RefsOf, original)
        BY <1>1, <1>2, <3>2 DEF PathReached
      <4> QED
        BY <1>2, <1>3, <4>1, ReachedByRefsOf
    <3> QED
      BY <1>2, <3>1, <3>2
  <2>2. ASSUME Empty PROVE Element.to \in ReachedBy(NothingBut, original)
    <3>1. CASE n = 1
      BY <1>2, <1>3, <2>2, <3>1, ReachedByNothingBut
    <3>2. CASE n > 1
      <4>1. Top.td \in ReachedBy(NothingBut, original)
        <5>1. n \in DOMAIN frames /\ frames[n].empty
          BY <1>2, <1>3, <2>2
        <5> QED
          BY <1>1, <1>2, <3>2, <5>1 DEF PathReached
      <4> QED
        BY <1>2, <1>3, <2>2, <4>1, ReachedByNothingBut
    <3> QED
      BY <1>2, <3>1, <3>2
  <2>3. ASSUME NEW i \in 1 .. n + 1, i > 1
        PROVE  /\ frames'[i].td \in ReachedBy(RefsOf, original)
               /\ frames'[i].empty => frames'[i].td \in ReachedBy(NothingBut, original)
    <3>1. CASE i = n + 1
      BY <1>4, <1>6, <2>1, <2>2, <3>1
    <3>2. CASE i \in 1 .. n
      BY <1>1, <1>2, <1>5, <1>6, <2>3, <3>2 DEF PathReached
    <3> QED
      BY <1>2, <3>1, <3>2
  <2>4. /\ \A td : ReachedBy(RefsOf, td)' = ReachedBy(RefsOf, td)
        /\ \A td : ReachedBy(NothingBut, td)' = ReachedBy(NothingBut, td)
    BY SameTypes
  <2> QED
    BY <1>1, <1>6, <2>3, <2>4 DEF PathReached
<1>8. PathNeeded'
  <2>1. \A i \in 1 .. n : Must(frames'[i]) = Must(frames[i]) /\ frames'[i].td = frames[i].td
    BY <1>5, <1>6 DEF Must
  <2>2. ASSUME NEW i \in 1 .. n + 1, NEW j \in 1 .. n + 1, i < j, Must(frames'[j])
        PROVE  Must(frames'[i]) /\ Needs(frames'[i].td, frames'[i+1].td)
    <3>1. i \in 1 .. n
      BY <1>2, <2>2
    <3>2. CASE j \in 1 .. n
      <4>1. i + 1 \in 1 .. n
        BY <1>2, <2>2, <3>2
      <4> QED
        BY <1>1, <1>2, <2>1, <2>2, <3>1, <3>2, <4>1 DEF PathNeeded
    <3>3. CASE j = n + 1
      <4>1. Must(Top) /\ Needs(Top.td, Element.to)
        BY <1>3, <1>4, <1>6, <2>2, <3>3
      <4>2. CASE i = n
        BY <1>2, <1>4, <1>6, <2>1, <4>1, <4>2
      <4>3. CASE i < n
        <5>1. Must(frames[i]) /\ Needs(frames[i].td, frames[i+1].td)
          BY <1>1, <1>2, <3>1, <4>1, <4>3 DEF PathNeeded
        <5>2. i + 1 \in 1 .. n
          BY <1>2, <3>1, <4>3
        <5> QED
          BY <2>1, <3>1, <5>1, <5>2
      <4> QED
        BY <1>2, <3>1, <4>2, <4>3
    <3> QED
      BY <1>2, <3>2, <3>3
  <2>3. \A td, d : Needs(td, d)' = Needs(td, d)
    BY SameTypes
  <2> QED
    BY <1>6, <2>2, <2>3 DEF PathNeeded
<1>9. Sound'
  BY <1>1, SameTypes DEF Sound, FoundInv
<1>13. EmptyIsMandatory'
  <2>1. \A i \in 1 .. n : frames'[i].empty = frames[i].empty /\ frames'[i].optional = frames[i].optional
    BY <1>5, <1>6
  <2>2. \A i \in 1 .. n + 1 : i = n + 1 \/ i \in 1 .. n
    BY <1>2
  <2> QED
    BY <1>1, <1>2, <1>3, <1>4, <1>6, <2>1, <2>2 DEF EmptyIsMandatory
<1>12. \A look : Found(look)' = Found(look)
  BY <1>1 DEF Found, EnterRef
<1>10. StillAhead'
  <2> SUFFICES ASSUME NEW look \in Looks, LeadsBack(look, original), original \notin Found(look)
               PROVE  \E i \in DOMAIN frames' : \E j \in Nat : WayBackFrom(look, i, j)'
    BY <1>1, <1>12, SameTypes DEF StillAhead, LeadsBack
  <2>1. PICK i \in DOMAIN frames, j \in Nat : WayBackFrom(look, i, j)
    BY <1>1, <1>2 DEF StillAhead
  <2>2. CASE WayBackFrom(look, i, j)'
    <3>1. i \in DOMAIN frames'
      BY <1>2, <1>6
    <3> QED
      BY <2>2, <3>1
  <2>3. CASE /\ HeldBy(look, Top) /\ Follows(look, Top.td, Top.at)
             /\ Attains(Steps(look), Len(types), entered, Element.to, original)
    <3>1. IsGraph(Steps(look), Len(types)) /\ TypeDefs = 1 .. Len(types)
      BY <1>2, StepsAreAGraph
    <3>2. PICK f \in Steps(look)[Element.to] :
            Attains(Steps(look), Len(types), entered \cup {Element.to}, f, original)
      BY <1>1, <1>2, <2>3, <3>1, AttainsNext
    <3>3. PICK k \in DOMAIN ElementsOf(Element.to) :
            Follows(look, Element.to, k) /\ ElementsOf(Element.to)[k].to = f
      BY <1>2 DEF Steps
    <3>4. k >= 1 /\ k \in Nat
      BY <1>2, ModuleFacts
    <3> PICK m \in Nat : m = n + 1
      BY <1>2
    <3>5. On(frames', m) = entered \cup {Element.to}
      <4>1. \A i1 \in 2 .. n : frames'[i1].td = frames[i1].td
        BY <1>2, <1>5, <1>6
      <4>2. 2 .. m = (2 .. n) \cup {m}
        BY <1>2
      <4>3. entered = {frames[i1].td : i1 \in 2 .. n}
        BY DEF WalkInv, EnteredIsPath
      <4> QED
        BY <1>4, <1>6, <4>1, <4>2, <4>3 DEF On
    <3>6. m \in DOMAIN frames' /\ frames'[m].td = Element.to /\ frames'[m].at = 1 /\ frames'[m] = new
      BY <1>2, <1>4, <1>6
    <3>7. HeldBy(look, frames'[m])
      BY <1>3, <1>4, <2>3, <3>6 DEF HeldBy, Looks
    <3>8. /\ \A td : ElementsOf(td)' = ElementsOf(td)
          /\ Steps(look)' = Steps(look)
          /\ \A td : Follows(look, td, k)' = Follows(look, td, k)
      BY SameTypes
    <3>9. WayBackFrom(look, m, k)'
      BY <1>1, <3>2, <3>3, <3>4, <3>5, <3>6, <3>7, <3>8 DEF WayBackFrom
    <3> QED
      BY <3>4, <3>6, <3>9
  <2> QED
    BY <1>1, <1>2, <1>6, <2>1, <2>2, <2>3, WayBackAtElementOrStays
<1>11. FoundBefore'
  BY <1>1, <1>2, <1>6, <1>12, StillLooking DEF FoundInv
<1> QED
  BY <1>7, <1>8, <1>9, <1>10, <1>11, <1>13 DEF FoundInv

\* A call that returns has come to the end of its elements: the way back, if
\* there is one, begins further up; and none is left when the walk ends.
LEMMA ReturnFinds ==
  ASSUME WalkInv, FoundInv, MkRecTypeReturns, types' = types, recursive' = recursive
  PROVE  FoundInv'
<1> DEFINE n == Len(frames)
<1>0. \A i \in DOMAIN frames : frames[i] \in FrameType
  BY DEF WalkInv, WalkTypeOK
<1>1. /\ UNCHANGED <<original, noValues, infinite>> /\ frames # << >> /\ ~AtElement
      /\ frames' = SubSeq(frames, 1, n - 1) /\ frames \in Seq(FrameType)
  BY DEF MkRecTypeReturns, WalkInv, WalkTypeOK
<1>2. n \in Nat \ {0} /\ DOMAIN frames = 1 .. n
  BY <1>1
<1>3. DOMAIN frames' = 1 .. n - 1 /\ \A i \in 1 .. n - 1 : frames'[i] = frames[i] /\ i \in 1 .. n
  BY <1>1, <1>2
<1>4. frames' = << >> <=> n = 1
  <2>1. frames' \in Seq(FrameType) /\ Len(frames') = n - 1
    BY <1>1, <1>2
  <2> HIDE DEF n
  <2> QED
    BY <1>2, <2>1
<1>5. original \in TypeDefs /\ IsModule(types)
  BY <1>1, ModuleAssumption DEF WalkInv, BeganAtOriginal, WalkTypeOK
<1> HIDE DEF n
<1>6. PathReached'
  <2>1. \A td : ReachedBy(RefsOf, td)' = ReachedBy(RefsOf, td)
    BY SameTypes
  <2>2. \A td : ReachedBy(NothingBut, td)' = ReachedBy(NothingBut, td)
    BY SameTypes
  <2>3. PathReached
    BY DEF FoundInv
  <2> QED
    BY <1>1, <1>2, <1>3, <2>1, <2>2, <2>3 DEF PathReached
<1>7. PathNeeded'
  <2>1. \A td, d : Needs(td, d)' = Needs(td, d)
    BY SameTypes
  <2>2. \A i, j \in 1 .. n - 1 : i < j => i + 1 \in 1 .. n - 1
    BY <1>2
  <2>3. PathNeeded
    BY DEF FoundInv
  <2> QED
    BY <1>2, <1>3, <2>1, <2>2, <2>3 DEF PathNeeded
<1>8. Sound'
  BY <1>1, SameTypes DEF Sound, FoundInv
<1>9. ASSUME NEW look \in Looks, LeadsBack(look, original), original \notin Found(look)
      PROVE  \E i \in 1 .. n - 1 : \E j \in Nat : WayBackFrom(look, i, j)
  <2>1. PICK i \in 1 .. n, j \in Nat : WayBackFrom(look, i, j)
    BY <1>1, <1>2, <1>9 DEF FoundInv, StillAhead
  <2>2. i # n
    <3>1. j \in DOMAIN ElementsOf(frames[i].td) /\ j >= frames[i].at
      BY <2>1 DEF WayBackFrom
    <3>2. /\ Len(ElementsOf(frames[i].td)) \in Nat
          /\ DOMAIN ElementsOf(frames[i].td) = 1 .. Len(ElementsOf(frames[i].td))
      BY <1>0, <1>2, <1>5, ModuleFacts DEF FrameType
    <3>3. frames[i].at \in Nat
      BY <1>0, <1>2 DEF FrameType
    <3>4. frames[i].at <= Len(ElementsOf(frames[i].td))
      BY <3>1, <3>2, <3>3
    <3> QED
      BY <1>1, <3>4 DEF AtElement, Top, n
  <2> QED
    BY <1>2, <2>1, <2>2
<1>12. \A look : Found(look)' = Found(look)
  BY <1>1 DEF Found
<1>13. EmptyIsMandatory'
  BY <1>2, <1>3 DEF EmptyIsMandatory, FoundInv
<1>10. StillAhead'
  <2> SUFFICES ASSUME NEW look \in Looks, LeadsBack(look, original), original \notin Found(look)
               PROVE  \E i \in DOMAIN frames' : \E j \in Nat : WayBackFrom(look, i, j)'
    BY <1>1, <1>12, SameTypes DEF StillAhead, LeadsBack
  <2>1. PICK i \in 1 .. n - 1, j \in Nat : WayBackFrom(look, i, j)
    BY <1>9
  <2>2. frames'[i] = frames[i] /\ On(frames', i) = On(frames, i)
    <3>1. \A k \in 2 .. i : k \in 1 .. n - 1
      BY <1>2
    <3> QED
      BY <1>3, <3>1 DEF On
  <2>3. j >= frames'[i].at
    BY <2>1, <2>2 DEF WayBackFrom
  <2>4. WayBackFrom(look, i, j)'
    BY <1>1, <2>1, <2>2, <2>3, WayBackStays
  <2> QED
    BY <1>3, <2>4
<1>11. FoundBefore'
  <2>1. FoundBefore
    BY DEF FoundInv
  <2>2. CASE n = 1
    <3>1. \A look \in Looks : LeadsBack(look, original) => original \in Found(look)
      BY <1>9, <2>2
    <3>2. \A td \in TypeDefs : Finished(td)' => Finished(td) \/ td = original
      BY <1>1 DEF Finished
    <3> QED
      BY <1>12, <2>1, <3>1, <3>2, SameTypes DEF FoundBefore, LeadsBack
  <2>3. CASE n # 1
    BY <1>1, <1>4, <1>12, <2>1, <2>3, StillLooking
  <2> QED
    BY <2>2, <2>3
<1> QED
  BY <1>6, <1>7, <1>8, <1>10, <1>11, <1>13 DEF FoundInv

LEMMA OtherStepFinds ==
  ASSUME FoundInv, UNCHANGED <<types, recursive, recursiveVars>>
  PROVE  FoundInv'
<1>1. UNCHANGED <<types, original, frames, recursive, noValues, infinite>>
  BY DEF recursiveVars
<1>2. PathReached' /\ EmptyIsMandatory'
  BY <1>1, SameTypes DEF PathReached, EmptyIsMandatory, FoundInv
<1>3. PathNeeded'
  BY <1>1, SameTypes DEF PathNeeded, FoundInv
<1>4. Sound'
  BY <1>1, SameTypes DEF Sound, FoundInv
<1>5. StillAhead'
  BY <1>1, SameTypes DEF StillAhead, FoundInv, WayBackFrom, LeadsBack, Found
<1>6. FoundBefore'
  BY <1>1, SameTypes DEF FoundBefore, FoundInv, Finished, LeadsBack, Found
<1> QED
  BY <1>2, <1>3, <1>4, <1>5, <1>6 DEF FoundInv

LEMMA InitFoundInv == Init => FoundInv
<1> SUFFICES ASSUME Init PROVE FoundInv
  OBVIOUS
<1>1. /\ IsModule(types) /\ recursive = {} /\ noValues = {} /\ infinite = {}
      /\ original = 0 /\ frames = << >> /\ DOMAIN frames = {}
  BY ModuleAssumption DEF Init, RecursiveInit
<1>2. PathReached /\ EmptyIsMandatory /\ PathNeeded /\ Sound /\ StillAhead
  BY <1>1 DEF PathReached, EmptyIsMandatory, PathNeeded, Sound, StillAhead
<1>3. FoundBefore
  BY <1>1, ModuleFacts DEF FoundBefore, Finished
<1> QED
  BY <1>2, <1>3 DEF FoundInv

LEMMA NextFinds == WalkInv /\ FoundInv /\ [Next]_vars => FoundInv'
<1> SUFFICES ASSUME WalkInv, FoundInv, [Next]_vars PROVE FoundInv'
  OBVIOUS
<1>1. CASE Mark
  <2>1. types' = types
    BY <1>1 DEF Mark
  <2>2. CASE MkRecTypeDef
    BY <2>1, <2>2, MkRecTypeDefFinds
  <2>3. CASE RefToOriginal
    BY <2>1, <2>3, RefToOriginalFinds
  <2>4. CASE EnterRef
    BY <2>1, <2>4, EnterRefFinds DEF EnterRef
  <2>5. CASE PassRef
    BY <2>1, <2>5, PassRefFinds DEF PassRef
  <2>6. CASE MkRecTypeReturns
    BY <2>1, <2>6, ReturnFinds DEF MkRecTypeReturns
  <2> QED
    BY <1>1, <2>2, <2>3, <2>4, <2>5, <2>6 DEF Mark, RecursiveNext
<1>2. FillTDIDefaults \/ GetTypeFollows \/ GetTypeReturns \/ Sort \/ UNCHANGED vars
      => UNCHANGED <<types, recursive, recursiveVars>>
  BY DEF FillTDIDefaults, GetTypeFollows, GetTypeReturns, Sort, vars
<1> QED
  BY <1>1, <1>2, OtherStepFinds DEF Next

-----------------------------------------------------------------------------
\* Whatever the module, a definition is marked recursive if and only if it
\* reaches itself, though the walk that looks for it leaves out what it is
\* already in (recursive.c:194-210); one it says "can hold no values" is
\* nothing but itself, and none that is warned of has a value of finite size
\* (recursive.c:176-187).
THEOREM RecursiveTypesAreFound == Spec => []RecursiveFound
<1>1. Init => WalkInv /\ FoundInv
  BY InitWalkInv, InitFoundInv
<1>2. (WalkInv /\ FoundInv) /\ [Next]_vars => (WalkInv /\ FoundInv)'
  BY NextKeepsWalkInv, NextFinds
<1>3. WalkInv /\ FoundInv => RecursiveFound
  <2> SUFFICES ASSUME WalkInv, FoundInv PROVE RecursiveFound
    OBVIOUS
  <2>1. IsModule(types)
    BY ModuleAssumption DEF WalkInv, WalkTypeOK
  <2>2. \A td \in TypeDefs : OnCycle(RefsOf, td) => LeadsBack("any", td)
    BY <2>1, AnyIsRefsOf DEF OnCycle, LeadsBack
  <2> QED
    BY <2>2 DEF FoundInv, FoundBefore, Sound, RecursiveFound, Looks, Found
<1> QED
  BY <1>1, <1>2, <1>3, PTL DEF Spec

-----------------------------------------------------------------------------
(* What has no finite value is warned of, and so is a circle of references *)
(* before GetType follows it.                                              *)

\* GetType runs on definitions of the module, and once all are marked.
LinkedInv ==
  /\ asked \in 0 .. Len(types) /\ linked \in 0 .. Len(types)
  /\ asked # 0 \/ linked # 0 => AllMarked

LEMMA MarkedStaysMarked ==
  ASSUME WalkInv, AllMarked PROVE ~RecursiveNext
<1>1. original = Len(types) /\ frames = << >> /\ Len(types) \in Nat
  BY ModuleAssumption, ModuleFacts DEF WalkInv, WalkTypeOK, AllMarked
<1>2. ~MkRecTypeDef
  <2>1. ~(original < Len(types))
    BY <1>1
  <2> QED
    BY <2>1 DEF MkRecTypeDef
<1>3. ~(RefToOriginal \/ EnterRef \/ PassRef)
  BY <1>1 DEF RefToOriginal, EnterRef, PassRef, AtElement
<1>4. ~MkRecTypeReturns
  BY <1>1 DEF MkRecTypeReturns
<1> QED
  BY <1>2, <1>3, <1>4 DEF RecursiveNext

LEMMA NextKeepsLinked == WalkInv /\ LinkedInv /\ [Next]_vars => LinkedInv'
<1> SUFFICES ASSUME WalkInv, LinkedInv, [Next]_vars PROVE LinkedInv'
  OBVIOUS
<1>1. IsModule(types)
  BY ModuleAssumption DEF WalkInv, WalkTypeOK
<1>2. Len(types) \in Nat /\ TypeDefs = 1 .. Len(types)
  BY <1>1, ModuleFacts
<1>3. CASE Mark
  <2>1. asked = 0 /\ linked = 0
    BY <1>3, MarkedStaysMarked DEF LinkedInv, Mark
  <2> QED
    BY <1>2, <1>3, <2>1 DEF LinkedInv, Mark
<1>4. CASE FillTDIDefaults
  BY <1>2, <1>4 DEF LinkedInv, FillTDIDefaults, AllMarked, recursiveVars
<1>5. CASE GetTypeFollows
  <2>1. linked \in TypeDefs /\ IsRef(linked)
    BY <1>2, <1>5 DEF LinkedInv, GetTypeFollows
  <2>2. Link(linked) \in TypeDefs
    BY <1>1, <2>1, ModuleFacts DEF Link
  <2> QED
    BY <1>2, <1>5, <2>2 DEF LinkedInv, GetTypeFollows, AllMarked, recursiveVars
<1>6. CASE GetTypeReturns
  BY <1>2, <1>6 DEF LinkedInv, GetTypeReturns, AllMarked, recursiveVars
<1>7. CASE Sort \/ UNCHANGED vars
  BY <1>7 DEF Sort, vars, LinkedInv, AllMarked, recursiveVars
<1> QED
  BY <1>3, <1>4, <1>5, <1>6, <1>7 DEF Next

\* Without a finite value, a definition must contain one that has none either.
LEMMA InfiniteContains ==
  ASSUME IsModule(types), ChoicesHaveAWayOut, NEW td \in TypeDefs, td \notin Finite
  PROVE  \E d \in Steps("must")[td] : d \notin Finite
<1>1. ~Built(td, Finite)
  BY FiniteIsBuilt
<1>2. types[td].kind \in Kinds /\ types[td].kind \notin {"library", "list"}
  BY <1>1, ModuleFacts DEF Built
<1> DEFINE must == {i \in DOMAIN ElementsOf(td) : Follows("must", td, i)}
<1>3. ASSUME NEW i \in must, ElementsOf(td)[i].to \notin Finite
      PROVE  \E d \in Steps("must")[td] : d \notin Finite
  BY <1>3 DEF Steps
<1>4. CASE types[td].kind = "ref"
  <2>1. DOMAIN ElementsOf(td) = 1 .. 1 /\ ~ElementsOf(td)[1].opt
    BY <1>4, ModuleFacts DEF IsRef
  <2>2. 1 \in must
    BY <1>4, <2>1 DEF Follows, IsList
  <2>3. ElementsOf(td)[1].to \notin Finite
    BY <1>1, <1>4 DEF Built, Link
  <2> QED
    BY <1>3, <2>2, <2>3
<1>5. CASE types[td].kind = "choice"
  <2>1. types[td].others = 0 /\ RefsOf(td) \cap Finite = {}
    BY <1>1, <1>5, ModuleFacts DEF Built
  <2>2. Arity(td) = 1
    <3>1. Arity(td) \in Nat /\ Arity(td) > 0
      BY <1>5, ModuleFacts DEF Arity
    <3> QED
      BY <1>5, <2>1, <3>1 DEF ChoicesHaveAWayOut
  <2>3. Len(ElementsOf(td)) = 1
    <3>1. Len(ElementsOf(td)) \in Nat /\ Arity(td) = Len(ElementsOf(td)) + 0
      BY <2>1, ModuleFacts DEF Arity
    <3> QED
      BY <2>2, <3>1
  <2>4. DOMAIN ElementsOf(td) = 1 .. 1 /\ ~ElementsOf(td)[1].opt
    BY <1>5, <2>3, ModuleFacts
  <2>5. 1 \in must
    BY <1>5, <2>2, <2>4 DEF Follows, IsList
  <2>6. ElementsOf(td)[1].to \notin Finite
    BY <2>1, <2>4 DEF RefsOf
  <2> QED
    BY <1>3, <2>5, <2>6
<1>6. CASE types[td].kind \in {"set", "sequence"}
  <2>1. PICK i \in DOMAIN ElementsOf(td) : ~ElementsOf(td)[i].opt /\ ElementsOf(td)[i].to \notin Finite
    BY <1>1, <1>6 DEF Built, ElementsOf
  <2>2. i \in must
    BY <1>6, <2>1 DEF Follows, IsList
  <2> QED
    BY <1>3, <2>1, <2>2
<1> QED
  BY <1>2, <1>4, <1>5, <1>6 DEF Kinds

LEMMA InfinityIsWarned ==
  ASSUME IsModule(types), ChoicesHaveAWayOut, FoundInv, AllMarked, NEW td \in TypeDefs, td \notin Finite
  PROVE  (ReachedBy(RefsOf, td) \cup {td}) \cap (noValues \cup infinite) # {}
<1> DEFINE s == Steps("must")
           R == ReachedBy(RefsOf, td) \cup {td}
           M == R \ Finite
<1>1. IsGraph(s, Len(types)) /\ TypeDefs = 1 .. Len(types) /\ \A d \in TypeDefs : s[d] \subseteq RefsOf(d)
  BY StepsAreAGraph DEF Looks
<1>2. R \subseteq TypeDefs /\ \A d \in R : RefsOf(d) \subseteq R
  BY ReachedByRefsOf
<1>3. M \in SUBSET (1 .. Len(types)) /\ M # {}
  BY <1>1, <1>2
<1>4. \A d \in M : s[d] \cap M # {}
  <2> TAKE d \in M
  <2>1. d \in TypeDefs /\ d \notin Finite
    BY <1>2
  <2>2. PICK e \in s[d] : e \notin Finite
    BY <2>1, InfiniteContains
  <2>3. e \in R
    BY <1>1, <1>2, <2>1
  <2> QED
    BY <2>2, <2>3
<1> HIDE DEF M
<1>5. PICK f \in M : LeadsBack("must", f)
  <2> HIDE DEF s
  <2>1. \E f \in M : f \in Reach(s, Len(types), f)
    BY <1>1, <1>3, <1>4, CycleAmong
  <2> QED
    BY <2>1 DEF LeadsBack, s
<1>6. f \in TypeDefs /\ Finished(f)
  BY <1>1, <1>3, ModuleFacts DEF AllMarked, Finished
<1>7. f \in noValues \cup infinite
  BY <1>5, <1>6 DEF FoundInv, FoundBefore, Looks, Found
<1> QED
  BY <1>7 DEF M

LEMMA CircleIsWarned ==
  ASSUME IsModule(types), FoundInv, AllMarked, NEW td \in TypeDefs, ~HasBuiltin(td)
  PROVE  ReachedBy(NothingBut, td) \cap noValues # {}
<1> DEFINE s == Steps("only")
           M == Chain(td)
           R == ReachedBy(NothingBut, td)
<1>1. IsGraph(s, Len(types)) /\ TypeDefs = 1 .. Len(types) /\ \A d \in TypeDefs : s[d] = NothingBut(d)
  BY StepsAreAGraph, OnlyIsNothingBut DEF Looks
<1>2. M \in SUBSET (1 .. Len(types)) /\ td \in M /\ \A d \in M : IsRef(d) /\ Link(d) \in M
  BY <1>1, ChainIsClosed DEF HasBuiltin
<1>3. \A d \in TypeDefs : IsRef(d) => Link(d) \in NothingBut(d)
  BY ModuleFacts DEF NothingBut, RefsOf, Link
<1>4. M \subseteq R \cup {td}
  <2>1. R \cup {td} \in SUBSET TypeDefs
    BY ReachedByNothingBut
  <2>2. \A d \in R \cup {td} : NothingBut(d) \subseteq R \cup {td}
    BY ReachedByNothingBut
  <2>3. \A d \in R \cup {td} : IsRef(d) => Link(d) \in R \cup {td}
    BY <1>3, <2>1, <2>2
  <2> QED
    BY <2>1, <2>3, ChainIsClosed
<1>5. \A d \in M : s[d] \cap M # {}
  BY <1>1, <1>2, <1>3
<1> HIDE DEF M, R
<1>6. PICK f \in M : LeadsBack("only", f)
  <2> HIDE DEF s
  <2>1. \E f \in M : f \in Reach(s, Len(types), f)
    BY <1>1, <1>2, <1>5, CycleAmong
  <2> QED
    BY <2>1 DEF LeadsBack, s
<1>7. f \in TypeDefs /\ Finished(f)
  BY <1>1, <1>2, ModuleFacts DEF AllMarked, Finished
<1>8. f \in noValues
  BY <1>6, <1>7 DEF FoundInv, FoundBefore, Looks, Found
<1>9. f \in ReachedBy(NothingBut, f)
  BY <1>6, <1>7, OnlyIsNothingBut DEF LeadsBack
<1>10. f \in R
  BY <1>4, <1>9 DEF R
<1> QED
  BY <1>8, <1>10 DEF R

\* Whatever the module, when a definition has no value of finite size one that
\* it is made of is warned of, unless a CHOICE of several that offers nothing
\* but references may be to blame (recursive.c:133-141); and GetType follows no
\* circle of references that was not warned of (snacc-util.c:688).
THEOREM InfinityIsNoticed == Spec => []InfinityWarned
<1>1. Init => WalkInv /\ FoundInv /\ LinkedInv
  <2>1. Init => Len(types) \in Nat
    BY ModuleAssumption, ModuleFacts DEF Init
  <2> QED
    BY <2>1, InitWalkInv, InitFoundInv DEF Init, LinkedInv
<1>2. (WalkInv /\ FoundInv /\ LinkedInv) /\ [Next]_vars => (WalkInv /\ FoundInv /\ LinkedInv)'
  BY NextKeepsWalkInv, NextFinds, NextKeepsLinked
<1>3. WalkInv /\ FoundInv /\ LinkedInv => InfinityWarned
  <2> SUFFICES ASSUME WalkInv, FoundInv, LinkedInv PROVE InfinityWarned
    OBVIOUS
  <2>1. IsModule(types)
    BY ModuleAssumption DEF WalkInv, WalkTypeOK
  <2>2. linked # 0 => linked \in TypeDefs
    BY <2>1, ModuleFacts DEF LinkedInv
  <2> QED
    BY <2>1, <2>2, InfinityIsWarned, CircleIsWarned DEF InfinityWarned, LinkedInv
<1> QED
  BY <1>1, <1>2, <1>3, PTL DEF Spec
=============================================================================
