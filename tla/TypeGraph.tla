----------------------------- MODULE TypeGraph -----------------------------
(***************************************************************************)
(* The type definitions of one ASN.1 module as the passes after            *)
(* normalisation see them (compiler/core): a definition is a library type, *)
(* a reference, a list, a CHOICE or a SET/SEQUENCE whose elements are      *)
(* library types or references, since normalize.c has given every nested   *)
(* constructed type a definition of its own.                               *)
(*                                                                         *)
(* The definitions are the numbers 1..n in the order of the source file.   *)
(***************************************************************************)
EXTENDS Integers, Sequences

VARIABLES
  types,      \* the definitions: a sequence of [kind, refs, others]
  target,     \* the back end that will be run: "C" or "C++"
  recursive   \* the definitions whose td->recursive is set

Kinds == {"library", "ref", "list", "choice", "set", "sequence"}

\* What the passes are given: references that are linked, one of them in a
\* definition that is a reference, none in a library type; only the elements
\* of a SET or a SEQUENCE are OPTIONAL, and a CHOICE has an alternative.
IsModule(defs) ==
  /\ defs \in Seq([kind : Kinds,
                   refs : Seq([to : 1 .. Len(defs), opt : BOOLEAN]),
                   others : Nat])
  /\ \A td \in DOMAIN defs :
       /\ defs[td].kind = "ref" => Len(defs[td].refs) = 1
       /\ defs[td].kind = "library" => defs[td].refs = << >>
       /\ defs[td].kind = "choice" => Len(defs[td].refs) + defs[td].others > 0
       /\ \A i \in DOMAIN defs[td].refs :
            defs[td].refs[i].opt => defs[td].kind \in {"set", "sequence"}

TypeDefs == DOMAIN types
ElementsOf(td) == types[td].refs          \* the elements that are references, in order
RefsOf(td) == {ElementsOf(td)[i].to : i \in DOMAIN ElementsOf(td)}

\* AsnListCount of the elements: those of a library type ("others") count.
Arity(td) == Len(ElementsOf(td)) + types[td].others

IsList(td) == types[td].kind = "list"
IsRef(td) == types[td].kind = "ref"
Link(td) == ElementsOf(td)[1].to

(***************************************************************************)
(* What the pointer rules of the back ends make of a reference             *)
(***************************************************************************)

\* The links a chain of references leads through, the first definition too.
Chain(td) ==
  LET reached[k \in 0 .. Len(types)] ==
        IF k = 0 THEN {td}
        ELSE reached[k-1] \cup {Link(d) : d \in {e \in reached[k-1] : IsRef(e)}}
  IN  reached[Len(types)]

\* A definition on a circle of references, or leading to one, has no built-in
\* type: GetType follows its links for ever.
HasBuiltin(td) == \E d \in Chain(td) : ~IsRef(d)
Builtin(td) == types[CHOOSE d \in Chain(td) : ~IsRef(d)].kind

\* IsCPtr and the table of c-gen/rules.c: a structure's element is a pointer
\* unless it is a mandatory library type, a CHOICE's one unless it is a
\* library type; a definition that is a reference is never a pointer.
CPtr(td, element) ==
  \/ types[td].kind \in {"set", "sequence", "choice"} /\ Builtin(element.to) # "library"
  \/ element.opt

\* IsCxxPtr and the table of c++-gen/rules.c: a CHOICE's element is a pointer,
\* a list's one unless it is a SET or a CHOICE, a structure's one when it is
\* optional.
CxxPtr(td, element) ==
  \/ types[td].kind = "choice"
  \/ IsList(td) /\ Builtin(element.to) \notin {"set", "choice"}
  \/ element.opt

IsPtr(td, element) == IF target = "C" THEN CPtr(td, element) ELSE CxxPtr(td, element)

\* BuildWeightedLocalRefList: the definitions td names and not as a pointer.
\* The lists of C do not depend on the type of their elements.
ByValueRefsOf(td) ==
  IF target = "C" /\ IsList(td) THEN {}
  ELSE {ElementsOf(td)[i].to : i \in {j \in DOMAIN ElementsOf(td) : ~IsPtr(td, ElementsOf(td)[j])}}

(***************************************************************************)
(* Reference definitions, for the properties                               *)
(***************************************************************************)

\* The definitions a path of one or more steps of the relation leads to.
ReachedBy(Step(_), td) ==
  LET reached[k \in 0 .. Len(types)] ==
        IF k = 0 THEN Step(td)
        ELSE reached[k-1] \cup UNION {Step(d) : d \in reached[k-1]}
  IN  reached[Len(types)]

OnCycle(Step(_), td) == td \in ReachedBy(Step, td)

\* A value of td can be made of values of the definitions known: what any
\* value must contain is known.
Built(td, known) ==
  LET t == types[td]
  IN  CASE t.kind \in {"library", "list"} -> TRUE
        [] t.kind = "ref" -> Link(td) \in known
        [] t.kind = "choice" -> t.others > 0 \/ RefsOf(td) \cap known # {}
        [] OTHER -> \A i \in DOMAIN t.refs : t.refs[i].opt \/ t.refs[i].to \in known

\* The definitions that have a value of finite size.
Finite ==
  LET finite[k \in 0 .. Len(types)] ==
        IF k = 0 THEN {} ELSE {td \in TypeDefs : Built(td, finite[k-1])}
  IN  finite[Len(types)]

\* The definitions a value holds nothing of but another definition.
NothingBut(td) ==
  IF IsRef(td) \/ (types[td].kind = "choice" /\ Arity(td) = 1) THEN RefsOf(td) ELSE {}
=============================================================================
