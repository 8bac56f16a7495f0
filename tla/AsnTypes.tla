------------------------------ MODULE AsnTypes ------------------------------
(***************************************************************************)
(* ASN.1 types as they are written in a module, values, and what X.680 and *)
(* X.690 say of their tags and encodings: the reference the compiler, its  *)
(* encoders and its decoders are compared with.  Tags are below 31,        *)
(* definite lengths in the short form but for that of a string, which a    *)
(* sender may write in the long one.                                       *)
(*                                                                         *)
(* A type is a record: its kind, the tags written before it (outermost     *)
(* first, each with EXPLICIT, IMPLICIT or neither), the types of its       *)
(* elements, the type it refers to (to, in a sequence), which alternative  *)
(* a selection selects, and, of an element, whether it is OPTIONAL and its *)
(* DEFAULT.  A value is four octets of an INTEGER, the octets of an OCTET  *)
(* STRING, a sequence of elements (<<>> is an absent one), of values, or   *)
(* an alternative of a CHOICE and its value.                               *)
(***************************************************************************)
EXTENDS Integers, Sequences, TLC
LOCAL INSTANCE SequencesExt
LOCAL INSTANCE FiniteSets

\* What a module says before BEGIN of the tags that say neither.
ExplicitTags  == "EXPLICIT TAGS"
ImplicitTags  == "IMPLICIT TAGS"
AutomaticTags == "AUTOMATIC TAGS"

Type(kind, elmts) ==
  [kind |-> kind, prefix |-> <<>>, elmts |-> elmts, to |-> <<>>, selected |-> 0,
   optional |-> FALSE, default |-> <<>>]

Integer        == Type("int", <<>>)
OctetString    == Type("octs", <<>>)
Sequence(es)   == Type("seq", es)
SetType(es)    == Type("set", es)
SequenceOf(e)  == Type("of", <<e>>)
SetOf(e)       == Type("setof", <<e>>)
ChoiceType(es) == Type("choice", es)
\* The name of a definition; COMPONENTS OF one; alternative i of one ("a < Foo").
Ref(t)          == [Type("ref", <<>>) EXCEPT !.to = <<t>>]
ComponentsOf(t) == [Type("componentsof", <<>>) EXCEPT !.to = <<t>>]
Selection(i, t) == [Type("selection", <<>>) EXCEPT !.to = <<t>>, !.selected = i]

\* [n] EXPLICIT, [n] IMPLICIT, [n].
Prefixed(n, how, t) == [t EXCEPT !.prefix = <<[number |-> n, how |-> how]>> \o @]
Explicit(n, t) == Prefixed(n, "EXPLICIT", t)
Implicit(n, t) == Prefixed(n, "IMPLICIT", t)
Plain(n, t)    == Prefixed(n, "", t)
Optional(t)   == [t EXCEPT !.optional = TRUE]
Default(v, t) == [t EXCEPT !.default = <<v>>]
MayBeAbsent(t) == t.optional \/ t.default # <<>>

Absent     == <<>>
Present(v) == <<v>>
Alt(i, v)  == [alt |-> i, val |-> v]

-----------------------------------------------------------------------------
(* X.680, for a module with tag default d.                                 *)

Cntx(n) == 128 + n

UniversalTag(kind) ==
  CASE kind = "int" -> <<2>> [] kind = "octs" -> <<4>>
    [] kind \in {"seq", "of"} -> <<16>> [] kind \in {"set", "setof"} -> <<17>>
    [] kind = "choice" -> <<>>

RECURSIVE BehindRefs(_)
BehindRefs(t) == IF t.kind = "ref" THEN BehindRefs(t.to[1]) ELSE t

\* The elements of a SET, SEQUENCE or CHOICE: COMPONENTS OF stands for those of another.
RECURSIVE Components(_)
Components(t) ==
  FlattenSeq([i \in DOMAIN t.elmts |->
    IF t.elmts[i].kind = "componentsof" THEN Components(BehindRefs(t.elmts[i].to[1]))
    ELSE <<t.elmts[i]>>])

\* AUTOMATIC TAGS count the elements from zero, where none is written with a tag.
AutomaticallyTagged(d, t) ==
  /\ d = AutomaticTags
  /\ t.kind \in {"seq", "set", "choice"}
  /\ \A i \in DOMAIN t.elmts : t.elmts[i].prefix = <<>>

ElmtsOf(d, t) ==
  IF AutomaticallyTagged(d, t)
  THEN [i \in DOMAIN Components(t) |-> Plain(i - 1, Components(t)[i])] ELSE Components(t)

\* The type a reference or a selection stands for.
RECURSIVE Denoted(_, _)
Denoted(d, t) ==
  CASE t.kind = "ref"       -> Denoted(d, t.to[1])
    [] t.kind = "selection" -> Denoted(d, ElmtsOf(d, Denoted(d, t.to[1]))[t.selected])
    [] OTHER                -> t

\* All the tags of a type: an implicit tag takes the place of the first one under
\* it; one that says neither is explicit before an untagged CHOICE.
WithTag(d, p, under) ==
  <<Cntx(p.number)>> \o
  (IF \/ p.how = "EXPLICIT"
      \/ p.how = "" /\ (d = ExplicitTags \/ under = <<>>) THEN under ELSE Tail(under))

RECURSIVE TagsOf(_, _)
TagsOf(d, t) ==
  FoldRight(LAMBDA p, under : WithTag(d, p, under), t.prefix,
    CASE t.kind = "ref"       -> TagsOf(d, t.to[1])
      [] t.kind = "selection" -> TagsOf(d, ElmtsOf(d, Denoted(d, t.to[1]))[t.selected])
      [] OTHER                -> UniversalTag(t.kind))

-----------------------------------------------------------------------------
(* X.690.                                                                  *)

Short(n) == <<n>>
Long(n)  == <<129, n>>
Definite(tag, content)   == <<tag + 32>> \o Short(Len(content)) \o content
Indefinite(tag, content) == <<tag + 32, 128>> \o content \o <<0, 0>>
Primitive(tag, content)  == <<tag>> \o Short(Len(content)) \o content

\* The encodings with "inner" inside explicit tags.
RECURSIVE UnderTags(_, _)
UnderTags(tags, inner) ==
  IF tags = <<>> THEN inner
  ELSE UnderTags(Front(tags), UNION {{Definite(Last(tags), c), Indefinite(Last(tags), c)} : c \in inner})

\* One octet string of each set, one after the other.
Joined(sets) ==
  FoldLeft(LAMBDA acc, S : {a \o b : a \in acc, b \in S}, {<<>>}, sets)

\* What a string may look like: whole, or in two pieces under a constructed tag.
StringForms(tag, octs) ==
  {Primitive(tag, octs), <<tag>> \o Long(Len(octs)) \o octs} \cup
  LET half == Len(octs) \div 2
      pieces == Primitive(4, SubSeq(octs, 1, half)) \o Primitive(4, SubSeq(octs, half + 1, Len(octs)))
  IN {Definite(tag, pieces), Indefinite(tag, pieces)}

\* The elements of a SEQUENCE or SET value that are there.
PresentElmts(v) == SelectSeq([i \in DOMAIN v |-> i], LAMBDA i : v[i] # Absent)

\* An INTEGER's content: the fewest octets.
IntContent(v) ==
  LET Says(k) == /\ \A i \in 1..(k - 1) : v[i] = v[1]
                 /\ v[1] \in {0, 255} \/ k = 1
                 /\ (v[k] >= 128) = (v[1] >= 128)
  IN SubSeq(v, CHOOSE k \in 1..4 : Says(k) /\ \A j \in (k + 1)..4 : ~Says(j), 4)

\* Every encoding of value v of type t that a sender may choose.
RECURSIVE BerForms(_, _, _)
BerForms(d, t, v) ==
  LET b == Denoted(d, t)
      elmts == ElmtsOf(d, b)
      tags == TagsOf(d, t)
      Wrapped(contents) == UnderTags(tags, contents)
      InPrimitive == IF b.kind = "int"
                     THEN {Primitive(Last(tags), IntContent(v))}
                     ELSE StringForms(Last(tags), v)
      here == PresentElmts(v)
      Elmt(i) == BerForms(d, elmts[i], v[i][1])
  IN CASE b.kind \in {"int", "octs"} -> UnderTags(Front(tags), InPrimitive)
       [] b.kind = "seq" -> Wrapped(Joined([k \in DOMAIN here |-> Elmt(here[k])]))
       [] b.kind = "set" -> Wrapped(UNION {Joined([k \in DOMAIN here |-> Elmt(here[p[k]])]) :
                                           p \in Permutations(DOMAIN here)})
       [] b.kind \in {"of", "setof"} -> Wrapped(Joined([k \in DOMAIN v |-> BerForms(d, elmts[1], v[k])]))
       [] b.kind = "choice" -> Wrapped(BerForms(d, elmts[v.alt], v.val))

-----------------------------------------------------------------------------
(* DER: the one encoding that X.690 leaves.                                *)

\* The first tag a value of type t begins with, which orders the elements of a SET.
RECURSIVE OuterTag(_, _, _)
OuterTag(d, t, v) ==
  IF TagsOf(d, t) # <<>> THEN TagsOf(d, t)[1] ELSE OuterTag(d, ElmtsOf(d, Denoted(d, t))[v.alt], v.val)

\* As if the shorter one went on with zeros.
OctetsBefore(a, b) ==
  LET At(s, i) == IF i <= Len(s) THEN s[i] ELSE 0 IN
  \E i \in 1..(Len(a) + Len(b)) : At(a, i) < At(b, i) /\ \A j \in 1..(i - 1) : At(a, j) = At(b, j)

RECURSIVE DerForm(_, _, _)
DerForm(d, t, v) ==
  LET b == Denoted(d, t)
      elmts == ElmtsOf(d, b)
      Under(tags, inner) == FoldRight(LAMBDA tag, c : Definite(tag, c), tags, inner)
      kept == SelectSeq(PresentElmts(v), LAMBDA i : v[i] # elmts[i].default)
      Elmt(i) == DerForm(d, elmts[i], v[i][1])
      sorted == SortSeq(kept, LAMBDA i, j : OuterTag(d, elmts[i], v[i][1]) < OuterTag(d, elmts[j], v[j][1]))
      Octets(order) == FlattenSeq([k \in DOMAIN order |-> Elmt(order[k])])
      members == [k \in DOMAIN v |-> DerForm(d, elmts[1], v[k])]
  IN CASE b.kind = "int"    -> Under(Front(TagsOf(d, t)), Primitive(Last(TagsOf(d, t)), IntContent(v)))
       [] b.kind = "octs"   -> Under(Front(TagsOf(d, t)), Primitive(Last(TagsOf(d, t)), v))
       [] b.kind = "seq"    -> Under(TagsOf(d, t), Octets(kept))
       [] b.kind = "set"    -> Under(TagsOf(d, t), Octets(sorted))
       [] b.kind = "of"     -> Under(TagsOf(d, t), FlattenSeq(members))
       [] b.kind = "setof"  -> Under(TagsOf(d, t), FlattenSeq(SortSeq(members, OctetsBefore)))
       [] b.kind = "choice" -> Under(TagsOf(d, t), DerForm(d, elmts[v.alt], v.val))

=============================================================================
