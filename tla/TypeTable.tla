----------------------------- MODULE TypeTable -----------------------------
(***************************************************************************)
(* A loaded type table (tbl.h, tbl-util.c) and the BER octets its decoders *)
(* read.  Tags and lengths take one octet each: a tag of a code below 31,  *)
(* a length below 128, or the octet 128 of the indefinite form.            *)
(***************************************************************************)
EXTENDS Integers, Sequences

CONSTANTS
  Type,  \* the types of the table, element types included
  Def,   \* Def[t]: what the table says of type t
  Root,  \* the type that is decoded
  Octet  \* the octets a buffer may hold

\* "tags" is the tag list in order, outermost first, each as its encoded octet.
TypeRecord ==
  [kind : {"int", "bool", "seq", "set", "of", "choice", "ref"},
   tags : Seq(Octet), elmts : Seq(Type), to : Type,
   implicit : BOOLEAN, optional : BOOLEAN]

ASSUME TableAssumption ==
  /\ Def \in [Type -> TypeRecord] /\ Root \in Type
  \* only references and CHOICEs can have empty tag lists
  /\ \A t \in Type : Def[t].tags = <<>> => Def[t].kind \in {"choice", "ref"}
  \* a list has the type of its elements
  /\ \A t \in Type : Def[t].kind = "of" => Def[t].elmts # <<>>

ASSUME OctetAssumption == Octet \subseteq 0..255

-----------------------------------------------------------------------------
(* Tags.                                                                   *)

\* The tags a value of type t may start with: through untagged references, and
\* through the elements of an untagged CHOICE.
FirstTags[t \in Type] ==
  CASE Def[t].tags # <<>>      -> {Def[t].tags[1]}
    [] Def[t].kind = "ref"     -> FirstTags[Def[t].to]
    [] OTHER -> UNION {FirstTags[Def[t].elmts[i]] : i \in DOMAIN Def[t].elmts}

TagsMatch(t, tag) == tag \in FirstTags[t]

\* The tags that are encoded for t, in order: under an implicit reference the
\* first one is not.
EncodedTags(t, implicit) ==
  IF implicit /\ Def[t].tags # <<>> THEN Tail(Def[t].tags) ELSE Def[t].tags

\* Mutant: only the reference's own implicit flag counts.
ImplicitRefOwn(t, implicit) == Def[t].implicit

\* An implicit reference is carried over through a reference with no tags.
ImplicitRef(t, implicit) == Def[t].implicit \/ (implicit /\ Def[t].tags = <<>>)

\* The elements of t that match a tag; the loops take the first.
Matching(t, tag) == {i \in DOMAIN Def[t].elmts : TagsMatch(Def[t].elmts[i], tag)}

FirstMatch(t, tag) == {i \in Matching(t, tag) : \A j \in Matching(t, tag) : i <= j}

-----------------------------------------------------------------------------
(* Octets.                                                                 *)

Indefinite == -1
TLSize     == 2     \* octets of a tag and its length
EocSize    == 2

Constructed(tag) == (tag \div 32) % 2 = 1

Length(octet) == IF octet = 128 THEN Indefinite ELSE octet

TagNLen == [tag : Octet, len : {Length(o) : o \in Octet}]

\* A tag and its length can be read from "input" after its first p octets.
HasTL(input, p) == p + TLSize <= Len(input) /\ input[p + 2] <= 128
TLAt(input, p)  == [tag |-> input[p + 1], len |-> Length(input[p + 2])]

\* At the end of data PeekByte returns zero, so PeekEoc sees an EOC.
PeekEoc(input, p) == p >= Len(input) \/ input[p + 1] = 0

\* Past the end PeekCopy copies nothing: the tag comes from a local array that
\* was never initialised.
PeekTags(input, p) == IF p < Len(input) THEN {input[p + 1]} ELSE Octet

HasEoc(input, p) == p + EocSize <= Len(input) /\ input[p + 1] = 0 /\ input[p + 2] = 0

AtMost(m, n) == IF m <= n THEN m ELSE n

\* The content decoders of the two leaf types, for content of length len: the
\* octets they read, and whether they return rather than longjmp.  An INTEGER
\* of no octets reads one all the same.
ContentOctets(k, len) == IF k = "int" /\ len = 0 THEN 1 ELSE len
ContentDecodes(k, len, left) ==
  /\ k = "int"  => len \in 0..4
  /\ k = "bool" => len = 1
  /\ ContentOctets(k, len) <= left

=============================================================================
