------------------------------ MODULE MCCodec ------------------------------
(* A catalogue of small types: each way of tagging, through references, each *)
(* kind of container with elements that may be absent.                       *)
EXTENDS Codec

Five  == <<0, 0, 0, 5>>
Seven == <<0, 0, 0, 7>>
TwoOctets == <<0, 0, 1, 2>>
Minus == <<255, 255, 255, 127>>
Text  == <<7, 0>>

Tagged1 == Explicit(1, Integer)
Name    == Implicit(2, OctetString)

\* A ::= [1] IMPLICIT B, B ::= C (no tags), C ::= INTEGER: the implicit tag goes on.
ThroughRefs == Implicit(1, Ref(Ref(Integer)))
ExplicitRef == Explicit(3, Ref(Name))
Either      == ChoiceType(<<Integer, Name, Explicit(5, OctetString)>>)

Written(d, t, vs) == [tagDefault |-> d, type |-> t, values |-> vs]
Msg(t, vs) == Written(ExplicitTags, t, vs)

Pair == Sequence(<<Integer, Optional(Name)>>)

Types == <<
  Msg(ThroughRefs, {Five, TwoOctets, Minus}),
  Msg(ExplicitRef, {<<>>, Text}),
  Msg(Sequence(<<Tagged1, Default(Five, Integer), Optional(Name)>>),
      {<<Present(Five), Absent, Absent>>, <<Present(Minus), Present(Five), Present(<<>>)>>,
       <<Present(Five), Present(Minus), Absent>>}),
  Msg(Sequence(<<Explicit(0, Sequence(<<Integer, Optional(Name)>>)), Optional(Name)>>),
      {<<Present(<<Present(Five), Absent>>), Absent>>,
       <<Present(<<Present(Five), Absent>>), Present(<<>>)>>}),
  Msg(SetType(<<Implicit(1, Ref(Integer)), Optional(Name), Optional(Integer)>>),
      {<<Present(Five), Absent, Present(Minus)>>, <<Present(Five), Present(<<>>), Absent>>}),
  Msg(Explicit(4, ChoiceType(<<Explicit(6, Integer), Ref(Either)>>)), {Alt(2, Alt(1, Five))}),
  Msg(Ref(Either), {Alt(1, Minus), Alt(2, Text), Alt(3, Text)}),
  Msg(Sequence(<<Explicit(6, Ref(Either)), Optional(Ref(Either))>>),
      {<<Present(Alt(2, <<>>)), Absent>>, <<Present(Alt(1, Five)), Present(Alt(2, <<>>))>>}),
  Msg(SequenceOf(Implicit(1, SequenceOf(Integer))), {<<>>, <<<<Five>>, <<>>>>, <<<<Five, Minus>>>>}),
  Msg(SequenceOf(Ref(Either)), {<<Alt(2, Text), Alt(1, Five)>>}),
  Msg(SetOf(Integer), {<<Seven, Five>>, <<Five, Seven>>, <<Minus>>}),
  Msg(Sequence(<<>>), {<<>>}),
  Msg(SetType(<<>>), {<<>>}),
  Msg(Sequence(<<Ref(SequenceOf(Integer)), Name>>), {<<Present(<<Five>>), Present(<<>>)>>}),
  \* COMPONENTS OF and a selection.
  Msg(Sequence(<<ComponentsOf(Ref(Pair)), Explicit(7, Selection(2, Ref(Either)))>>),
      {<<Present(Five), Absent, Present(<<>>)>>}),
  \* A reference, an untagged CHOICE and a SEQUENCE under tags that say neither.
  Written(ImplicitTags, Sequence(<<Plain(0, Ref(Integer)), Plain(1, Ref(Either)), Optional(Plain(2, Pair))>>),
      {<<Present(Five), Present(Alt(1, Minus)), Absent>>}),
  Written(AutomaticTags, SetType(<<Integer, ChoiceType(<<OctetString, Sequence(<<Integer, Optional(Integer)>>)>>)>>),
      {<<Present(Five), Present(Alt(2, <<Present(Five), Absent>>))>>}),
  \* Refused: an OPTIONAL element like the next one, alternatives that begin alike,
  \* IMPLICIT tags before an untagged CHOICE, referred to and written there.
  Msg(Sequence(<<Optional(Integer), Ref(Integer)>>), {<<Absent, Present(Five)>>}),
  Msg(ChoiceType(<<Integer, Ref(Either)>>), {Alt(2, Alt(1, Five))}),
  Msg(Implicit(1, Ref(Either)), {Alt(1, Five)}),
  Msg(Implicit(1, ChoiceType(<<Integer, Name>>)), {Alt(1, Five)}) >>

\* SEQUENCE OF [1] EXPLICIT OCTET STRING.
ListTypes == <<Msg(SequenceOf(Explicit(1, OctetString)), {<<>>, <<Text>>, <<Text, <<>>>>}),
              Msg(SequenceOf(Explicit(1, Integer)), {<<Five, Minus>>}),
              Msg(SequenceOf(Name), {<<Text, <<>>>>})>>

\* SET OF INTEGER with two integers that differ in two octets.
SetOfTypes == <<Msg(SetOf(Integer), {<<a, b>> : a, b \in {<<0, 0, 1, 2>>, <<0, 0, 2, 1>>, Five}}),
               Msg(SetType(<<Integer, Tagged1>>), {<<Present(a), Present(b)>> : a, b \in {Five, Minus}}),
               Msg(SetOf(OctetString), {<<a, b>> : a, b \in {<<>>, <<1>>, <<1, 2>>, <<255>>}})>>

\* A list of the classes loses the tags of its members: not the ninth type.
AllButTaggedMembers == (DOMAIN Types) \ {9}

JunkOctets == {0, 130}

=============================================================================
