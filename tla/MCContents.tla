---------------------------- MODULE MCContents ----------------------------
(* Values at the edges where an octet more or less is written, and strings *)
(* of no octet to three.  The C library's session with BER, the C++        *)
(* library's with PER and the session with lists share nothing; one of the *)
(* three is explored at a time.                                            *)
EXTENDS Contents, PerSession, AsnListSession

Edge == {0, 1, 127, 128, 255}
WordsAtEdges == [1..4 -> Edge]
CodesAtEdges == {0, 30, 31, 127, 128, 16383, 16384, 2097151}
LengthsAtEdges == {0, 127, 128, 255, 256, 65535, 65536, 16777125, 16777126, 16777215, 16777216, 2147483647}

SomeOctets == {<<>>, <<0>>, <<36, 4>>, <<0, 0, 36>>}
SomeBits == {[bits |-> <<>>, bitLen |-> 0], [bits |-> <<35>>, bitLen |-> 8],
             [bits |-> <<160>>, bitLen |-> 3], [bits |-> <<0, 0, 128>>, bitLen |-> 17]}

FirstArcs == {<<0, 0>>, <<0, 39>>, <<1, 0>>, <<1, 39>>, <<2, 0>>, <<2, 47>>, <<2, 48>>, <<2, 999>>}
MoreArcs == {<<>>} \cup {<<a>> : a \in {0, 127, 128}} \cup {<<a, b>> : a, b \in {0, 127, 128, 16384, 2097152}}

\* [code, chars]; the wide ones at the edges of UTF-8's forms and of chars.
Text(code, chars) == [code |-> code, chars |-> chars]
CharsAtEdges == {1, 127, 128, 2047, 2048, 65535, 65536, 131071, 131072, 67108863, 67108864, 134217727}
TextsAtEdges ==
  {Text(UTF8STRING, <<a>>) : a \in CharsAtEdges} \cup {Text(UTF8STRING, <<a, 1>>) : a \in CharsAtEdges}
  \cup {Text(UTF8STRING, <<127, a>>) : a \in CharsAtEdges} \cup {Text(UTF8STRING, <<65, 0, 66>>)}
  \cup {Text(NUMERICSTRING, <<>>), Text(NUMERICSTRING, <<32, 48, 57>>), Text(PRINTABLESTRING, <<65, 122, 63>>),
        Text(TELETEXSTRING, <<0, 255>>), Text(IA5STRING, <<0, 127>>), Text(VISIBLESTRING, <<10, 126>>),
        Text(IA5STRING, <<97, 98, 99, 100, 101>>)}
  \cup {Text(BMPSTRING, <<a, 1>>) : a \in {0, 127, 128, 256, 32767, 65535}}
  \cup {Text(UNIVERSALSTRING, <<1, a>>) : a \in {0, 127, 128, 65536, 16777216}}
Pieced == {Text(NUMERICSTRING, <<>>), Text(IA5STRING, <<97, 98, 99, 100, 101>>), Text(UTF8STRING, <<2048>>),
           Text(BMPSTRING, <<127, 1>>)}
NotTexts == {[code |-> NUMERICSTRING, octets |-> <<48, 65>>], [code |-> PRINTABLESTRING, octets |-> <<65, 42>>],
             [code |-> IA5STRING, octets |-> <<128>>], [code |-> VISIBLESTRING, octets |-> <<200>>],
             [code |-> UTF8STRING, octets |-> <<128>>], [code |-> UTF8STRING, octets |-> <<224, 160>>],
             [code |-> BMPSTRING, octets |-> <<1, 2, 3>>], [code |-> UNIVERSALSTRING, octets |-> <<1, 2, 3>>]}

-----------------------------------------------------------------------------
\* Types and values for PER.
Single(lo)      == [lo |-> lo, up |-> 0, exists |-> 2]
FromTo(lo, up)  == [lo |-> lo, up |-> up, exists |-> 1]
IntFrom(lo)     == [lo |-> lo, up |-> 0, exists |-> 0]
SizeOf(n)       == [lo |-> n, up |-> 0, exists |-> 0]
SizeFrom(n)     == [lo |-> n, up |-> 0, exists |-> 2]

PerInt(ranges)  == [t |-> "int", ranges |-> ranges]
PerBool         == [t |-> "bool"]
PerEnum(list)   == [t |-> "enum", list |-> list]
PerOcts(sizes)  == [t |-> "octs", sizes |-> sizes]
PerBits(sizes)  == [t |-> "bits", sizes |-> sizes]
NumericString(sizes) == [t |-> "str", alphabet |-> <<32>> \o [k \in 1..10 |-> 47 + k], sizes |-> sizes]
IA5String(sizes) == [t |-> "str", alphabet |-> [k \in 1..128 |-> k - 1], sizes |-> sizes]
PerList(of, sizes) == [t |-> "list", of |-> of, sizes |-> sizes]
PerSetOf(of)    == [t |-> "setof", of |-> of]
Elmt(type, optional, code) == [type |-> type, optional |-> optional, code |-> code]

AnOctet == PerInt(<<FromTo(0, 255)>>)
ThreeBits == PerInt(<<FromTo(-3, 4)>>)
Sequence == [t |-> "seq", elmts |-> <<Elmt(PerBool, FALSE, 1), Elmt(ThreeBits, TRUE, 2),
                                      Elmt(PerOcts(<<>>), TRUE, 4)>>]
Set == [t |-> "set", elmts |-> <<Elmt(PerBool, TRUE, 9), Elmt(ThreeBits, FALSE, 2), Elmt(PerOcts(<<>>), TRUE, 4)>>]
Choice == [t |-> "choice", elmts |-> <<Elmt(PerBool, FALSE, 9), Elmt(Sequence, FALSE, 16), Elmt(ThreeBits, FALSE, 2)>>]

Of(type, values) == SetToSeq({[type |-> type, v |-> v] : v \in values})
Bit3 == <<TRUE, FALSE, TRUE>>
Octs(n) == [k \in 1..n |-> (37 * k) % 256]

SomeItems ==
  Of(PerBool, BOOLEAN) \o Of([t |-> "null"], {"null"})
  \o Of(PerInt(<<>>), {<<5>>, <<1, 44>>}) \o Of(ThreeBits, {-4, -3, 4})
  \o Of(PerInt(<<FromTo(0, 254)>>), {254}) \o Of(AnOctet, {255, 256}) \o Of(PerInt(<<FromTo(0, 256)>>), {256})
  \o Of(PerInt(<<FromTo(0, 65534)>>), {65534}) \o Of(PerInt(<<FromTo(0, 65535)>>), {65535})
  \o Of(PerInt(<<FromTo(0, 99999)>>), {255, 70000}) \o Of(PerInt(<<IntFrom(5)>>), {4, 300})
  \o Of(PerInt(<<Single(4)>>), {4}) \o Of(PerInt(<<FromTo(4, 4)>>), {4})
  \o Of(PerInt(<<Single(1), FromTo(6, 9)>>), {1, 5, 9})
  \o Of(PerEnum(<<0, 3, 5>>), {0, 3, 5}) \o Of(PerEnum(<<7>>), {7})
  \o Of(PerOcts(<<>>), {<<>>, Octs(3), Octs(130), Octs(l_16k + 1)})
  \o Of(PerOcts(<<SizeOf(2)>>), {Octs(2), Octs(1)}) \o Of(PerOcts(<<FromTo(1, 4)>>), {Octs(3)})
  \o Of(PerOcts(<<FromTo(0, 300)>>), {Octs(3)})
  \o Of(PerBits(<<>>), {<<>>, Bit3, Bit3 \o Bit3 \o Bit3})
  \o Of(PerBits(<<SizeOf(5)>>), {Bit3}) \o Of(PerBits(<<FromTo(1, 20)>>), {Bit3, Bit3 \o Bit3 \o Bit3})
  \o Of(NumericString(<<>>), {<<48, 57>>}) \o Of(NumericString(<<FromTo(1, 4)>>), {<<32>>, <<48, 57, 50>>, <<>>})
  \o Of(IA5String(<<>>), {<<>>, <<65>>})
  \o Of([t |-> "oid"], {<<42, 3>>}) \o Of([t |-> "real"], {<<>>, <<128, 0, 1>>})
  \o Of([t |-> "any", of |-> PerInt(<<FromTo(0, 256)>>)], {256}) \o Of([t |-> "any", of |-> AnOctet], {77})
  \o Of([t |-> "any", of |-> PerInt(<<Single(4)>>)], {4})
  \o Of(PerList(PerBool, <<>>), {<<TRUE>>}) \o Of(PerList(PerBool, <<SizeOf(2)>>), {<<TRUE, FALSE>>})
  \o Of(PerList(ThreeBits, <<FromTo(0, 5)>>), {<<>>, <<4, -3>>}) \o Of(PerList(ThreeBits, <<SizeFrom(1)>>), {<<>>, <<4, -3>>})
  \o Of(PerSetOf(AnOctet), {<<>>, <<7, 3>>}) \o Of(PerSetOf(PerBool), {<<TRUE>>})
  \o Of(PerSetOf(PerOcts(<<>>)), {<<Octs(2), Octs(1)>>})
  \o Of(Sequence, {<<TRUE, <<>>, <<>>>>, <<FALSE, <<4>>, <<Octs(2)>>>>})
  \o Of(Set, {<<<<TRUE>>, 4, <<>>>>, <<<<>>, -3, <<Octs(2)>>>>})
  \o Of(Choice, {[choiceId |-> 1, value |-> TRUE], [choiceId |-> 2, value |-> <<TRUE, <<4>>, <<>>>>],
                 [choiceId |-> 3, value |-> -3]})

-----------------------------------------------------------------------------
NoContents == item.kind = "none" /\ unusedBitsG = 0
NoPer      == written = 0 /\ ~perbuf.align
NoLists    == used = {}

MCInit == Init /\ PerInit /\ SessionInit
MCNext == \/ NoPer /\ NoLists /\ Next /\ UNCHANGED <<perVars, sessionVars>>
          \/ NoContents /\ NoLists /\ PerNext /\ UNCHANGED <<vars, sessionVars>>
          \/ NoContents /\ NoPer /\ SessionNext /\ UNCHANGED <<vars, perVars>>
MCSpec == MCInit /\ [][MCNext]_<<vars, perVars, sessionVars>>

=============================================================================
