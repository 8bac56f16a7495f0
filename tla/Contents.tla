------------------------------ MODULE Contents ------------------------------
(***************************************************************************)
(* Values written in BER and read by the routines of Ber and Oid, of the   *)
(* C++ library or of the Python library, one after another: a value is     *)
(* encoded, by the C or the C++ library or (for strings) in any form that  *)
(* BER allows; on its way the encoding may be cut short or be followed by  *)
(* the next value's octets; then one of the libraries decodes it.  What    *)
(* outlives a decoding is the static unusedBitsG of asn-bits.c.            *)
(***************************************************************************)
EXTENDS CxxStrings, PyBer, FiniteSets

CONSTANTS Words,       \* 32-bit integers, in four octets
          TagCodes, Lengths,
          OctetStrings, BitStrings,
          Arcs2, ArcsAfter,   \* an OID: its first two arcs, those after them
          Texts,              \* character strings: [code, chars]
          TextsInPieces,      \* those of them sent in pieces too
          BadTexts            \* not strings of their type: [code, octets]

\* An AsnTag has four octets: it holds codes of 21 bits (asn-tag.c:63).
ASSUME CodesFit == TagCodes \subseteq 0..(128^3 - 1)
ASSUME PiecesOfTexts == TextsInPieces \subseteq Texts

VARIABLES item,         \* what was encoded: its kind and value, the form, the whole encoding
          wire,         \* the octets as they reach the decoder
          got,          \* the decoder's cursor at its end, and unusedBitsG before
          unusedBitsG

vars == <<item, wire, got, unusedBitsG>>

NotYet == [ok |-> FALSE, done |-> FALSE]

Init == item = [kind |-> "none"] /\ wire = <<>> /\ got = NotYet /\ unusedBitsG = 0

-----------------------------------------------------------------------------
(* The other side's encodings of a string: plain (primitive), flat (in     *)
(* pieces) or nested (a piece is in pieces), each level in definite or     *)
(* indefinite form.                                                        *)

Wrapped(code, body, indef) ==
  BEncTag(CONS, code) \o
  (IF indef THEN BEncIndefLen \o body \o BEncEoc ELSE BEncDefLen(Len(body)) \o body)

\* Two pieces, the first of k octets.
Halves(piece, v, k) ==
  IF piece = OCTETSTRING THEN <<SubSeq(v, 1, k), SubSeq(v, k + 1, Len(v))>>
  ELSE <<[bits |-> SubSeq(v.bits, 1, k), bitLen |-> 8 * k],
         [bits |-> SubSeq(v.bits, k + 1, Len(v.bits)), bitLen |-> v.bitLen - 8 * k]>>

Simple(piece, v) == IF piece = OCTETSTRING THEN BEncAsnOcts(v) ELSE BEncAsnBits(v)
Size(piece, v)   == IF piece = OCTETSTRING THEN Len(v) ELSE v.bitLen \div 8

As(form, octets) == [form |-> form, octets |-> octets]

\* The pieces of a character string are OCTET STRINGs.
Constructed(code, v) ==
  LET piece == IF code = BITSTRING THEN BITSTRING ELSE OCTETSTRING
      one   == Simple(piece, v)
  IN UNION {
    {As("flat", Wrapped(code, one, i)) : i \in BOOLEAN},
    {As("nested", Wrapped(code, Wrapped(piece, one, j), i)) : i \in BOOLEAN, j \in BOOLEAN},
    UNION {LET h == Halves(piece, v, k)
               two == Simple(piece, h[2])
           IN UNION {{As("flat", Wrapped(code, Simple(piece, h[1]) \o two, i)),
                      As("nested", Wrapped(code, Wrapped(piece, Simple(piece, h[1]), ~i) \o two, i))}
                     : i \in BOOLEAN} : k \in 0..Size(piece, v)},
    IF v = (IF piece = BITSTRING THEN NoBits ELSE <<>>) THEN {As("flat", Wrapped(code, <<>>, i)) : i \in BOOLEAN} ELSE {}}

\* Not BER: bits are missing in the middle.
UnusedBitsInTheMiddle(v) ==
  {As("flat", Wrapped(BITSTRING, BEncAsnBits(v) \o BEncAsnBits(v), i)) : i \in BOOLEAN}

-----------------------------------------------------------------------------
Sent(kind, v, as) ==
  /\ item' = [kind |-> kind, v |-> v, form |-> as.form, whole |-> as.octets]
  /\ wire' = as.octets
  /\ got' = NotYet
  /\ UNCHANGED unusedBitsG

EncodeBoolean  == \E v \in BOOLEAN : Sent("bool", v, As("plain", BEncAsnBool(v)))
EncodeInteger  == \E v \in Words : Sent("int", v, As("plain", BEncAsnInt(v)))
EncodeUnsigned == \E v \in Words, sizeofLong \in {4, 8} :
  Sent("uint", <<v, sizeofLong>>, As("plain", BEncUAsnInt(v, sizeofLong)))
EncodeOctets == \E v \in OctetStrings :
  \E as \in {As("plain", BEncAsnOcts(v))} \cup Constructed(OCTETSTRING, v) : Sent("octs", v, as)
EncodeBits == \E v \in BitStrings :
  \E as \in {As("plain", BEncAsnBits(v))} \cup Constructed(BITSTRING, v) : Sent("bits", v, as)
EncodeBadBits == \E v \in {b \in BitStrings : b.bitLen % 8 # 0} : \E as \in UnusedBitsInTheMiddle(v) :
  Sent("badbits", v, as)
\* By the C++ library alone.
EncodeNamedBits == \E v \in BitStrings :
  Sent("named", v, As("plain", Univ(BITSTRING, CxxNamedBitsContent(v))))
\* By either library; a RELATIVE-OID of one arc by the C++ library alone.
EncodeOid == \E head \in Arcs2, more \in ArcsAfter :
  \E octs \in {BuildEncodedOid(head \o more), SetArcs(head \o more, FALSE)} :
    Sent("oid", head \o more, As("plain", BEncAsnOid(octs)))
EncodeRelativeOid == \E oid \in ArcsAfter \ {<<>>} :
  \E octs \in {SetArcs(oid, TRUE)} \cup (IF Len(oid) >= 2 THEN {BuildEncodedRelativeOid(oid)} ELSE {}) :
    Sent("reloid", oid, As("plain", BEncAsnRelativeOid(octs)))
EncodeText == \E v \in Texts :
  LET octs == StringContent(v.code, v.chars) IN
  \E as \in {As("plain", BEncString(v.code, octs).octets)}
            \cup (IF v \in TextsInPieces THEN Constructed(v.code, octs) ELSE {}) : Sent("str", v, as)
EncodeBadText == \E v \in BadTexts : Sent("badtext", v, As("plain", BEncString(v.code, v.octets).octets))
EncodeTagAndLength == \E cf \in {0, CONS, 128, 192 + CONS}, code \in TagCodes, len \in Lengths :
  Sent("tl", <<cf, code, len>>, As("plain", BEncTag(cf, code) \o BEncDefLen(len)))

\* On the way: cut short, or followed by something else.
OnTheWay ==
  /\ item.kind # "none" /\ ~got.done /\ wire = item.whole
  /\ \/ \E k \in 0..(Len(wire) - 1) : wire' = SubSeq(wire, 1, k)
     \/ wire' = wire \o <<129>>
  /\ UNCHANGED <<item, got, unusedBitsG>>

-----------------------------------------------------------------------------
(* The decoders, with what an application asks of a C++ object: a number   *)
(* of 32 bits, the list of arcs.  Python has classes for some types only.  *)

TagAndLength(c, TagOf(_), LenOf(_)) ==
  Then(TagOf(c), LAMBDA t : Then(LenOf(t), LAMBDA l : [l EXCEPT !.val = <<t.val, @>>]))

ByC(c) ==
  CASE item.kind = "bool"   -> BDecAsnBool(c)
    [] item.kind = "int"    -> BDecAsnInt(c)
    [] item.kind = "uint"   -> BDecUAsnInt(c)
    [] item.kind = "octs"   -> BDecAsnOcts(c)
    [] item.kind \in {"bits", "badbits", "named"} -> BDecAsnBits(c)
    [] item.kind = "oid"    -> BDecAsnOid(c)
    [] item.kind = "reloid" -> BDecAsnRelativeOid(c)
    [] item.kind \in {"str", "badtext"} -> BDecString(c, item.v.code)
    [] item.kind = "tl"     -> TagAndLength(c, BDecTag, BDecLen)

ByCxx(c) ==
  CASE item.kind = "bool"   -> CxxBDecBool(c)
    [] item.kind = "int"    -> Then(CxxBDecInt(c), ToInteger)
    [] item.kind = "uint"   -> Then(CxxBDecInt(c), LAMBDA d : GetPadded(d, 4))
    [] item.kind = "octs"   -> CxxBDecOcts(c)
    [] item.kind \in {"bits", "badbits", "named"} -> CxxBDecBits(c)
    [] item.kind = "oid"    -> Then(CxxBDecOid(c), LAMBDA d : GetOidArray(d, FALSE))
    [] item.kind = "reloid" -> Then(CxxBDecRelativeOid(c), LAMBDA d : GetOidArray(d, TRUE))
    [] item.kind \in {"str", "badtext"} -> CxxBDecString(c, item.v.code)
    [] item.kind = "tl"     -> TagAndLength(c, CxxBDecTag, CxxBDecLen)

\* The class bits of a class and form.
ClassOf(cf) == IF (cf \div CONS) % 2 = 1 THEN cf - CONS ELSE cf

ByPython(c) ==
  CASE item.kind = "bool" -> PyBDec(c, 0, BOOLEAN_TAG, PyBoolDecoded)
    [] item.kind \in {"int", "uint"} -> PyBDec(c, 0, INTEGER, PyIntDecoded)
    [] item.kind = "octs" -> PyBDec(c, 0, OCTETSTRING, PyOctsDecoded)
    [] item.kind \in {"str", "badtext"} -> PyBDec(c, 0, item.v.code, PyOctsDecoded)
    [] item.kind = "tl"   -> PyBDec(c, ClassOf(item.v[1]), item.v[2], LAMBDA d, len : d)

Libraries ==
  {"c", "cxx"} \cup
  (IF \/ item.kind \in {"bool", "int", "uint", "octs", "tl"}
      \/ item.kind \in {"str", "badtext"} /\ item.v.code \in {NUMERICSTRING, IA5STRING}
   THEN {"py"} ELSE {})

Decode(lib) ==
  /\ item.kind # "none" /\ ~got.done /\ lib \in Libraries
  /\ \E strays \in BOOLEAN :
     LET c == CASE lib = "c"   -> ByC([At(wire) EXCEPT !.unusedBitsG = unusedBitsG])
                [] lib = "cxx" -> ByCxx([CxxAt(wire) EXCEPT !.strays = strays])
                [] lib = "py"  -> ByPython(At(wire))
     IN /\ got' = [lib |-> lib, ok |-> c.ok, done |-> TRUE, val |-> c.val, rest |-> c.rest,
                   bytesDecoded |-> c.bytesDecoded, readError |-> lib = "c" /\ c.readError,
                   before |-> unusedBitsG]
        /\ unusedBitsG' = IF lib = "c" THEN c.unusedBitsG ELSE unusedBitsG
  /\ UNCHANGED <<item, wire>>

Encode == EncodeBoolean \/ EncodeInteger \/ EncodeUnsigned \/ EncodeOctets \/ EncodeBits
          \/ EncodeBadBits \/ EncodeNamedBits \/ EncodeOid \/ EncodeRelativeOid
          \/ EncodeText \/ EncodeBadText \/ EncodeTagAndLength

NextValue == /\ got.done
             /\ item' = [kind |-> "none"] /\ wire' = <<>> /\ got' = NotYet
             /\ UNCHANGED unusedBitsG

Next == \/ item.kind = "none" /\ Encode
        \/ OnTheWay
        \/ \E lib \in {"c", "cxx", "py"} : Decode(lib)
        \/ NextValue

Spec == Init /\ [][Next]_vars

-----------------------------------------------------------------------------
Is(kinds) == item.kind \in kinds /\ got.done
By(lib) == got.lib = lib
Whole == Len(wire) >= Len(item.whole)

\* The decoder took this value's octets and no other, and counted them.
Taken == got.ok /\ got.rest = SubSeq(wire, Len(item.whole) + 1, Len(wire))
Consumed == Taken /\ got.bytesDecoded = Len(item.whole)

TypeOK ==
  /\ item.kind \in {"none", "bool", "int", "uint", "octs", "bits", "badbits", "named",
                    "oid", "reloid", "str", "badtext", "tl"}
  /\ wire \in Seq(0..255)
  /\ got.ok \in BOOLEAN /\ got.done \in BOOLEAN
  /\ unusedBitsG \in 0..255

\* Content octets of an INTEGER: not nine equal bits in front.
IsMinimal(content) ==
  Len(content) = 1 \/ ~(content[1] \in {0, 255} /\ (content[2] >= 128) = (content[1] = 255))

(* A 32-bit integer is written in the fewest octets, which Python's        *)
(* AsnInt writes too, and each library reads it as it was, signed or       *)
(* unsigned (asn-int.c, all content routines; asn-int.cpp:114-135;         *)
(* asn_ints.py); Python's value is a number of any size, here its least    *)
(* octets.  An unsigned one with its first bit set comes through only      *)
(* where a long has four octets.                                           *)
IntegersRoundTrip ==
  /\ Is({"bool"}) /\ Whole => Consumed /\ got.val = item.v
  /\ Is({"int", "uint"}) /\ Whole =>
       LET v        == IF item.kind = "int" THEN item.v ELSE item.v[1]
           negative == item.kind = "int" /\ v[1] >= 128
           content  == SubSeq(item.whole, 3, Len(item.whole))
       IN \/ item.kind = "uint" /\ item.v[2] = 8 /\ v[1] >= 128
          \/ /\ Consumed /\ got.val = IF By("py") THEN content ELSE v
             /\ IsMinimal(content) /\ PyIntContent(v, negative) = content

\* A string of characters as this library returned it.
TextReadBack(code, chars) ==
  LET octs == StringContent(code, chars) IN
  CASE By("c")   -> Consumed /\ got.val = octs
    [] By("py")  -> item.form = "plain" => Consumed /\ got.val = octs
    [] By("cxx") ->
         IF IsWide(code)
         THEN item.form = "plain" => Consumed /\ got.val = IF code = UTF8STRING THEN UpToNul(chars) ELSE chars
         ELSE /\ item.form # "nested" => Taken /\ got.val = octs
              /\ item.form = "plain" => Consumed

(* A string in any form of BER, primitive or in pieces, is read back with  *)
(* all its octets, bits or characters in order (asn-octs.c, asn-bits.c;    *)
(* asn-octs.cpp:604-688, asn-stringtype.cpp, asn_octs.py); a BIT STRING    *)
(* with unused bits in the middle is refused, one with named bits has no   *)
(* zero at its end; C refuses characters that a type does not have, and    *)
(* C++ does not write them.                                                *)
(* Exceptions: C reads a BIT STRING in pieces only until the first one     *)
(* that has unused bits at its end (a static count is never cleared); C++  *)
(* loses a BIT STRING in pieces, ends OCTET STRINGs at a nested piece,     *)
(* counts the pieces of character strings twice, takes no wide ones in     *)
(* pieces and a UTF8String up to its first NUL; Python takes the pieces    *)
(* for the value.                                                          *)
StringsRoundTrip ==
  /\ Is({"octs"}) /\ Whole =>
       \/ By("cxx") /\ item.form = "nested"
       \/ By("py") /\ item.form # "plain"
       \/ Consumed /\ got.val = item.v
  /\ Is({"bits"}) /\ Whole =>
       \/ By("c") /\ got.before # 0 /\ item.form # "plain"
       \/ By("cxx") /\ item.form # "plain"
       \/ Consumed /\ AsnBitsEquiv(got.val, item.v)
  /\ Is({"badbits"}) => ~got.ok
  /\ Is({"named"}) /\ Whole =>
       /\ Consumed /\ SetBits(got.val) = SetBits(item.v)
       /\ got.val.bitLen = 0 \/ got.val.bitLen - 1 \in SetBits(item.v)
  /\ Is({"str"}) /\ Whole =>
       /\ TextReadBack(item.v.code, item.v.chars)
       /\ ~BEncString(item.v.code, StringContent(item.v.code, item.v.chars)).writeError
  /\ Is({"badtext"}) =>
       /\ By("c") => ~got.ok
       /\ BEncString(item.v.code, item.v.octets).writeError
       /\ IsWide(item.v.code) \/ ~CxxWrites(item.v.code, item.v.octets)

(* An encoding that is cut short is never taken for a value: the C decoder *)
(* leaves by longjmp or the buffer's read error tells, the C++ and Python  *)
(* decoders throw (all BDec routines; asn-buf.cpp:215-240, asn_buffer.py). *)
(* Not so the C++ decoders of strings with a nested piece, which stop      *)
(* early.                                                                  *)
ShortReadNoticed ==
  got.done /\ ~Whole => \/ ~got.ok \/ got.readError
                        \/ By("cxx") /\ item.form = "nested" /\ item.kind \in {"octs", "str"}

MinimalChar(char) ==
  CASE char < 128 -> 1 [] char < 2048 -> 2 [] char < 65536 -> 3 [] char < 2097152 -> 4 [] OTHER -> 5

(* Arcs and characters are read back as they were written, the room made   *)
(* for an OID is exactly what it takes (asn-oid.c:180-225), its list of    *)
(* arcs ends, and a character is in its shortest form; C++ gives the same  *)
(* arcs (asn-RelativeOid.cpp:90-124).  Not so in C: the list of an OID of  *)
(* two arcs has no end, a RELATIVE-OID with a first arc over 127 is read   *)
(* wrongly, characters over 131071 take an octet too many, and of a        *)
(* BMPString or UniversalString an octet over 127 undoes those before it.  *)
ArcsAndCharacters ==
  /\ Is({"oid", "reloid"}) /\ Whole => Consumed /\ (By("cxx") => got.val = item.v)
  /\ Is({"oid"}) /\ Whole /\ By("c") =>
       LET list == UnbuildEncodedOid(got.val) IN
       /\ Len(got.val) = EncodedOidLen(item.v)
       /\ list.arcs = item.v /\ (Len(item.v) > 2 => list.ended)
  /\ Is({"reloid"}) /\ Whole /\ By("c") =>
       /\ Len(got.val) = EncodedRelativeOidLen(item.v)
       /\ item.v[1] < 128 =>
            UnbuildEncodedRelativeOid(got.val) = [arcs |-> item.v, ended |-> Len(item.v) > 1]
  /\ Is({"str"}) /\ Whole /\ By("c") =>
       LET code == item.v.code
           ascii == \A i \in DOMAIN got.val : got.val[i] < 128
       IN /\ code = UTF8STRING =>
               /\ CvtUTF8towchar(got.val) = item.v.chars
               /\ \A char \in {item.v.chars[i] : i \in DOMAIN item.v.chars} :
                    char <= 131071 => Len(CharToUTF8(char)) = MinimalChar(char)
          /\ code = BMPSTRING /\ ascii => CvtBMPString2wchar(got.val) = item.v.chars
          /\ code = UNIVERSALSTRING /\ ascii => CvtUniversalString2wchar(got.val) = item.v.chars

\* The tag number an encoded tag stands for.
TagNumber(octets) ==
  IF Len(octets) = 1 THEN octets[1] % 32 
  ELSE LET from[i \in 1..Len(octets)] == IF i = 1 THEN 0 ELSE 128 * from[i - 1] + (octets[i] % 128)
       IN from[Len(octets)]

(* A tag whose code fits 21 bits and a length are read back as they were   *)
(* written, and compare with the tags in generated code (asn-tag.c:69-109, *)
(* asn-tag.h:107-129, asn-len.c; asn-tag.cpp, asn-len.cpp); a length takes *)
(* the fewest octets, which DER asks for, but for the last ninety of three *)
(* octets (asn-len.c:91).  Python reads codes of 31 to 127 and over 255    *)
(* for others, but refuses them all, and counts a length of more than one  *)
(* octet one short (asn_base.py, asn_buffer.py).                           *)
TagsAndLengths ==
  Is({"tl"}) /\ Whole =>
    LET cf == item.v[1]  code == item.v[2]  len == item.v[3] IN
    /\ \/ ~By("py") /\ Consumed /\ got.val = <<MAKE_TAG_ID(cf, code), len>>
       \/ By("py") /\ IF code < 31 \/ code \in 128..255
                      THEN Taken /\ got.val = len
                           /\ got.bytesDecoded = Len(item.whole) - (IF len < 128 THEN 0 ELSE 1)
                      ELSE ~got.ok
    /\ TagNumber(BEncTag(cf, code)) = code
    /\ \/ Len(BEncDefLen(len)) =
            (CASE len < 128 -> 1 [] len < 256 -> 2 [] len < 65536 -> 3 [] len < 16777216 -> 4 [] OTHER -> 5)
       \/ len \in 16777126..16777215

=============================================================================
