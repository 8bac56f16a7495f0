-------------------------------- MODULE Ber --------------------------------
(***************************************************************************)
(* The BER codecs of the C library: tags, lengths, ends of contents, and   *)
(* the contents of INTEGER, BOOLEAN, NULL, OCTET STRING and BIT STRING.    *)
(*                                                                         *)
(* A decoder works on a cursor: what is left of the buffer, the octets it  *)
(* has counted, the buffer's read error, the result of the last call       *)
(* (val), and ok until it leaves by longjmp.  Reading past the end gives   *)
(* zeros and sets the read error, which most routines look at only when    *)
(* they have read everything.                                              *)
(***************************************************************************)
EXTENDS Integers, Sequences
LOCAL INSTANCE SequencesExt
LOCAL INSTANCE FiniteSets

INDEFINITE_LEN == -1   \* ~0UL: no total of decoded octets reaches it
PRIM == 0
CONS == 32
ANY_FORM == -2

At(octets) == [rest |-> octets, bytesDecoded |-> 0, readError |-> FALSE,
               ok |-> TRUE, val |-> <<>>, str |-> <<>>, unusedBitsG |-> 0]

\* The octets the next k reads give, and the buffer after them.
NextOctets(c, k) == [i \in 1..k |-> IF i <= Len(c.rest) THEN c.rest[i] ELSE 0]
Read(c, k)  == [c EXCEPT !.rest = SubSeq(@, k + 1, Len(@)), !.readError = @ \/ k > Len(c.rest)]
Count(c, k) == [c EXCEPT !.bytesDecoded = @ + k]
Longjmp(c)  == [c EXCEPT !.ok = FALSE]
Gives(c, v) == IF c.readError THEN Longjmp(c) ELSE [c EXCEPT !.val = v]
Then(c, Step(_)) == IF c.ok THEN Step(c) ELSE c

\* Mutant: an octet is not cut to eight bits.
BigEndianUncut(n, k) == [i \in 1..k |-> n \div 256^(k - i)]

BigEndian(n, k) == [i \in 1..k |-> (n \div 256^(k - i)) % 256]
Unsigned(octets) == FoldLeft(LAMBDA n, o : 256 * n + o, 0, octets)

-----------------------------------------------------------------------------
(* Tags: an AsnTag is the encoded tag in four octets, filled up with zeros;*)
(* cf is class and form, in the octet's own bits.                          *)

EOC_TAG_ID == <<0, 0, 0, 0>>

TagOctets(cf, code, k) ==
  IF k = 1 THEN <<cf + code>>
  ELSE [i \in 1..k |-> CASE i = 1 -> cf + 31
                         [] i = k -> code % 128
                         [] OTHER -> 128 + ((code \div 128^(k - i)) % 128)]

\* As the compiler picks one of BEncTag1 to BEncTag5.
TagByteLen(code) ==
  CASE code < 31 -> 1 [] code < 128 -> 2 [] code < 128^2 -> 3 [] code < 128^3 -> 4 [] OTHER -> 5

BEncTag(cf, code) == TagOctets(cf, code, TagByteLen(code))

FillUp(octets) == [i \in 1..4 |-> IF i <= Len(octets) THEN octets[i] ELSE 0]

MAKE_TAG_ID(cf, code) ==
  FillUp(TagOctets(cf, code, IF code < 128^2 THEN TagByteLen(code) ELSE 4))

\* A tag as a compiler or a type table knows it, of a code below 31, and the
\* encoded tags it stands for: ANY_FORM is either form.
Tagged(octet, form) == [octet |-> octet, form |-> form]
Accepted(tag) ==
  {FillUp(<<tag.octet + form>>) : form \in IF tag.form = ANY_FORM THEN {PRIM, CONS} ELSE {tag.form}}

TAG_IS_CONS(tag) == (tag[1] \div CONS) % 2 = 1

\* How many of the next octets are taken as the tag.
TagSize(head) ==
  IF head[1] % 32 # 31 THEN 1
  ELSE CHOOSE k \in 2..4 : /\ k = 4 \/ head[k] < 128
                           /\ \A j \in 2..(k - 1) : head[j] >= 128

BDecTag(c) ==
  LET size == TagSize(NextOctets(c, 4)) IN
  Gives(Count(Read(c, size), size), FillUp(NextOctets(c, size)))

-----------------------------------------------------------------------------
(* Lengths and ends of contents.                                           *)

\* The third bound is not 2^24.
LenBounds == <<256, 65536, 16777126>>

\* Mutant: a bound is still in the shorter form.
LenOctetsOffByOne(len) == 1 + Cardinality({k \in 1..3 : len > LenBounds[k]})

LenOctets(len) == 1 + Cardinality({k \in 1..3 : len >= LenBounds[k]})

BEncDefLen(len) ==
  IF len < 128 THEN <<len>> ELSE <<128 + LenOctets(len)>> \o BigEndian(len, LenOctets(len))

BEncIndefLen == <<128>>
BEncEoc == <<0, 0>>

BDecLen(c) ==
  LET first == NextOctets(c, 1)[1]
      after == Count(Read(c, 1), 1)
      k     == first - 128
  IN CASE first < 128 -> Gives(after, first)
       [] first = 128 -> Gives(after, INDEFINITE_LEN)
       [] k > 8       -> Longjmp(c)
       [] OTHER       -> Gives(Count(Read(after, k), k), Unsigned(NextOctets(after, k)))

DDecLen(c) == LET l == BDecLen(c) IN IF l.val = INDEFINITE_LEN THEN Longjmp(l) ELSE l

BDEC_2ND_EOC_OCTET(c) ==
  IF NextOctets(c, 1) = <<0>> THEN Gives(Count(Read(c, 1), 1), c.val) ELSE Longjmp(c)

BDecEoc(c) ==
  IF NextOctets(c, 2) = <<0, 0>> THEN Gives(Count(Read(c, 2), 2), c.val) ELSE Longjmp(c)

-----------------------------------------------------------------------------
(* INTEGER, BOOLEAN, NULL.  An integer is its 32 bits, in four octets.     *)

\* Mutant: an octet of sign bits is left out whatever the next one begins with.
IsFillAlone(v, k, negative) == v[k] = IF negative THEN 255 ELSE 0

\* Octet k may be left out: its bits, and the next one, are all the sign.
IsFill(v, k, negative) ==
  /\ v[k] % 128 = IF negative THEN 127 ELSE 0
  /\ (v[k + 1] >= 128) = negative

WithoutFill(v, negative) ==
  LET first == CHOOSE n \in 1..Len(v) : /\ \A k \in 1..(n - 1) : IsFill(v, k, negative)
                                        /\ n = Len(v) \/ ~IsFill(v, n, negative)
  IN SubSeq(v, first, Len(v))

BEncAsnIntContent(v) == WithoutFill(v, v[1] >= 128)

\* A long of four octets is negative when its first bit is set; one of eight
\* octets that holds an unsigned 32-bit value never is.
BEncUAsnIntContent(v, sizeofLong) ==
  IF sizeofLong = 4 /\ v[1] >= 128 THEN <<0>> \o v ELSE WithoutFill(v, FALSE)

\* The last four octets of what was shifted in.
LowFour(octets, fill) == [i \in 1..4 |->
  IF Len(octets) + i > 4 THEN octets[Len(octets) + i - 4] ELSE fill]

\* An integer of length 0 reads an octet that it does not count.
BDecAsnIntContent(c, len) ==
  LET octets == NextOctets(c, IF len = 0 THEN 1 ELSE len) IN
  IF len = INDEFINITE_LEN \/ len > 4 THEN Longjmp(c)
  ELSE Gives(Count(Read(c, Len(octets)), len),
             LowFour(octets, IF octets[1] >= 128 THEN 255 ELSE 0))

BDecUAsnIntContent(c, len) ==
  LET octets == NextOctets(c, IF len = 0 THEN 1 ELSE len) IN
  IF len = INDEFINITE_LEN \/ len > 5 \/ octets[1] >= 128 \/ (len = 5 /\ octets[1] # 0)
  THEN Longjmp(c)
  ELSE Gives(Count(Read(c, Len(octets)), len), LowFour(octets, 0))

BEncAsnBoolContent(v) == IF v THEN <<255>> ELSE <<0>>
BDecAsnBoolContent(c, len) ==
  IF len # 1 THEN Longjmp(c)
  ELSE Gives(Count(Read(c, 1), 1), NextOctets(c, 1)[1] # 0)

BDecAsnNullContent(c, len) == IF len # 0 THEN Longjmp(c) ELSE [c EXCEPT !.val = <<>>]

-----------------------------------------------------------------------------
(* Strings.  A constructed one is collected in str, the string stack that  *)
(* BIT STRING and OCTET STRING share.                                      *)

BITSTRING == 3
OCTETSTRING == 4

\* The primitive piece of a constructed string, of len octets.
Referred(c, len) == [Read(c, len) EXCEPT !.str = @ \o NextOctets(c, len)]

\* Mutant: a piece ends where the buffer does.
OctetPieceCutShort(c, len) == Count(Referred(c, IF len > Len(c.rest) THEN Len(c.rest) ELSE len), len)

OctetPiece(c, len) ==
  IF len = INDEFINITE_LEN \/ len > Len(c.rest) THEN Longjmp(c) ELSE Count(Referred(c, len), len)

\* Mutant: pieces before this one are not looked at for unused bits.
BitPieceUnchecked(c, len) ==
  LET piece == [Read(c, 1) EXCEPT !.unusedBitsG = NextOctets(c, 1)[1]] IN
  IF len \in {0, INDEFINITE_LEN} \/ len - 1 > Len(piece.rest) THEN Longjmp(c)
  ELSE Count(Referred(piece, len - 1), len)

BitPiece(c, len) ==
  LET piece == [Read(c, 1) EXCEPT !.unusedBitsG = NextOctets(c, 1)[1]] IN
  IF len \in {0, INDEFINITE_LEN} \/ c.unusedBitsG # 0 \/ len - 1 > Len(piece.rest)
  THEN Longjmp(IF len = 0 \/ c.unusedBitsG # 0 THEN c ELSE piece)
  ELSE Count(Referred(piece, len - 1), len)

\* FillOctetStringStk and FillBitStringStk: the loop over the pieces of one
\* constructed string, whose octets are counted from zero.
RECURSIVE FillStringStk(_, _, _)
FillStringStk(c, len, code) ==
  LET Piece(l, tag) ==
        CASE tag = MAKE_TAG_ID(0, code)    -> IF code = BITSTRING THEN BitPiece(l, l.val) ELSE OctetPiece(l, l.val)
          [] tag = MAKE_TAG_ID(CONS, code) ->
               Count(FillStringStk([l EXCEPT !.bytesDecoded = 0], l.val, code), l.bytesDecoded)
          [] OTHER                         -> Longjmp(l)
      AfterTag(t) ==
        IF t.val = EOC_TAG_ID /\ len = INDEFINITE_LEN THEN BDEC_2ND_EOC_OCTET(t)
        ELSE Then(BDecLen(t), LAMBDA l :
               Then(Piece(l, t.val), LAMBDA p : FillStringStk(p, len, code)))
  IN IF len # INDEFINITE_LEN /\ c.bytesDecoded >= len THEN c ELSE Then(BDecTag(c), AfterTag)

\* BDecConsAsnOcts and BDecConsAsnBits empty the stack of pieces first.
Collected(c, len, code) ==
  LET s == FillStringStk([c EXCEPT !.str = <<>>, !.bytesDecoded = 0], len, code) IN
  Count(s, c.bytesDecoded)

BEncAsnOctsContent(octs) == octs

BDecAsnOctsContent(c, tag, len) ==
  IF TAG_IS_CONS(tag)
  THEN Then(Collected(c, len, OCTETSTRING), LAMBDA s : [s EXCEPT !.val = s.str])
  ELSE IF len = INDEFINITE_LEN THEN Longjmp(c)
  ELSE Gives(Count(Read(c, len), len), NextOctets(c, len))

BEncAsnBitsContent(v) ==
  <<(8 - (v.bitLen % 8)) % 8>> \o SubSeq(v.bits, 1, (v.bitLen + 7) \div 8)

BDecAsnBitsContent(c, tag, len) ==
  IF TAG_IS_CONS(tag)
  THEN Then(Collected(c, len, BITSTRING), LAMBDA s :
         [s EXCEPT !.val = [bits |-> s.str, bitLen |-> 8 * Len(s.str) - s.unusedBitsG]])
  ELSE IF len \in {0, INDEFINITE_LEN} THEN Longjmp(c)
  ELSE LET octets == NextOctets(c, len) IN
       Gives(Count(Read(c, len), len),
             [bits |-> Tail(octets), bitLen |-> 8 * (len - 1) - octets[1]])

\* Equal, but for the bits after the last one.
AsnBitsEquiv(v, w) ==
  LET last == (v.bitLen + 7) \div 8
      unused == (8 - (v.bitLen % 8)) % 8
  IN /\ v.bitLen = w.bitLen
     /\ \A i \in 1..(last - 1) : v.bits[i] = w.bits[i]
     /\ last = 0 \/ v.bits[last] \div 2^unused = w.bits[last] \div 2^unused

-----------------------------------------------------------------------------
(* Values under their universal tag.                                       *)

BOOLEAN_TAG == 1
INTEGER == 2

Univ(code, content) == BEncTag(0, code) \o BEncDefLen(Len(content)) \o content

BEncAsnBool(v)             == Univ(BOOLEAN_TAG, BEncAsnBoolContent(v))
BEncAsnInt(v)              == Univ(INTEGER, BEncAsnIntContent(v))
BEncUAsnInt(v, sizeofLong) == Univ(INTEGER, BEncUAsnIntContent(v, sizeofLong))
BEncAsnOcts(v)             == Univ(OCTETSTRING, BEncAsnOctsContent(v))
BEncAsnBits(v)             == Univ(BITSTRING, BEncAsnBitsContent(v))

\* Content(c, tag, len) after one of the tags and a length.
TagLen(c, tags, Content(_, _, _)) ==
  Then(BDecTag(c), LAMBDA t :
    IF t.val \notin tags THEN Longjmp(t)
    ELSE Then(BDecLen(t), LAMBDA l : Content(l, t.val, l.val)))

Prim(code) == {MAKE_TAG_ID(0, code)}
AnyForm(code) == {MAKE_TAG_ID(0, code), MAKE_TAG_ID(CONS, code)}

BDecAsnBool(c) == TagLen(c, Prim(BOOLEAN_TAG), LAMBDA d, tag, len : BDecAsnBoolContent(d, len))
BDecAsnInt(c)  == TagLen(c, Prim(INTEGER), LAMBDA d, tag, len : BDecAsnIntContent(d, len))
BDecUAsnInt(c) == TagLen(c, Prim(INTEGER), LAMBDA d, tag, len : BDecUAsnIntContent(d, len))
BDecAsnOcts(c) == TagLen(c, AnyForm(OCTETSTRING), BDecAsnOctsContent)
BDecAsnBits(c) == TagLen(c, AnyForm(BITSTRING), BDecAsnBitsContent)

=============================================================================
