-------------------------------- MODULE Oid --------------------------------
(***************************************************************************)
(* Conversions of object identifiers between lists of arc numbers and BER  *)
(* contents, of wide characters to and from UTF-8, and the checks of the   *)
(* other character strings.                                                *)
(*                                                                         *)
(* A C list built arc by arc is the sequence of its arcs and whether its   *)
(* last next pointer was set: where it was not, it is what malloc left.    *)
(***************************************************************************)
EXTENDS Ber
LOCAL INSTANCE SequencesExt

Septets(n) == CHOOSE k \in 1..5 : (k = 5 \/ n < 128^k) /\ (k = 1 \/ n >= 128^(k - 1))

\* An arc number in groups of seven bits, all but the last with 'more' set.
ArcOctets(n) ==
  [i \in 1..Septets(n) |-> ((n \div 128^(Septets(n) - i)) % 128) + (IF i < Septets(n) THEN 128 ELSE 0)]

HeadArcNum(oid) == oid[1] * 40 + oid[2]

EncodedOidLen(oid) ==
  IF Len(oid) < 2 THEN 0
  ELSE FoldLeft(LAMBDA n, arc : n + Septets(arc), Septets(HeadArcNum(oid)), SubSeq(oid, 3, Len(oid)))

BuildEncodedOid(oid) ==
  IF Len(oid) < 2 THEN <<>>
  ELSE FoldLeft(LAMBDA octets, arc : octets \o ArcOctets(arc),
                ArcOctets(HeadArcNum(oid)), SubSeq(oid, 3, Len(oid)))

EncodedRelativeOidLen(oid) == FoldLeft(LAMBDA n, arc : n + Septets(arc), 0, oid)

\* A single arc is not written: a copy of the test for two arcs.
BuildEncodedRelativeOid(oid) ==
  IF Len(oid) < 2 THEN <<>>
  ELSE FoldLeft(LAMBDA octets, arc : octets \o ArcOctets(arc), <<>>, oid)

\* The arcs of contents from octet i on: an octet without 'more' ends one.
Arcs(octets, i) ==
  FoldLeft(LAMBDA a, o : IF o >= 128 THEN [a EXCEPT !.num = 128 * @ + (o % 128)]
                         ELSE [num |-> 0, arcs |-> Append(a.arcs, 128 * a.num + o)],
           [num |-> 0, arcs |-> <<>>], SubSeq(octets, i, Len(octets))).arcs

\* Mutant: the first arc may be over 2.
FirstArcUnbounded(num) == num \div 40

FirstArc(num) == IF num \div 40 > 2 THEN 2 ELSE num \div 40

UnbuildEncodedOid(octets) ==
  LET all  == Arcs(octets, 1)
      head == FirstArc(all[1])
  IN [arcs |-> <<head, all[1] - head * 40>> \o Tail(all), ended |-> Len(all) > 1]

\* The arcs after the first are looked for from the second octet on, wherever
\* the first arc ended.
UnbuildEncodedRelativeOid(octets) ==
  [arcs |-> <<Arcs(octets, 1)[1]>> \o Arcs(octets, 2), ended |-> Len(octets) > 1]

-----------------------------------------------------------------------------
(* UTF-8 by the table gUTF8Masks: the value of the first octet of a        *)
(* character of j octets, and the largest character written in j.          *)

MaskValue == <<0, 192, 224, 240, 248, 252>>
MaskFree  == <<128, 32, 16, 8, 4, 2>>      \* ~mask + 1: the bits left for the character
MaxCharValue == <<127, 2047, 65535, 131071, 67108863, 134217727>>

\* The number of octets the first octet announces; 7 for none.
Announced(o) ==
  CHOOSE j \in 1..7 : /\ j = 7 \/ o - (o % MaskFree[j]) = MaskValue[j]
                      /\ \A k \in 1..(j - 1) : o - (o % MaskFree[k]) # MaskValue[k]

IsFollower(o) == o \div 64 = 2

\* The number of octets of the character at i, or 0 if there is none.
CharOctets(octets, i) ==
  LET j == Announced(octets[i]) IN
  IF j < 7 /\ i + j - 1 <= Len(octets) /\ \A k \in (i + 1)..(i + j - 1) : IsFollower(octets[k])
  THEN j ELSE 0

IsValidUTF8String(octets) ==
  LET from[i \in 1..(Len(octets) + 1)] ==
        \/ i > Len(octets)
        \/ CharOctets(octets, i) > 0 /\ from[i + CharOctets(octets, i)]
  IN from[1]

CvtUTF8towchar(octets) ==
  LET char(i, j) == FoldLeft(LAMBDA n, o : 64 * n + (o % 64), octets[i] % MaskFree[j],
                             SubSeq(octets, i + 1, i + j - 1))
      from[i \in 1..(Len(octets) + 1)] ==
        IF i > Len(octets) THEN <<>>
        ELSE <<char(i, CharOctets(octets, i))>> \o from[i + CharOctets(octets, i)]
  IN from[1]

CharLen(char) ==
  CHOOSE j \in 1..6 : char <= MaxCharValue[j] /\ (j = 1 \/ char > MaxCharValue[j - 1])

CharToUTF8(char) ==
  LET j == CharLen(char) IN
  [i \in 1..j |-> IF i = 1 THEN MaskValue[j] + char \div 64^(j - 1)
                  ELSE 128 + ((char \div 64^(j - i)) % 64)]

CvtWchar2UTF8(chars) == FoldLeft(LAMBDA octets, char : octets \o CharToUTF8(char), <<>>, chars)

-----------------------------------------------------------------------------
(* Character strings.  In C each is an OCTET STRING whose octets are       *)
(* checked; the application makes and takes apart those of wide ones.      *)

UTF8STRING == 12
NUMERICSTRING == 18
PRINTABLESTRING == 19
TELETEXSTRING == 20
IA5STRING == 22
VISIBLESTRING == 26
UNIVERSALSTRING == 28
BMPSTRING == 30

Letters   == (65..90) \cup (97..122)
Digits    == 48..57
Printable == Letters \cup Digits \cup {32, 39, 40, 41, 43, 44, 45, 46, 47, 58, 61, 63}

Alphabet(code) ==
  CASE code = NUMERICSTRING   -> Digits \cup {32}
    [] code = PRINTABLESTRING -> Printable
    [] code = IA5STRING       -> 0..127
    [] code = VISIBLESTRING   -> 0..127   \* a char over 127 is negative
    [] code = TELETEXSTRING   -> 0..255

\* Octets of one character, where all have as many.
Width(code) == CASE code = UNIVERSALSTRING -> 4 [] code = BMPSTRING -> 2 [] OTHER -> 1

IsValidString(code, octets) ==
  CASE code = UTF8STRING                     -> IsValidUTF8String(octets)
    [] code \in {UNIVERSALSTRING, BMPSTRING} -> Len(octets) % Width(code) = 0
    [] OTHER                                 -> ToSet(octets) \subseteq Alphabet(code)

\* The octets are chars: one over 127 is negative, and sets every bit above it.
SignedOctets(octets) == FoldLeft(LAMBDA n, o : IF o >= 128 THEN o - 256 ELSE 256 * n + o, 0, octets)

CvtBMPString2wchar(octets) ==
  [i \in 1..(Len(octets) \div 2) |-> SignedOctets(SubSeq(octets, 2 * i - 1, 2 * i))]
CvtUniversalString2wchar(octets) ==
  [i \in 1..(Len(octets) \div 4) |-> SignedOctets(SubSeq(octets, 4 * i - 3, 4 * i))]

-----------------------------------------------------------------------------
(* Under their universal tags.                                             *)

OID == 6
RELATIVE_OID == 13

BEncAsnOid(octs) == Univ(OID, octs)
BEncAsnRelativeOid(octs) == Univ(RELATIVE_OID, octs)

\* BDecAsnOidContent and BDecAsnRelativeOidContent.
OidContent(c, tag, len) ==
  IF len = INDEFINITE_LEN THEN Longjmp(c) ELSE Gives(Count(Read(c, len), len), NextOctets(c, len))

BDecAsnOid(c) == TagLen(c, Prim(OID), OidContent)
BDecAsnRelativeOid(c) == TagLen(c, Prim(RELATIVE_OID), OidContent)

\* The encoders write an invalid string too, and set the write error.
BEncString(code, octs) == [octets |-> Univ(code, octs), writeError |-> ~IsValidString(code, octs)]

BDecStringContent(c, code, tag, len) ==
  Then(BDecAsnOctsContent(c, tag, len), LAMBDA d : IF IsValidString(code, d.val) THEN d ELSE Longjmp(d))

BDecString(c, code) ==
  TagLen(c, AnyForm(code), LAMBDA d, tag, len : BDecStringContent(d, code, tag, len))

=============================================================================
