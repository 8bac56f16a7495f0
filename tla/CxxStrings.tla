----------------------------- MODULE CxxStrings -----------------------------
(***************************************************************************)
(* Object identifiers and character strings in the C++ library.  An object *)
(* holds characters, of which the wide strings (UTF8String, BMPString and  *)
(* UniversalString) make and read the octets themselves; the others hold   *)
(* octets, which are checked when they are encoded, not when decoded.      *)
(***************************************************************************)
EXTENDS Oid, CxxBer
LOCAL INSTANCE SequencesExt

\* AsnRelativeOid::Set.
SetArcs(arcs, isRelative) ==
  LET numbers == IF isRelative THEN arcs ELSE <<HeadArcNum(arcs)>> \o SubSeq(arcs, 3, Len(arcs))
  IN FlattenSeq([i \in DOMAIN numbers |-> ArcOctets(numbers[i])])

\* AsnRelativeOid::BDecContent.
CxxOidContent(c, tag, len) == IF len < 1 THEN Longjmp(c) ELSE GetSeg(c, len)

\* The arcs of an object; an arc without an end throws.
GetOidArray(c, isRelative) ==
  LET all == Arcs(c.val, 1) IN
  IF Last(c.val) >= 128 THEN Longjmp(c)
  ELSE [c EXCEPT !.val =
         IF isRelative THEN all ELSE <<FirstArc(all[1]), all[1] - 40 * FirstArc(all[1])>> \o Tail(all)]

CxxBDecOid(c)         == CxxTagLen(c, Prim(OID), CxxOidContent)
CxxBDecRelativeOid(c) == CxxTagLen(c, Prim(RELATIVE_OID), CxxOidContent)

-----------------------------------------------------------------------------
(* AsnString: a character is an octet.                                     *)

Checked(code) == IF code = VISIBLESTRING THEN 32..126 ELSE Alphabet(code)

\* BDecConsString.  The octets of the pieces (here: pieces) are counted twice, and
\* for a piece that is itself constructed in the count that ends the loop.
RECURSIVE BDecConsString(_, _, _)
BDecConsString(c, len, pieces) ==
  LET Piece(l, tag) ==
        CASE tag = MAKE_TAG_ID(PRIM, OCTETSTRING) ->
               IF l.val = INDEFINITE_LEN THEN Longjmp(l)
               ELSE Then(GetSeg(l, l.val), LAMBDA p :
                      BDecConsString([p EXCEPT !.str = @ \o p.val], len, pieces + l.val))
          [] tag = MAKE_TAG_ID(CONS, OCTETSTRING) ->
               Then(BDecConsString([l EXCEPT !.bytesDecoded = 0], l.val, 0), LAMBDA n :
                 BDecConsString(Count(n, l.bytesDecoded), len, pieces))
          [] OTHER -> Longjmp(l)
  IN IF len # INDEFINITE_LEN /\ c.bytesDecoded >= len THEN Count(c, pieces)
     ELSE Then(CxxBDecTag(c), LAMBDA t :
       IF t.val = EOC_TAG_ID /\ len = INDEFINITE_LEN THEN Then(Zeros(t, 1), LAMBDA z : Count(z, pieces))
       ELSE Then(CxxBDecLen(t), LAMBDA l : Piece(l, t.val)))

AsnStringContent(c, tag, len) ==
  IF TAG_IS_CONS(tag)
  THEN Then(BDecConsString([c EXCEPT !.str = <<>>, !.bytesDecoded = 0], len, 0), LAMBDA s :
         [Count(s, c.bytesDecoded) EXCEPT !.val = s.str])
  ELSE IF len = INDEFINITE_LEN THEN Longjmp(c) ELSE GetSeg(c, len)

-----------------------------------------------------------------------------
(* WideAsnString.                                                          *)

IsWide(code) == code \in {UTF8STRING, BMPSTRING, UNIVERSALSTRING}

\* BEncContent; of a BMPString, of characters below 2^16.
StringContent(code, chars) ==
  CASE code = UTF8STRING -> CvtWchar2UTF8(chars)
    [] code # UTF8STRING /\ IsWide(code) ->
         FlattenSeq([i \in DOMAIN chars |-> BigEndian(chars[i], Width(code))])
    [] OTHER -> chars

\* Other characters make the encoder throw.
CxxWrites(code, chars) ==
  IF IsWide(code) THEN code = BMPSTRING => ToSet(chars) \subseteq 0..65535
  ELSE ToSet(chars) \subseteq Checked(code)

\* CombineConsString: of a piece as many octets are taken as the whole string has.
RECURSIVE CombineConsString(_, _)
CombineConsString(c, len) ==
  LET Piece(l, tag) ==
        CASE tag = MAKE_TAG_ID(PRIM, OCTETSTRING) ->
               IF len = INDEFINITE_LEN THEN Longjmp(l)
               ELSE Then(GetSeg(l, len), LAMBDA p : [p EXCEPT !.str = @ \o p.val])
          [] tag = MAKE_TAG_ID(CONS, OCTETSTRING) ->
               Then(CombineConsString([l EXCEPT !.bytesDecoded = 0], l.val), LAMBDA n :
                 Count(n, l.bytesDecoded))
          [] OTHER -> Longjmp(l)
  IN IF len # INDEFINITE_LEN /\ c.bytesDecoded >= len THEN c
     ELSE Then(CxxBDecTag(c), LAMBDA t :
       IF t.val = EOC_TAG_ID /\ len = INDEFINITE_LEN THEN Zeros(t, 1)
       ELSE Then(CxxBDecLen(t), LAMBDA l :
              Then(Piece(l, t.val), LAMBDA p : CombineConsString(p, len))))

\* The octets of a string, however they come.
WideOctets(c, tag, len) ==
  IF len = INDEFINITE_LEN \/ len > Len(c.rest) THEN Longjmp(c)
  ELSE IF TAG_IS_CONS(tag)
  THEN Then(CombineConsString([c EXCEPT !.str = <<>>, !.bytesDecoded = 0], len), LAMBDA s :
         [Count(s, c.bytesDecoded) EXCEPT !.val = s.str])
  ELSE GetSeg(c, len)

\* WideAsnString::set is given a C string: it ends at the first zero.
UpToNul(octets) ==
  SubSeq(octets, 1, CHOOSE n \in 0..Len(octets) : /\ \A i \in 1..n : octets[i] # 0
                                                  /\ n = Len(octets) \/ octets[n + 1] = 0)

UTF8Content(c, tag, len) ==
  Then(WideOctets(c, tag, len), LAMBDA d :
    IF IsValidUTF8String(UpToNul(d.val)) THEN [d EXCEPT !.val = CvtUTF8towchar(UpToNul(@))] ELSE Longjmp(d))

\* BMPString::BDecContent and UniversalString::BDecContent, for a wchar_t of four octets.
WideContent(c, tag, len, width) ==
  Then(WideOctets(c, tag, len), LAMBDA d :
    IF Len(d.val) % width # 0 THEN Longjmp(d)
    ELSE [d EXCEPT !.val =
           [i \in 1..(Len(@) \div width) |-> Unsigned(SubSeq(d.val, width * (i - 1) + 1, width * i))]])

CxxStringContent(c, code, tag, len) ==
  CASE code = UTF8STRING                    -> UTF8Content(c, tag, len)
    [] code \in {BMPSTRING, UNIVERSALSTRING} -> WideContent(c, tag, len, Width(code))
    [] OTHER                                -> AsnStringContent(c, tag, len)

CxxBDecString(c, code) ==
  CxxTagLen(c, AnyForm(code), LAMBDA d, tag, len : CxxStringContent(d, code, tag, len))

=============================================================================
