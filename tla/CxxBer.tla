------------------------------- MODULE CxxBer -------------------------------
(***************************************************************************)
(* The BER codecs of the C++ library: its buffer, tags and lengths, and    *)
(* the contents of BOOLEAN, INTEGER, OCTET STRING and BIT STRING.          *)
(*                                                                         *)
(* The encoders write what those of Ber do, but for the BIT STRINGs with   *)
(* named bits.  The decoders differ: reading past the end throws at once,  *)
(* and a decoder is a method of an object, which may hold an earlier value *)
(* (old: <<>> when it is new and <<v>> when it holds v).  The cursor is    *)
(* Ber's; str has the pieces of a constructed string.                      *)
(***************************************************************************)
EXTENDS Ber
LOCAL INSTANCE SequencesExt
LOCAL INSTANCE FiniteSetsExt

\* kept: something in the object was there before this decoding; strays: a loop
\* from begin() to end() - 1 of an empty deque, which is undefined, enters it.
CxxAt(octets) ==
  [rest |-> octets, bytesDecoded |-> 0, ok |-> TRUE, val |-> <<>>, str |-> <<>>, kept |-> FALSE,
   strays |-> FALSE]

\* GetByte and GetSeg.
GetSeg(c, k) ==
  IF k > Len(c.rest) THEN Longjmp(c)
  ELSE [Count(c, k) EXCEPT !.rest = SubSeq(@, k + 1, Len(@)), !.val = SubSeq(c.rest, 1, k)]

CxxBDecTag(c) ==
  Then(GetSeg(c, TagSize(NextOctets(c, 4))), LAMBDA d :
    IF Len(d.val) = 4 /\ d.val[4] >= 128 THEN Longjmp(d) ELSE [d EXCEPT !.val = FillUp(@)])

CxxBDecLen(c) ==
  Then(GetSeg(c, 1), LAMBDA d :
    LET first == d.val[1] IN
    CASE first < 128       -> [d EXCEPT !.val = first]
      [] first = 128       -> [d EXCEPT !.val = INDEFINITE_LEN]
      [] first - 128 > 8   -> Longjmp(d)
      [] OTHER             -> Then(GetSeg(d, first - 128), LAMBDA l : [l EXCEPT !.val = Unsigned(@)]))

\* BDecEoc and BDEC_2ND_EOC_OCTET.
Zeros(c, k) ==
  Then(GetSeg(c, k), LAMBDA d : IF \A i \in 1..k : d.val[i] = 0 THEN [d EXCEPT !.val = c.val] ELSE Longjmp(d))

\* Content(c, tag, len) after one of the tags and a length: BDec of the library's classes.
CxxTagLen(c, tags, Content(_, _, _)) ==
  Then(CxxBDecTag(c), LAMBDA t :
    IF t.val \notin tags THEN Longjmp(t)
    ELSE Then(CxxBDecLen(t), LAMBDA l : Content(l, t.val, l.val)))

\* What a string or a list held.
Held(old) == IF old = <<>> THEN <<>> ELSE old[1]

-----------------------------------------------------------------------------
(* BOOLEAN and INTEGER.  An AsnInt of any size is its content octets.      *)

CxxBoolContent(c, len) ==
  IF len # 1 THEN Longjmp(c) ELSE Then(GetSeg(c, 1), LAMBDA d : [d EXCEPT !.val = @ # <<0>>])

\* storeDERInteger: of an unsigned number whose first bit is set, one octet more.
StoredInteger(octets, unsigned) ==
  IF unsigned /\ octets[1] >= 128 THEN <<0>> \o octets ELSE WithoutFill(octets, octets[1] >= 128)

\* AsnInt::BDecContent.  Of length 0 it takes an octet of memory that is not set:
\* none is sent here.
CxxIntContent(c, len) ==
  IF len = INDEFINITE_LEN THEN Longjmp(c)
  ELSE Then(GetSeg(c, len), LAMBDA d : [d EXCEPT !.val = StoredInteger(@, @[1] < 128)])

\* The application takes it as a 32-bit number: toInteger, or getPadded for an
\* unsigned one.
ToInteger(c) ==
  IF Len(c.val) > 4 THEN Longjmp(c)
  ELSE [c EXCEPT !.val = LowFour(@, IF @[1] >= 128 THEN 255 ELSE 0)]

GetPadded(c, size) ==
  IF Len(c.val) > size /\ c.val[1] # 0 THEN Longjmp(c)
  ELSE [c EXCEPT !.val =
         IF Len(@) > size THEN Tail(@) ELSE [i \in 1..(size - Len(@)) |-> 0] \o @]

-----------------------------------------------------------------------------
(* Strings.                                                                *)

\* ConsStringDeck::Fill.  The end of a piece that is itself constructed ends
\* everything, and what it holds is not counted.
RECURSIVE Fill(_, _, _)
Fill(c, len, code) ==
  LET Piece(l, tag) ==
        CASE tag = MAKE_TAG_ID(0, code) ->
               IF l.val = INDEFINITE_LEN THEN Longjmp(l)
               ELSE Then(GetSeg(l, l.val), LAMBDA p : [p EXCEPT !.str = Append(@, p.val), !.val = "more"])
          [] tag = MAKE_TAG_ID(CONS, code) ->
               IF INDEFINITE_LEN \notin {len, l.val} /\ l.val + l.bytesDecoded > len THEN Longjmp(l)
               ELSE Then(Fill([l EXCEPT !.bytesDecoded = 0], l.val, code), LAMBDA f :
                      [f EXCEPT !.bytesDecoded = l.bytesDecoded, !.val = "done"])
          [] OTHER -> Longjmp(l)
      Again(p) == IF p.val = "done" THEN p ELSE Fill(p, len, code)
  IN IF len # INDEFINITE_LEN /\ c.bytesDecoded >= len THEN c
     ELSE Then(CxxBDecTag(c), LAMBDA t :
       IF t.val = EOC_TAG_ID /\ len = INDEFINITE_LEN THEN Zeros(t, 1)
       ELSE Then(CxxBDecLen(t), LAMBDA l : Then(Piece(l, t.val), Again)))

\* The pieces of a constructed string, counted after what came before.
Deck(c, len, code) ==
  Then(Fill([c EXCEPT !.str = <<>>, !.bytesDecoded = 0], len, code), LAMBDA f : Count(f, c.bytesDecoded))

\* AsnOcts::BDecContent: Collapse appends the pieces to what the string holds, and
\* an empty string leaves it alone.
CxxOctsContent(c, tag, len, old) ==
  IF len = 0 THEN [c EXCEPT !.val = Held(old), !.kept = @ \/ Held(old) # <<>>]
  ELSE IF TAG_IS_CONS(tag)
  THEN Then(Deck(c, len, OCTETSTRING), LAMBDA f :
         [f EXCEPT !.val = Held(old) \o FlattenSeq(f.str), !.kept = @ \/ Held(old) # <<>>])
  ELSE IF len = INDEFINITE_LEN THEN Longjmp(c) ELSE GetSeg(c, len)

NoBits == [bits |-> <<>>, bitLen |-> 0]

\* AsnBits::BDecContent into a new object: BDecConsBits looks at the pieces of a
\* constructed one but never puts them together.  Where there is none it may read
\* memory that is not the deque's, and then gives no value.
CxxBitsContent(c, tag, len) ==
  IF len = INDEFINITE_LEN \/ len > Len(c.rest) THEN Longjmp(c)
  ELSE IF TAG_IS_CONS(tag)
  THEN Then(Deck(c, len, BITSTRING), LAMBDA f :
         IF \/ f.str = <<>> /\ f.strays
            \/ \E i \in 1..(Len(f.str) - 1) : f.str[i][1] # 0
         THEN Longjmp(f) ELSE [f EXCEPT !.val = NoBits])
  ELSE IF len = 0 \/ c.rest[1] > 7 THEN Longjmp(c)
  ELSE Then(GetSeg(c, len), LAMBDA d :
         [d EXCEPT !.val = [bits |-> Tail(@), bitLen |-> 8 * (len - 1) - @[1]]])

\* The positions of its bits that are set, from 0.
SetBits(v) == {n \in 0..(v.bitLen - 1) : (v.bits[n \div 8 + 1] \div 2^(7 - (n % 8))) % 2 = 1}

\* AsnBits::BEncContent of a BIT STRING with named bits: up to the last octet that
\* is not zero, whose trailing zero bits are unused.
CxxNamedBitsContent(v) ==
  LET octets == SubSeq(v.bits, 1, (v.bitLen + 7) \div 8)
      final  == Max({0} \cup {i \in DOMAIN octets : octets[i] # 0})
  IN IF final = 0 THEN <<0>>
     ELSE <<CHOOSE u \in 0..7 : octets[final] % 2^u = 0 /\ (octets[final] \div 2^u) % 2 = 1>>
          \o SubSeq(octets, 1, final)

-----------------------------------------------------------------------------
(* BDec of the library's classes.                                          *)

CxxBDecBool(c) == CxxTagLen(c, Prim(BOOLEAN_TAG), LAMBDA d, tag, len : CxxBoolContent(d, len))
CxxBDecInt(c)  == CxxTagLen(c, AnyForm(INTEGER), LAMBDA d, tag, len : CxxIntContent(d, len))
CxxBDecOcts(c) == CxxTagLen(c, AnyForm(OCTETSTRING), LAMBDA d, tag, len : CxxOctsContent(d, tag, len, <<>>))
CxxBDecBits(c) == CxxTagLen(c, AnyForm(BITSTRING), CxxBitsContent)

=============================================================================
