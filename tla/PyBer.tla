------------------------------- MODULE PyBer -------------------------------
(***************************************************************************)
(* The Python library's decoders of BER, and the content of the INTEGERs   *)
(* it encodes.  What a class encodes begins with its tag as a number, not  *)
(* as octets, and is no encoding; so its encoders are not followed here.   *)
(*                                                                         *)
(* A decoder takes octets off the front of a list and returns what it      *)
(* counted; what is wrong raises.  The cursor is Ber's.                    *)
(***************************************************************************)
EXTENDS Ber

\* GetByte, GetSeg and swallow: nothing is counted here.
Swallow(c, k) ==
  IF k > Len(c.rest) THEN Longjmp(c)
  ELSE [c EXCEPT !.rest = SubSeq(@, k + 1, Len(@)), !.val = SubSeq(c.rest, 1, k)]

\* MakeTag, of the eight bits BDec and BEnc leave of BER_TAG.
MakeTag(cf, code) == BEncTag(cf, code % 256)

\* BDecTag: no octets when it raises.  A code of 31 to 127 is not read past the
\* first octet.
PyBDecTag(octets) ==
  LET ends == {k \in 3..Len(octets) : octets[k] < 128} IN
  CASE octets = <<>>         -> <<>>
    [] octets[1] % 32 # 31   -> SubSeq(octets, 1, 1)
    [] Len(octets) = 1       -> <<>>
    [] octets[2] < 128       -> SubSeq(octets, 1, 1)
    [] ends = {}             -> <<>>
    [] OTHER                 -> SubSeq(octets, 1, CHOOSE k \in ends : \A j \in ends : k <= j)

\* The octet that says how many follow is not counted.
BDecDefLen(c) ==
  Then(Swallow(c, 1), LAMBDA d :
    LET first == d.val[1] IN
    CASE first < 128 -> [Count(d, 1) EXCEPT !.val = first]
      [] first = 128 -> Longjmp(d)
      [] OTHER       -> Then(Swallow(d, first - 128), LAMBDA l :
                          [Count(l, first - 128) EXCEPT !.val = Unsigned(@)]))

\* AsnBase.BDec of a class, with the decoder of its content.
PyBDec(c, class, code, Content(_, _)) ==
  LET tag == PyBDecTag(c.rest) IN
  IF tag \notin {MakeTag(class + PRIM, code), MakeTag(class + CONS, code)} THEN Longjmp(c)
  ELSE Then(BDecDefLen(Count(Swallow(c, Len(tag)), Len(tag))), LAMBDA l : Content(l, l.val))

-----------------------------------------------------------------------------
(* AsnInt: a number of any size, as the least octets of its two's          *)
(* complement; AsnBool is an AsnInt; AsnOcts, NumericString and IA5String  *)
(* take the octets as they come, whatever the form.                        *)

\* Octets are taken off the number, which is the rest of its octets, until only
\* its sign is left, and then those that say no more than the next.
PyIntContent(v, negative) == WithoutFill(<<IF negative THEN 255 ELSE 0>> \o v, negative)

PyIntDecoded(c, len) ==
  IF c.rest = <<>> THEN Longjmp(c)
  ELSE Then(Swallow(c, len), LAMBDA d :
         [Count(d, len) EXCEPT !.val =
           LET fill == IF c.rest[1] >= 128 THEN 255 ELSE 0 IN WithoutFill(<<fill>> \o @, fill = 255)])

PyBoolDecoded(c, len) == Then(PyIntDecoded(c, len), LAMBDA d : [d EXCEPT !.val = @ # <<0>>])

PyOctsDecoded(c, len) == Then(Swallow(c, len), LAMBDA d : Count(d, len))

=============================================================================
