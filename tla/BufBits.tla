------------------------------ MODULE BufBits ------------------------------
(***************************************************************************)
(* AsnBufBits: the buffer that the C++ library's PER routines write bits   *)
(* to and read them from.  Octets that are full are in a stream; the one   *)
(* being written and the one being read are kept apart, filled from the    *)
(* left.  A read that finds the stream empty takes the octet being written.*)
(***************************************************************************)
EXTENDS Integers, Sequences, SequencesExt

Shl(x, n) == (x * 2^n) % 256
Shr(x, n) == x \div 2^n
BitIn(x, n) == Shr(x, n) % 2 = 1
BitOr(x, y) ==
  LET bit(n) == IF BitIn(x, n) \/ BitIn(y, n) THEN 2^n ELSE 0
  IN bit(0) + bit(1) + bit(2) + bit(3) + bit(4) + bit(5) + bit(6) + bit(7)

\* wpos bits of wchar are free, rpos bits of rchar were given out.  left is an
\* unsigned long: one below zero is a very large one.  ok is FALSE after a throw,
\* val is what was read.
BufBits(align) ==
  [stream |-> <<>>, wchar |-> 0, wpos |-> 8, rchar |-> 0, rpos |-> 8,
   left |-> 0, align |-> align, ok |-> TRUE, val |-> <<>>]

Throw(b) == [b EXCEPT !.ok = FALSE]
Get(b, Step(_)) == IF b.ok THEN Step(b) ELSE b

MaskBits(c, n) == IF n \in 1..7 THEN Shl(Shr(c, 8 - n), 8 - n) ELSE c

-----------------------------------------------------------------------------
\* PutBits: the whole octets of seg, and then the first bits of one more.
PutOctets(b, seg) ==
  IF seg = <<>> THEN b
  ELSE [b EXCEPT
         !.stream = @ \o [k \in 1..Len(seg) |->
                           BitOr(IF k = 1 THEN b.wchar ELSE Shl(seg[k - 1], b.wpos),
                                 Shr(MaskBits(seg[k], b.wpos), 8 - b.wpos))],
         !.wchar = Shl(Last(seg), b.wpos),
         !.left = @ + 8 * Len(seg)]

PutExtra(b, c, extra) ==
  LET w == BitOr(b.wchar, Shr(c, 8 - b.wpos))
      counted == [b EXCEPT !.left = @ + extra]
  IN CASE extra = b.wpos -> [counted EXCEPT !.stream = Append(@, w), !.wpos = 8, !.wchar = 0]
       [] extra < b.wpos -> [counted EXCEPT !.wpos = @ - extra,
                                            !.wchar = MaskBits(w, 8 - (b.wpos - extra))]
       [] extra > b.wpos ->
            LET wpos == 8 - (extra - b.wpos) IN
            [counted EXCEPT !.stream = Append(@, w), !.wpos = wpos,
                            !.wchar = Shl(Shr(c, 8 - extra), wpos)]

PutBits(b, seg, numBits) ==
  LET octets == PutOctets(b, SubSeq(seg, 1, numBits \div 8)) IN
  IF numBits % 8 = 0 THEN octets ELSE PutExtra(octets, seg[numBits \div 8 + 1], numBits % 8)

OctetAlignWrite(b) ==
  IF b.align /\ b.wpos < 8
  THEN [b EXCEPT !.stream = Append(@, b.wchar), !.left = @ + b.wpos, !.wpos = 8, !.wchar = 0]
  ELSE b

-----------------------------------------------------------------------------
\* The octets ReadByte gives from the stream and from the one being written.
Octets(b) == IF b.wpos < 8 THEN Append(b.stream, b.wchar) ELSE b.stream

\* ReadByte, n times, into val.  Behind the last octet the one being read is given
\* again, for all the bits that seem to be left.
ReadBytes(b, n) ==
  LET have == Len(b.stream)
  IN CASE n <= have -> [b EXCEPT !.stream = SubSeq(@, n + 1, have), !.val = SubSeq(b.stream, 1, n)]
       [] n = have + 1 /\ b.wpos < 8 ->
            [b EXCEPT !.stream = <<>>, !.wpos = 8, !.wchar = 0, !.val = Octets(b)]
       [] n = Len(Octets(b)) + 1 /\ b.left # 0 ->
            [b EXCEPT !.stream = <<>>, !.wpos = 8, !.wchar = 0, !.left = 0, !.val = Append(Octets(b), b.rchar)]
       [] OTHER -> Throw(b)

\* Octets of eight bits, and one of less, put together of the octet being read
\* and the next ones.
GetOctets(b, n) ==
  Get(ReadBytes(b, n), LAMBDA r :
    IF n = 0 \/ b.rpos = 8 THEN r
    ELSE [r EXCEPT !.val = [k \in 1..n |->
                             BitOr(IF k = 1 THEN b.rchar ELSE Shl(@[k - 1], b.rpos),
                                   Shr(MaskBits(@[k], b.rpos), 8 - b.rpos))],
                   !.rchar = Shl(Last(r.val), b.rpos)])

GetExtra(b, extra) ==
  LET have == 8 - b.rpos IN
  IF extra <= have
  THEN [b EXCEPT !.val = Append(@, MaskBits(b.rchar, extra)), !.rchar = Shl(@, extra), !.rpos = @ + extra]
  ELSE Get(ReadBytes(b, 1), LAMBDA r :
         [r EXCEPT !.val = Append(b.val, BitOr(b.rchar, Shr(MaskBits(@[1], extra - have), have))),
                   !.rchar = Shl(r.val[1], extra - have),
                   !.rpos = extra - have])

TooFew(b, numBits) == b.left \in 0..(numBits - 1)

GetBits(b, numBits) ==
  IF ~b.ok \/ TooFew(b, numBits) THEN Throw(b)
  ELSE Get(GetOctets(b, numBits \div 8),
           LAMBDA c : Get(IF numBits % 8 = 0 THEN c ELSE GetExtra(c, numBits % 8),
                          LAMBDA d : [d EXCEPT !.left = @ - numBits]))

\* GetBit, numBits times, into an AsnBits: val is a sequence of truth values.
GetBit(b) ==
  IF b.left = 0 THEN Throw(b)
  ELSE Get(IF b.rpos < 8 THEN b
           ELSE Get(ReadBytes(b, 1),
                    LAMBDA r : [r EXCEPT !.rchar = r.val[1], !.rpos = 0, !.val = b.val]),
           LAMBDA r : [r EXCEPT !.val = Append(@, r.rchar >= 128), !.rpos = @ + 1,
                                !.rchar = Shl(@, 1), !.left = @ - 1])

GetAsnBits(b, numBits) ==
  IF ~b.ok \/ TooFew(b, numBits) THEN Throw(b)
  ELSE FoldLeft(LAMBDA c, k : Get(c, GetBit), [b EXCEPT !.val = <<>>], [k \in 1..numBits |-> k])

\* Mutant: the bits passed over stay counted.
OctetAlignReadUncounted(b) == IF b.align THEN [b EXCEPT !.rpos = 8, !.rchar = 0] ELSE b

OctetAlignRead(b) ==
  IF b.align THEN [b EXCEPT !.left = @ - (8 - b.rpos), !.rpos = 8, !.rchar = 0] ELSE b

-----------------------------------------------------------------------------
\* AppendTo: the bits after the last whole octet are read, but those of that octet
\* (or of zero, where there is none) are put instead.
AppendTo(b, out) ==
  LET whole == b.left \div 8
      last  == IF whole = 0 THEN 0 ELSE Octets(b)[whole]
  IN PutBits(PutBits(out, Octets(b), 8 * whole), <<last>>, b.left % 8)

=============================================================================
