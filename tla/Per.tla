-------------------------------- MODULE Per --------------------------------
(***************************************************************************)
(* The packed encoding rules as the C++ library and the classes printed for*)
(* SEQUENCE, SET and CHOICE write and read them, aligned or not.  A type is*)
(* a record, t its kind; a constraint is [lo, up, exists].  Of an INTEGER's*)
(* ranges, exists is 0 for lo..MAX, 1 for lo..up and 2 for lo alone; of a  *)
(* size, it is 0 for lo alone, 1 for lo..up and 2 for lo..MAX.             *)
(***************************************************************************)
EXTENDS BufBits, FiniteSets

CONSTANT l_16k   \* as much as one fragment carries

BaseOctets(x, len) == [k \in 1..len |-> (x \div 256^(len - k)) % 256]
OctetsOf(x) == BaseOctets(x, Cardinality({k \in 1..3 : x >= 256^k}) + 1)
IntOctets(x) == IF Head(OctetsOf(x)) >= 128 THEN <<0>> \o OctetsOf(x) ELSE OctetsOf(x)

\* Numbers beyond 2^30 are met only where bits are misread; they are all one here.
Number(octets) ==
  IF Len(octets) > 4 \/ (Len(octets) = 4 /\ octets[1] >= 64) THEN 2^30
  ELSE FoldLeft(LAMBDA n, o : 256 * n + o, 0, octets)

Pack(bits) ==
  [k \in 1..(Len(bits) + 7) \div 8 |->
    LET bit(n) == IF 8 * k - n <= Len(bits) /\ bits[8 * k - n] THEN 2^n ELSE 0
    IN bit(0) + bit(1) + bit(2) + bit(3) + bit(4) + bit(5) + bit(6) + bit(7)]
Unpack(octets, n) == [k \in 1..n |-> BitIn(octets[(k + 7) \div 8], (8 - (k % 8)) % 8)]

\* In how many bits the numbers up to range are written.
MinBits(range) == Cardinality({n \in 0..24 : 2^n <= range})

Spare(n) == (8 - (n % 8)) % 8
PutNumber(b, x, n) == PutBits(b, BaseOctets(x * 2^Spare(n), (n + 7) \div 8), n)
GetNumber(b, n) == Get(GetBits(b, n), LAMBDA c : [c EXCEPT !.val = Number(@) \div 2^Spare(n)])

Lower(constraints) == Min({c.lo : c \in ToSet(constraints)})
Upper(constraints) ==
  Max({c.lo : c \in ToSet(constraints)} \cup {c.up : c \in {d \in ToSet(constraints) : d.exists = 1}})

-----------------------------------------------------------------------------
\* INTEGER and ENUMERATED.
\* PEncFullyConstrained: x is below range.
LengthBits(n) == LET m == n \div 8 IN IF m % 8 = 0 THEN m - 1 ELSE m

PutConstrained(b, x, range) ==
  CASE ~b.align \/ range <= 255 -> PutNumber(b, x, MinBits(range - 1))
    [] b.align /\ range = 256 -> PutNumber(OctetAlignWrite(b), x, 8)
    [] b.align /\ range \in 257..65535 -> PutNumber(OctetAlignWrite(b), x, 16)
    [] b.align /\ range >= 65536 ->
         PutBits(PutNumber(b, Len(OctetsOf(x)) - 1, LengthBits(MinBits(range - 1))),
                 OctetsOf(x), 8 * Len(OctetsOf(x)))

GetConstrained(b, range) ==
  CASE ~b.align \/ range <= 255 -> GetNumber(b, MinBits(range - 1))
    [] b.align /\ range = 256 -> GetNumber(OctetAlignRead(b), 8)
    [] b.align /\ range \in 257..65535 -> GetNumber(OctetAlignRead(b), 16)
    [] b.align /\ range >= 65536 ->
         Get(GetNumber(b, LengthBits(MinBits(range - 1))),
             LAMBDA c : IF c.val >= 4 THEN Throw(c) ELSE GetNumber(c, 8 * (c.val + 1)))

InRange(x, r) ==
  CASE r.exists = 0 -> x >= r.lo [] r.exists = 1 -> x \in r.lo..r.up [] r.exists = 2 -> x = r.lo
UpperBoundFound(ranges) == Upper(ranges) > Lower(ranges) \/ \E r \in ToSet(ranges) : r.exists = 1
SingleValue(ranges) == Len(ranges) = 1 /\ ranges[1].exists = 2

\* The place of a value among those of the list, the greatest first.
IndexedVal(list, v) == Cardinality({w \in ToSet(list) : w > v})
SetIndex(list, x) == IF x < Len(list) THEN CHOOSE v \in ToSet(list) : IndexedVal(list, v) = x ELSE -1

-----------------------------------------------------------------------------
\* Restricted character strings: one character of the alphabet is an index in it,
\* or eight bits, of which the decoder makes the character 0.
B(type) == MinBits(Len(type.alphabet) - 1)
B2(type) == Min({p \in {1, 2, 4, 8} : B(type) <= p})
CharBits(type, align) == IF align THEN B2(type) ELSE B(type)
Direct(type, align) ==
  LET last == Last(type.alphabet)
  IN (IF last >= 128 THEN last - 256 ELSE last) <= 2^CharBits(type, align) - 1

PutChar(b, type, c) ==
  IF Direct(type, b.align) THEN PutBits(b, <<c>>, 8)
  ELSE PutNumber(b, (CHOOSE k \in DOMAIN type.alphabet : type.alphabet[k] = c) - 1, CharBits(type, b.align))

GetChar(b, type, got) ==
  IF Direct(type, b.align) THEN Get(GetBits(b, 8), LAMBDA c : [c EXCEPT !.val = Append(got, 0)])
  ELSE Get(GetNumber(b, CharBits(type, b.align)), LAMBDA c :
         [c EXCEPT !.val = Append(got, IF @ < Len(type.alphabet) THEN type.alphabet[@ + 1] ELSE -1)])

-----------------------------------------------------------------------------
\* EncodeGeneral: v in fragments, each after its size.
OCTETS == [t |-> "octs", sizes |-> <<>>]

FragmentSize(fragments) == <<192 + fragments>>
LastSize(n) == IF n < 128 THEN <<n>> ELSE <<128 + n \div 256, n % 256>>

Fragments(n) ==
  LET whole == n \div (4 * l_16k)
      more  == (n % (4 * l_16k)) \div l_16k
      last  == n % l_16k
  IN [k \in 1..whole |-> [size |-> FragmentSize(4), count |-> 4 * l_16k]]
     \o (IF more = 0 THEN <<>> ELSE <<[size |-> FragmentSize(more), count |-> more * l_16k]>>)
     \o <<[size |-> LastSize(last), count |-> last]>>

PutUnits(b, type, v) ==
  CASE type.t = "octs" -> PutBits(b, v, 8 * Len(v))
    [] type.t = "bits" -> PutBits(b, Pack(v), Len(v))
    [] type.t = "str"  -> FoldLeft(LAMBDA c, x : PutChar(c, type, x), b, v)

EncodeGeneral(b, type, v) ==
  LET sized(c, f) == OctetAlignWrite(PutBits(OctetAlignWrite(c), f.size, 8 * Len(f.size)))
      put(acc, f) == [b |-> PutUnits(sized(acc.b, f), type, SubSeq(acc.rest, 1, f.count)),
                      rest |-> SubSeq(acc.rest, f.count + 1, Len(acc.rest))]
  IN FoldLeft(put, [b |-> b, rest |-> v], Fragments(Len(v))).b

-----------------------------------------------------------------------------
\* EncodeWithSizeConstraint: of more than eight bits, eight and the rest of them
\* after whole octets are written.
SizeBits(range) == LET n == MinBits(range) IN IF n >= 8 THEN 8 + (n % 8) ELSE n

SizeAligned(type) ==
  CASE type.t = "octs" -> Upper(type.sizes) <= 2
    [] type.t = "bits" -> Upper(type.sizes) > 16
    [] type.t = "str"  -> Upper(type.sizes) * B2(type) > 16

\* A BIT STRING is cut or filled with zeros to fit.
Fitted(type, v) ==
  IF type.t # "bits" \/ type.sizes = <<>> THEN v
  ELSE [k \in 1..Max({Lower(type.sizes), Min({Upper(type.sizes), Len(v)})}) |-> k <= Len(v) /\ v[k]]

PutSized(b, type, v) ==
  LET lo == Lower(type.sizes)
      up == Upper(type.sizes)
      ready(c) == IF SizeAligned(type) THEN OctetAlignWrite(c) ELSE c
      counted == IF up > lo THEN PutNumber(ready(b), Len(v) - lo, SizeBits(up - lo)) ELSE b
  IN IF Len(v) \notin lo..up THEN Throw(b)
     ELSE IF type.t = "octs" /\ up = 0 THEN counted
     ELSE PutUnits(ready(counted), type, v)

-----------------------------------------------------------------------------
\* AsnOid and AsnReal: content octets after one octet of length.  Nothing is
\* aligned by the encoder of a REAL of no octets, nor by the decoder of an OID.
PutContent(b, type, v) ==
  LET sized == PutBits(b, <<Len(v)>>, 8)
  IN PutBits(IF type.t = "real" /\ v = <<>> THEN sized ELSE OctetAlignWrite(sized), v, 8 * Len(v))

GetContent(b, type) ==
  Get(GetBits(b, 8), LAMBDA c :
    IF c.val[1] = 0 /\ type.t = "oid" THEN [c EXCEPT !.val = <<>>]
    ELSE GetBits(OctetAlignRead(c), 8 * c.val[1]))

\* PEnc of AsnInt: the value of an INTEGER without constraint is its content octets.
PutInt(b, ranges, v) ==
  IF ranges = <<>> THEN EncodeGeneral(b, OCTETS, v)
  ELSE CASE \A r \in ToSet(ranges) : ~InRange(v, r) -> Throw(b)
         [] OTHER ->
              IF UpperBoundFound(ranges)
              THEN IF Lower(ranges) = Upper(ranges) THEN b
                   ELSE PutConstrained(b, v - Lower(ranges), Upper(ranges) - Lower(ranges) + 1)
              ELSE IF SingleValue(ranges) THEN b
              ELSE EncodeGeneral(b, OCTETS, OctetsOf(v - Lower(ranges)))

\* The elements of a SET and of a CHOICE go by the code of their tags.
PERSort(elmts) ==
  [p \in DOMAIN elmts |->
    CHOOSE k \in DOMAIN elmts : Cardinality({j \in DOMAIN elmts : elmts[j].code < elmts[k].code}) = p - 1]
ElmtOrder(type) == IF type.t = "set" THEN PERSort(type.elmts) ELSE [k \in DOMAIN type.elmts |-> k]

\* OPTIONAL and DEFAULT elements are pointers: <<>> or <<value>>.
Optionals(type) == SelectSeq(ElmtOrder(type), LAMBDA k : type.elmts[k].optional)
PutPreamble(b, type, v) ==
  LET flags == [j \in DOMAIN Optionals(type) |-> v[Optionals(type)[j]] # <<>>]
  IN PutBits(b, Pack(flags), Len(flags))

\* The encodings of the elements of a SET OF, in the order of operator<.
RECURSIVE Less(_, _)
Less(x, y) ==
  IF x = <<>> \/ y = <<>> THEN x = <<>> /\ y # <<>>
  ELSE Head(x) < Head(y) \/ (Head(x) = Head(y) /\ Less(Tail(x), Tail(y)))

PutSorted(b, encodings) ==
  IF \E e \in ToSet(encodings) : ~e.ok THEN Throw(b)
  ELSE FoldLeft(LAMBDA out, e : AppendTo(e, out), b,
                SortSeq(encodings, LAMBDA x, y : Less(Octets(x), Octets(y))))

\* What AsnAny makes of a value that was written to a buffer of its own.
PutOpen(b, inner) ==
  IF inner.ok THEN EncodeGeneral(b, OCTETS, GetBits(inner, inner.left).val) ELSE Throw(b)

-----------------------------------------------------------------------------
RECURSIVE PEnc(_, _, _), PEncEach(_, _, _), PEncElmts(_, _, _, _)

PEncEach(b, type, vs) ==
  IF ~b.ok \/ vs = <<>> THEN b ELSE PEncEach(PEnc(b, type, Head(vs)), type, Tail(vs))

PEncElmts(b, elmts, v, order) ==
  IF ~b.ok \/ order = <<>> THEN b
  ELSE LET k == Head(order)
       IN PEncElmts(PEncEach(b, elmts[k].type, IF elmts[k].optional THEN v[k] ELSE <<v[k]>>),
                    elmts, v, Tail(order))

\* AsnList: lEncLen is that of PERGeneral, 0, and the elements of a list of one
\* size are written by the branch for it and once more after it.
PEncList(b, type, v) ==
  IF type.sizes = <<>> THEN EncodeGeneral(b, OCTETS, <<>>)
  ELSE LET s == type.sizes[1]
           over == Len(v) - s.lo
       IN CASE s.exists = 0 /\ over = 0 -> PEncEach(b, type.of, v \o v)
            [] s.exists = 1 /\ Len(v) \in s.lo..s.up ->
                 PEncEach(OctetAlignWrite(PutNumber(OctetAlignWrite(b), over, SizeBits(s.up - s.lo))), type.of, v)
            [] s.exists = 2 /\ over >= 0 ->
                 PEncEach(OctetAlignWrite(EncodeGeneral(OctetAlignWrite(b), OCTETS, IntOctets(over))), type.of, v)
            [] OTHER -> Throw(b)

PEnc(b, type, v) ==
  CASE ~b.ok -> b
    [] b.ok /\ type.t = "bool" -> PutNumber(b, IF v THEN 1 ELSE 0, 1)
    [] b.ok /\ type.t = "null" -> b
    [] b.ok /\ type.t = "int"  -> PutInt(b, type.ranges, v)
    [] b.ok /\ type.t = "enum" ->
         IF v \in ToSet(type.list) THEN PutConstrained(b, IndexedVal(type.list, v), Len(type.list)) ELSE Throw(b)
    [] b.ok /\ type.t \in {"octs", "bits", "str"} ->
         IF type.sizes = <<>> THEN EncodeGeneral(b, type, v) ELSE PutSized(b, type, Fitted(type, v))
    [] b.ok /\ type.t \in {"oid", "real"} -> PutContent(b, type, v)
    [] b.ok /\ type.t = "any"   -> PutOpen(b, PEnc(BufBits(FALSE), type.of, v))
    [] b.ok /\ type.t = "list"  -> PEncList(b, type, v)
    [] b.ok /\ type.t = "setof" ->
         PutSorted(EncodeGeneral(b, OCTETS, IntOctets(Len(v))),
                   [k \in DOMAIN v |-> PEnc(BufBits(b.align), type.of, v[k])])
    [] b.ok /\ type.t \in {"seq", "set"} ->
         PEncElmts(PutPreamble(b, type, v), type.elmts, v, ElmtOrder(type))
    [] b.ok /\ type.t = "choice" ->
         LET index == CHOOSE p \in DOMAIN type.elmts : PERSort(type.elmts)[p] = v.choiceId
         IN PEnc(EncodeGeneral(b, OCTETS, IntOctets(index - 1)), type.elmts[v.choiceId].type, v.value)

-----------------------------------------------------------------------------
\* An INTEGER as a count; none of the encoders writes a negative one.
AsCount(octets) == IF octets = <<>> \/ Head(octets) >= 128 THEN 0 ELSE Number(octets)

RECURSIVE PDec(_, _), PDecEach(_, _, _, _), PDecElmts(_, _, _, _, _), GetChars(_, _, _, _), DecodeGeneral(_, _, _)

GetChars(b, type, n, got) ==
  IF ~b.ok \/ n = 0 THEN [b EXCEPT !.val = got]
  ELSE Get(GetChar(b, type, got), LAMBDA c : GetChars(c, type, n - 1, c.val))

GetUnits(b, type, n) ==
  CASE type.t = "octs" -> GetBits(b, 8 * n)
    [] type.t = "bits" -> Get(GetBits(b, n), LAMBDA c : [c EXCEPT !.val = Unpack(@, n)])
    [] type.t = "str"  -> GetChars(b, type, n, <<>>)
    [] type.t = "list" -> PDecEach(b, type.of, n, <<>>)

DecodeGeneral(b, type, got) ==
  LET rest(c, n) == Get(GetUnits(OctetAlignRead(c), type, n), LAMBDA d : [d EXCEPT !.val = got \o @])
  IN Get(GetBits(OctetAlignRead(b), 8), LAMBDA c :
       CASE c.val[1] >= 192 ->
              Get(rest(c, (c.val[1] - 192) * l_16k), LAMBDA d : DecodeGeneral(d, type, d.val))
         [] c.val[1] \in 128..191 ->
              Get(GetBits(c, 8), LAMBDA d : rest(d, (c.val[1] - 128) * 256 + d.val[1]))
         [] c.val[1] < 128 -> rest(c, c.val[1]))

GetSized(b, type) ==
  LET lo == Lower(type.sizes)
      up == Upper(type.sizes)
      ready(c) == IF SizeAligned(type) THEN OctetAlignRead(c) ELSE c
  IN Get(IF up > lo THEN GetNumber(ready(b), SizeBits(up - lo)) ELSE [b EXCEPT !.val = 0], LAMBDA c :
       CASE c.val + lo > up -> Throw(c)
         [] c.val + lo <= up /\ type.t = "octs" /\ up = 0 -> [c EXCEPT !.val = <<>>]
         [] OTHER -> GetUnits(ready(c), type, c.val + lo))

GetInt(b, ranges) ==
  LET from(c) == Get(c, LAMBDA d : [d EXCEPT !.val = @ + Lower(ranges)])
  IN IF ranges = <<>> THEN DecodeGeneral(b, OCTETS, <<>>)
     ELSE IF UpperBoundFound(ranges)
     THEN IF Lower(ranges) = Upper(ranges) THEN [b EXCEPT !.val = 0]
          ELSE from(GetConstrained(b, Upper(ranges) - Lower(ranges) + 1))
     ELSE IF SingleValue(ranges) THEN [b EXCEPT !.val = Lower(ranges)]
     ELSE Get(GetBits(b, 8), LAMBDA c : IF c.val[1] > 4 THEN Throw(c) ELSE from(GetNumber(c, 8 * c.val[1])))

PDecEach(b, type, n, got) ==
  IF ~b.ok \/ n = 0 THEN [b EXCEPT !.val = got]
  ELSE Get(PDec(b, type), LAMBDA c : PDecEach(c, type, n - 1, Append(got, c.val)))

PDecElmts(b, elmts, flags, order, got) ==
  IF ~b.ok \/ order = <<>> THEN [b EXCEPT !.val = got]
  ELSE IF elmts[Head(order)].optional
  THEN Get(PDecEach(b, elmts[Head(order)].type, IF Head(flags) THEN 1 ELSE 0, <<>>),
           LAMBDA c : PDecElmts(c, elmts, Tail(flags), Tail(order), Append(got, c.val)))
  ELSE Get(PDec(b, elmts[Head(order)].type),
           LAMBDA c : PDecElmts(c, elmts, flags, Tail(order), Append(got, c.val)))

PDecList(b, type) ==
  IF type.sizes = <<>> THEN DecodeGeneral(b, type, <<>>)
  ELSE LET s == type.sizes[1]
           elmts(c, n) == PDecEach(c, type.of, n, <<>>)
       IN CASE s.exists = 0 -> elmts(b, s.lo)
            [] s.exists = 1 -> Get(GetNumber(OctetAlignRead(b), SizeBits(s.up - s.lo)),
                                   LAMBDA c : elmts(OctetAlignRead(c), c.val + s.lo))
            [] s.exists = 2 -> Get(DecodeGeneral(OctetAlignRead(b), OCTETS, <<>>),
                                   LAMBDA c : elmts(OctetAlignRead(c), AsCount(c.val) + s.lo))

\* A value that AsnAny finds in its OCTET STRING, if there is any octet.
Opened(b, inner) == IF inner.ok THEN [b EXCEPT !.val = inner.val] ELSE Throw(b)

PDec(b, type) ==
  CASE type.t = "bool" -> Get(GetNumber(b, 1), LAMBDA c : [c EXCEPT !.val = @ = 1])
    [] type.t = "null" -> [b EXCEPT !.val = "null"]
    [] type.t = "int"  -> GetInt(b, type.ranges)
    [] type.t = "enum" -> Get(GetConstrained(b, Len(type.list)), LAMBDA c : [c EXCEPT !.val = SetIndex(type.list, @)])
    [] type.t \in {"octs", "bits", "str"} ->
         IF type.sizes = <<>> THEN DecodeGeneral(b, type, <<>>) ELSE GetSized(b, type)
    [] type.t \in {"oid", "real"} -> GetContent(b, type)
    [] type.t = "any"  ->
         Get(DecodeGeneral(b, OCTETS, <<>>), LAMBDA c :
           IF c.val = <<>> THEN c
           ELSE Opened(c, PDec(PutBits(BufBits(FALSE), c.val, 8 * Len(c.val)), type.of)))
    [] type.t = "list" -> PDecList(b, type)
    [] type.t = "setof" ->
         Get(DecodeGeneral(b, OCTETS, <<>>), LAMBDA c : PDecEach(c, type.of, AsCount(c.val), <<>>))
    [] type.t \in {"seq", "set"} ->
         Get(GetAsnBits(b, Len(Optionals(type))), LAMBDA c :
           Get(PDecElmts(c, type.elmts, c.val, ElmtOrder(type), <<>>), LAMBDA d :
             [d EXCEPT !.val = [k \in DOMAIN type.elmts |-> @[CHOOSE p \in DOMAIN @ : ElmtOrder(type)[p] = k]]]))
    [] type.t = "choice" ->
         Get(DecodeGeneral(b, OCTETS, <<>>), LAMBDA c :
           IF AsCount(c.val) >= Len(type.elmts) THEN c
           ELSE LET k == PERSort(type.elmts)[AsCount(c.val) + 1]
                IN Get(PDec(c, type.elmts[k].type), LAMBDA d :
                         [d EXCEPT !.val = [choiceId |-> k, value |-> @]]))

=============================================================================
