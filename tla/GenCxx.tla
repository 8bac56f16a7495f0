------------------------------ MODULE GenCxx ------------------------------
(***************************************************************************)
(* The classes that the compiler's C++ back end prints (c++-gen), over the *)
(* C++ library: BEnc and BDec of a class, BEncContent and BDecContent of   *)
(* its content.                                                            *)
(*                                                                         *)
(* They differ from the C routines: lengths are always definite, and SET   *)
(* and SET OF always sorted; a list has the universal tag, and its members *)
(* those of their classes; and an object may hold an earlier value.        *)
(***************************************************************************)
EXTENDS GenCode, CxxBer
LOCAL INSTANCE SequencesExt
LOCAL INSTANCE FiniteSets

IsList(t) == t.kind \in {"of", "setof"}

-----------------------------------------------------------------------------
(* The tags of a class.                                                    *)

UnivTags(t) ==
  CASE t.kind = "int"               -> <<Tagged(2, ANY_FORM)>>
    [] t.kind = "octs"              -> <<Tagged(4, ANY_FORM)>>
    [] t.kind \in {"seq", "of"}     -> <<Tagged(16, CONS)>>
    [] t.kind \in {"set", "setof"}  -> <<Tagged(17, CONS)>>
    [] t.kind = "choice"            -> <<>>

HasDefaultTag(t) == t.kind \in {"int", "octs"} /\ t.tags = <<UnivTags(t)[1].octet>>

\* A reference without tags is a typedef; a list inherits from AsnSeqOf or AsnSetOf.
RECURSIVE ClassTags(_)
ClassTags(t) ==
  IF t.kind = "ref" /\ t.tags = <<>> THEN ClassTags(t.to[1])
  ELSE IF IsList(t) \/ HasDefaultTag(t) THEN UnivTags(t)
  ELSE IF GetTags(t).stoleChoiceTags THEN <<>> ELSE GetTags(t).tags

\* The class of a list's members: the one referred to, or that of a builtin type;
\* tags the list puts on its members are lost.
MemberTags(t) == IF t.kind = "ref" THEN ClassTags(t.to[1]) ELSE UnivTags(t)

-----------------------------------------------------------------------------
(* Encoders.                                                               *)

\* AsnBuf::operator<, which also holds between two equal encodings.
BufBefore(a, b) ==
  LET differ == {i \in DOMAIN a \cap DOMAIN b : a[i] # b[i]}
  IN IF differ = {} THEN Len(a) <= Len(b) /\ b # <<>>
     ELSE \E i \in differ : a[i] < b[i] /\ \A j \in differ : i <= j

\* asnbuf_greater looks at the tag without its form bit; tags are one octet here.
SetSortKey(buf) == 64 * (buf[1] \div 64) + (buf[1] % 32)

\* DEFAULT is left out of a SEQUENCE only, and only for the types PrintCxxSeqDefCode
\* knows, of which these are the INTEGERs.
InSequence(e, v) == v # Absent /\ ~(BuiltinOf(e).kind = "int" /\ v = e.default)
InSet(e, v)      == v # Absent

CxxTagged(tags, content) == FoldRight(LAMBDA tag, c : TagAndLen(BER, tag, c), tags, content)

\* The tags of an element, unless it is an untagged CHOICE.
ElmtOctets(e, content) == UnderTagsAndLens(BER, GetTags(e), content)

RECURSIVE CxxEncContent(_, _)
CxxEncContent(t, v) ==
  LET b == BuiltinOf(t)
      Elmt(e, w) == ElmtOctets(e, CxxEncContent(e, w))
      Written(i) == IF b.kind = "set" THEN InSet(b.elmts[i], v[i]) ELSE InSequence(b.elmts[i], v[i])
      written == SelectSeq([i \in DOMAIN b.elmts |-> i], Written)
      bufs == CASE b.kind \in {"seq", "set"} ->
                     [k \in DOMAIN written |-> Elmt(b.elmts[written[k]], v[written[k]][1])]
                [] IsList(b) ->
                     [k \in DOMAIN v |-> CxxTagged(MemberTags(b.elmts[1]), CxxEncContent(b.elmts[1], v[k]))]
  IN CASE b.kind = "int"          -> BEncAsnIntContent(v)
       [] b.kind = "octs"         -> v
       [] b.kind \in {"seq","of"} -> FlattenSeq(bufs)
       [] b.kind = "set"          -> FlattenSeq(SortSeq(bufs, LAMBDA x, y : SetSortKey(x) < SetSortKey(y)))
       [] b.kind = "setof"        -> FlattenSeq(SortSeq(bufs, BufBefore))
       [] b.kind = "choice"       -> Elmt(b.elmts[v.alt], v.val)

\* BEnc.
CxxEncode(t, v) == CxxTagged(ClassTags(t), CxxEncContent(t, v))

-----------------------------------------------------------------------------
(* Tags and lengths of the printed decoders.                               *)

CxxTagAndLen(c, lens) ==
  Then(CxxBDecTag(c), LAMBDA t : Then(CxxBDecLen(t), LAMBDA l :
    [l EXCEPT !.val = [tag |-> t.val, lens |-> Append(lens, @)]]))

CxxNextTag(c, tag) ==
  Then(c, LAMBDA d : Then(CxxTagAndLen(d, d.val.lens), LAMBDA l :
    IF l.val.tag \in Accepted(tag) THEN l ELSE Longjmp(l)))

CxxEocs(c, lens) ==
  FoldLeft(LAMBDA d, len : IF d.ok /\ len = INDEFINITE_LEN THEN Zeros(d, 2) ELSE d, c, lens)

-----------------------------------------------------------------------------
(* Decoders.  old is the object decoded into, b the builtin type.          *)

\* What is decoded into element i, after Clear: an element that may be absent is
\* deleted, and made again when it comes.
Member(b, i, old) ==
  IF old = <<>> \/ MayBeAbsent(b.elmts[i]) THEN <<>> ELSE old[1][i]

RECURSIVE CxxInside(_, _, _), CxxContent(_, _, _, _, _), CxxSet(_, _, _, _, _), CxxSetElmt(_, _, _, _, _, _, _),
          CxxList(_, _, _, _), CxxSeq(_, _, _, _, _)

CxxIsChoice(t) == BuiltinOf(t).kind = "choice"

\* The content after the tags and lengths of o, and the ends of those around it.
CxxInside(t, o, old) ==
  Then(CxxContent(t, o, o.val.tag, Last(o.val.lens), old), LAMBDA d : CxxEocs(d, Front(o.val.lens)))

\* An element whose first tag and length have been read.
CxxOpen(t, c, tag, len) ==
  LET further == FoldLeft(CxxNextTag, [c EXCEPT !.val = [tag |-> tag, lens |-> <<len>>]], Further(GetTags(t)))
  IN IF CxxIsChoice(t) /\ ~GetTags(t).stoleChoiceTags
     THEN Then(further, LAMBDA d : CxxTagAndLen(d, d.val.lens)) ELSE further

CxxElmt(t, c, tag, len, old) == Then(CxxOpen(t, c, tag, len), LAMBDA o : CxxInside(t, o, old))

\* The tags of a class and their lengths.
OpenClass(tags, c) == FoldLeft(CxxNextTag, [c EXCEPT !.val = [tag |-> EOC_TAG_ID, lens |-> <<>>]], tags)

\* BDec of a class with these tags: a CHOICE reads the tag of its alternative.
CxxClass(t, tags, c, old) ==
  LET opened == OpenClass(tags, c)
  IN Then(IF CxxIsChoice(t) THEN Then(opened, LAMBDA d : CxxTagAndLen(d, d.val.lens)) ELSE opened,
          LAMBDA o : CxxInside(t, o, old))

\* The printed loop of a SET.
CxxSet(b, c, len, got, old) ==
  LET Finish(d) == IF got.mandatoryElmtsDecoded < Cardinality(MandatoryElmts(b)) THEN Longjmp(d)
                   ELSE [d EXCEPT !.val = got.elmts]
  IN IF len # INDEFINITE_LEN /\ c.bytesDecoded >= len THEN Finish(c)
     ELSE Then(CxxBDecTag(c), LAMBDA t :
       IF t.val = EOC_TAG_ID /\ len = INDEFINITE_LEN THEN Then(Zeros(t, 1), Finish)
       ELSE Then(CxxBDecLen(t), LAMBDA l : CxxSetElmt(b, l, t.val, CaseOf(b, t.val), len, got, old)))

CxxSetElmt(b, c, tag, i, len, got, old) ==
  IF i = 0 THEN Longjmp(c)
  ELSE Then(CxxElmt(b.elmts[i], c, tag, c.val, Member(b, i, old)), LAMBDA e :
         CxxSet(b, e, len,
           [elmts |-> [got.elmts EXCEPT ![i] = Present(e.val)],
            mandatoryElmtsDecoded |-> got.mandatoryElmtsDecoded + (IF i \in MandatoryElmts(b) THEN 1 ELSE 0)],
           old))

\* AsnList::BDecContent: each member is a new object at the end of the list.
CxxList(member, c, len, list) ==
  IF len # INDEFINITE_LEN /\ c.bytesDecoded >= len THEN [c EXCEPT !.val = list]
  ELSE IF len = INDEFINITE_LEN /\ c.rest = <<>> THEN Longjmp(c)
  ELSE IF len = INDEFINITE_LEN /\ c.rest[1] = 0 THEN Zeros([c EXCEPT !.val = list], 2)
  ELSE Then(CxxClass(member, MemberTags(member), c, <<>>), LAMBDA e : CxxList(member, e, len, Append(list, e.val)))

\* The printed code after element i of a SEQUENCE (0: before the first): the next
\* tag, or the end where all that may follow is optional.
CxxNextSeqTag(b, c, len, i, elmts, oldTag) ==
  LET State(tag, end) == [tag |-> tag, end |-> end, elmts |-> elmts]
      tail == IsTailOptional(b, i + 1)
  IN IF i = Len(b.elmts) THEN [c EXCEPT !.val = State(oldTag, FALSE)]
     ELSE IF tail /\ c.bytesDecoded = len THEN [c EXCEPT !.val = State(oldTag, TRUE)]
     ELSE Then(CxxBDecTag(c), LAMBDA t :
            IF tail /\ t.val = EOC_TAG_ID /\ len = INDEFINITE_LEN
            THEN Then(Zeros(t, 1), LAMBDA d : [d EXCEPT !.val = State(t.val, TRUE)])
            ELSE [t EXCEPT !.val = State(t.val, FALSE)])

\* After the last element.
CxxSeqEnd(c, len) ==
  IF len = INDEFINITE_LEN THEN Then(Zeros(c, 2), LAMBDA d : [d EXCEPT !.val = c.val.elmts])
  ELSE IF c.bytesDecoded # len THEN Longjmp(c) ELSE [c EXCEPT !.val = c.val.elmts]

\* From element i on; c.val is the state above.
CxxSeq(b, c, len, i, old) ==
  LET s == c.val
      From(n, j) == IF n.val.end THEN [n EXCEPT !.val = n.val.elmts]
                    ELSE IF j > Len(b.elmts) THEN CxxSeqEnd(n, len) ELSE CxxSeq(b, n, len, j, old)
      AfterElmt(e) == Then(CxxNextSeqTag(b, e, len, i, [s.elmts EXCEPT ![i] = Present(e.val)], s.tag),
                           LAMBDA n : From(n, i + 1))
  IN IF s.tag \in FirstTags(b.elmts[i])
     THEN Then(CxxBDecLen(c), LAMBDA l : Then(CxxElmt(b.elmts[i], l, s.tag, l.val, Member(b, i, old)), AfterElmt))
     ELSE IF MayBeAbsent(b.elmts[i]) THEN From(c, i + 1) ELSE Longjmp(c)

CxxEmpty(c, len) ==
  IF len = INDEFINITE_LEN THEN Zeros([c EXCEPT !.val = <<>>], 2)
  ELSE IF len # 0 THEN Longjmp(c) ELSE [c EXCEPT !.val = <<>>]

CxxAlternative(b, c, tag, len, i) ==
  IF i = 0 THEN Longjmp(c)
  ELSE Then(CxxElmt(b.elmts[i], c, tag, len, <<>>), LAMBDA e : [e EXCEPT !.val = Alt(i, @)])

\* BDecContent: what it decodes is counted from zero and then added.
CxxContent(t, c, tag, len, old) ==
  LET b == BuiltinOf(t)
      d == [c EXCEPT !.bytesDecoded = 0]
  IN Count(
       CASE b.kind = "int"    -> Then(CxxIntContent(d, len), ToInteger)
         [] b.kind = "octs"   -> CxxOctsContent(d, tag, len, old)
         [] IsList(b)         -> CxxList(b.elmts[1], [d EXCEPT !.kept = @ \/ Held(old) # <<>>], len, Held(old))
         [] b.kind = "choice" -> CxxAlternative(b, d, tag, len, CaseOf(b, tag))
         [] b.elmts = <<>>    -> CxxEmpty(d, len)
         [] b.kind = "set"    -> CxxSet(b, d, len, [elmts |-> NoElmts(b), mandatoryElmtsDecoded |-> 0], old)
         [] b.kind = "seq"    -> Then(CxxNextSeqTag(b, d, len, 0, NoElmts(b), EOC_TAG_ID), LAMBDA n :
                                   IF n.val.end THEN [n EXCEPT !.val = n.val.elmts] ELSE CxxSeq(b, n, len, 1, old)),
       c.bytesDecoded)

\* The class of a list clears it, unless the list is under a tag of its own.
RECURSIVE ClearsItself(_)
ClearsItself(t) == IF t.kind = "ref" /\ t.tags = <<>> THEN ClearsItself(t.to[1]) ELSE IsList(t)

\* BDec into an object.
CxxDecode(t, octets, old) ==
  CxxClass(t, ClassTags(t), CxxAt(octets), IF ClearsItself(t) THEN <<>> ELSE old)

=============================================================================
