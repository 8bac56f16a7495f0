------------------------------ MODULE GenCode ------------------------------
(***************************************************************************)
(* The encoders and decoders that the compiler's C back end prints         *)
(* (gen-enc.c, gen-dec.c), by what the printed code does: one operator for *)
(* each routine that prints, evaluated on a value or on a cursor of Ber.   *)
(* They know the tags of a type by GetTags (tag-util.c); the types are     *)
(* those of the front end.                                                 *)
(*                                                                         *)
(* The printed encoders write backwards and count what they write; here    *)
(* the octets are put together in their final order, and the counts are    *)
(* their lengths.  SET OF under DER is sorted for at most two elements:    *)
(* what qsort does with more depends on the library, as the comparison is  *)
(* no ordering.                                                            *)
(***************************************************************************)
EXTENDS Ber, FrontEnd
LOCAL INSTANCE SequencesExt

FormOf(kind) == CASE kind = "int" -> PRIM [] kind = "octs" -> ANY_FORM [] OTHER -> CONS

-----------------------------------------------------------------------------
(* GetTags.                                                                *)

\* The tags of one that is not an untagged CHOICE.
TagList(octets, kind) ==
  [stoleChoiceTags |-> FALSE,
   tags |-> [i \in DOMAIN octets |-> Tagged(octets[i], IF i < Len(octets) THEN CONS ELSE FormOf(kind))]]

\* The tags it may begin with, and those after the first one.
Firsts(g)  == IF g.stoleChoiceTags THEN g.tags ELSE <<g.tags[1]>>
Further(g) == IF g.stoleChoiceTags THEN <<>> ELSE Tail(g.tags)

\* An untagged CHOICE "steals" the first tags of its alternatives.
RECURSIVE GetTags(_)
GetTags(t) ==
  LET b == BuiltinOf(t) IN
  IF b.kind = "choice" /\ FollowTags(t, FALSE) = <<>>
  THEN [stoleChoiceTags |-> TRUE, tags |-> FlattenSeq([i \in DOMAIN b.elmts |-> Firsts(GetTags(b.elmts[i]))])]
  ELSE TagList(FollowTags(t, FALSE), b.kind)

\* The encoded tags that an element's decoder begins with.
FirstTags(t) == UNION {Accepted(tag) : tag \in ToSet(Firsts(GetTags(t)))}

-----------------------------------------------------------------------------
(* Encoders.  "rules" says which were chosen when the code was generated   *)
(* (GetEncRulesType) and compiled (USE_INDEF_LEN).                *)

BER   == [der |-> FALSE, indefinite |-> FALSE]
BERX  == [der |-> FALSE, indefinite |-> TRUE]
DER   == [der |-> TRUE,  indefinite |-> FALSE]

\* PrintCTagAndLenList, and PrintEocEncoders for the constructed tags.
TagAndLen(rules, tag, content) ==
  IF tag.form = CONS
  THEN <<tag.octet + CONS>> \o (IF rules.indefinite THEN BEncIndefLen \o content \o BEncEoc
                                ELSE BEncDefLen(Len(content)) \o content)
  ELSE <<tag.octet>> \o BEncDefLen(Len(content)) \o content

\* CmpTags: the tags with their forms, as MAKE_TAG_ID makes them; ANY_FORM is
\* not taken apart, and sets every bit of the octet but the last.
TagId(tag) == IF tag.form = ANY_FORM THEN 254 + (tag.octet % 2) ELSE tag.octet + tag.form

TagIds(g) == [i \in DOMAIN g.tags |-> TagId(g.tags[i])]

LessTags(s, r) ==
  LET differ == {i \in DOMAIN s \cap DOMAIN r : s[i] # r[i]} IN
  IF differ = {} THEN Len(s) < Len(r)
  ELSE \E i \in differ : s[i] < r[i] /\ \A j \in differ : i <= j

CmpTagsBefore(a, b) == LessTags(TagIds(GetTags(a)), TagIds(GetTags(b)))

\* EncodedElmtCmp: the last octet that differs, each plus one, in eight bits.
EncodedElmtCmp(a, b) ==
  LET differ == {i \in DOMAIN a \cap DOMAIN b : a[i] # b[i]}
      last == CHOOSE k \in differ : \A j \in differ : j <= k
  IN IF differ = {} THEN -1
     ELSE IF (a[last] + 1) % 256 < (b[last] + 1) % 256 THEN -1 ELSE 1

\* The elements are encoded from the last one on; qsort keeps them in that order
\* unless the first is greater.
SortedElmts(encoded) ==
  LET bufs == Reverse(encoded) IN
  IF Len(bufs) = 2 /\ EncodedElmtCmp(bufs[1], bufs[2]) > 0 THEN encoded ELSE bufs

\* Mutant: DER writes a DEFAULT element whatever its value.
DefaultWritten(rules, e, v) == v # Absent

\* The condition PrintCElmtEncodeCode prints around an element.
IsEncoded(rules, e, v) == v # Absent /\ ~(rules.der /\ v = e.default)

\* A SET under DER has its encoders printed in the order of the tags.
ElmtOrder(rules, b) ==
  LET order == [i \in DOMAIN b.elmts |-> i] IN
  IF rules.der /\ b.kind = "set"
  THEN SortSeq(order, LAMBDA i, j : CmpTagsBefore(b.elmts[i], b.elmts[j])) ELSE order

\* PrintCEncoder's tags and lengths around a content.
UnderTagsAndLens(rules, g, content) ==
  IF g.stoleChoiceTags THEN content
  ELSE FoldRight(LAMBDA tag, c : TagAndLen(rules, tag, c), g.tags, content)

\* PrintCEncoder and the content that encodeXContent writes.
RECURSIVE GenEncode(_, _, _)
GenEncode(rules, t, v) ==
  LET b == BuiltinOf(t)
      Elmts(order) == FlattenSeq([k \in DOMAIN order |->
        LET i == order[k] IN
        IF IsEncoded(rules, b.elmts[i], v[i]) THEN GenEncode(rules, b.elmts[i], v[i][1]) ELSE <<>>])
      members == [k \in DOMAIN v |-> GenEncode(rules, b.elmts[1], v[k])]
  IN UnderTagsAndLens(rules, GetTags(t),
       CASE b.kind = "int"             -> BEncAsnIntContent(v)
         [] b.kind = "octs"            -> BEncAsnOctsContent(v)
         [] b.kind \in {"seq", "set"}  -> Elmts(ElmtOrder(rules, b))
         [] b.kind = "of"              -> FlattenSeq(members)
         [] b.kind = "setof"           -> FlattenSeq(IF rules.der THEN SortedElmts(members) ELSE members)
         [] b.kind = "choice"          -> GenEncode(rules, b.elmts[v.alt], v.val))

-----------------------------------------------------------------------------
(* Decoders.                                                               *)

\* A further tag, whichever it is, and its length.
NextTagAndLen(c, t) ==
  [BDecLen(t) EXCEPT !.val = [tag |-> t.val, lens |-> Append(c.val.lens, @)]]

\* The tag of the alternative of a tagged CHOICE.
AnyTag(c) == Then(c, LAMBDA d : Then(BDecTag(d), LAMBDA t : NextTagAndLen(d, t)))

\* A tag after an element's first one.  The code for the elements of a list
\* compares it with both forms of a string's tag and goes on only if it equals both.
NextTag(c, tag, inList) ==
  Then(c, LAMBDA d : Then(BDecTag(d), LAMBDA t :
    IF t.val \notin Accepted(tag) \/ (inList /\ tag.form = ANY_FORM) THEN Longjmp(t)
    ELSE NextTagAndLen(d, t)))

\* Mutant: the lengths outside the innermost one are not looked at.
NoEocDecoders(c, lens) == c

\* PrintEocDecoders.
EocDecoders(c, lens) ==
  FoldLeft(LAMBDA d, len : IF d.ok /\ len = INDEFINITE_LEN THEN BDecEoc(d) ELSE d, c, lens)

MandatoryElmts(b) == {i \in DOMAIN b.elmts : ~MayBeAbsent(b.elmts[i])}
NoElmts(b)        == [i \in DOMAIN b.elmts |-> Absent]

\* The "case" of the printed switch that takes a tag, 0 for "default".
CaseOf(b, tag) ==
  LET cases == {i \in DOMAIN b.elmts : tag \in FirstTags(b.elmts[i])} IN
  IF cases = {} THEN 0 ELSE CHOOSE i \in cases : TRUE

\* Of an empty SET or SEQUENCE.
EmptyContent(c, len) ==
  Then(IF len = INDEFINITE_LEN THEN BDecEoc(c) ELSE IF len # 0 THEN Longjmp(c) ELSE c,
       LAMBDA d : [d EXCEPT !.val = <<>>])

RECURSIVE DecodeElmt(_, _, _, _, _), DecodeContent(_, _, _, _), SetLoop(_, _, _, _),
          SetElmt(_, _, _, _, _, _), ListLoop(_, _, _, _), SeqElmt(_, _, _, _)

IsTaggedChoice(t) == BuiltinOf(t).kind = "choice" /\ ~GetTags(t).stoleChoiceTags

\* An element whose first tag has been read, and its length: the further tags,
\* the content, and the ends of the contents around it.  The routine for a tagged
\* CHOICE is given the tag and length of the alternative.
DecodeElmt(t, c, tag, len, inList) ==
  LET opened == FoldLeft(LAMBDA d, more : NextTag(d, more, inList),
                         [c EXCEPT !.val = [tag |-> tag, lens |-> <<len>>]], Further(GetTags(t)))
  IN Then(IF IsTaggedChoice(t) THEN AnyTag(opened) ELSE opened, LAMBDA o :
       EocDecoders(DecodeContent(t, o, o.val.tag, Last(o.val.lens)), Front(o.val.lens)))

\* PrintCSetDecodeCode; got is what has been decoded so far.  A mandatory element
\* is counted each time it comes.
SetLoop(b, c, len, got) ==
  LET Finish(d) == IF got.mandatoryElmtCount # Cardinality(MandatoryElmts(b)) THEN Longjmp(d)
                   ELSE [d EXCEPT !.val = got.elmts]
      AfterTag(t) ==
        IF t.val = EOC_TAG_ID /\ len = INDEFINITE_LEN THEN Then(BDEC_2ND_EOC_OCTET(t), Finish)
        ELSE Then(BDecLen(t), LAMBDA l : SetElmt(b, l, t.val, CaseOf(b, t.val), len, got))
  IN IF len # INDEFINITE_LEN /\ c.bytesDecoded >= len THEN Finish(c) ELSE Then(BDecTag(c), AfterTag)

SetElmt(b, c, tag, i, len, got) ==
  IF i = 0 THEN Longjmp(c)
  ELSE Then(DecodeElmt(b.elmts[i], c, tag, c.val, FALSE), LAMBDA e :
         SetLoop(b, e, len,
           [elmts |-> [got.elmts EXCEPT ![i] = Present(e.val)],
            mandatoryElmtCount |-> got.mandatoryElmtCount + (IF i \in MandatoryElmts(b) THEN 1 ELSE 0)]))

\* PrintCListDecoderCode.
ListLoop(member, c, len, list) ==
  LET AfterTag(t) ==
        IF t.val = EOC_TAG_ID /\ len = INDEFINITE_LEN THEN [BDEC_2ND_EOC_OCTET(t) EXCEPT !.val = list]
        ELSE IF ~GetTags(member).stoleChoiceTags /\ t.val \notin FirstTags(member) THEN Longjmp(t)
        ELSE Then(BDecLen(t), LAMBDA l :
               Then(DecodeElmt(member, l, t.val, l.val, TRUE), LAMBDA e :
                 ListLoop(member, e, len, Append(list, e.val))))
  IN IF len # INDEFINITE_LEN /\ c.bytesDecoded >= len THEN [c EXCEPT !.val = list]
     ELSE Then(BDecTag(c), AfterTag)

IsTailOptional(b, i) == \A j \in i..Len(b.elmts) : MayBeAbsent(b.elmts[j])

\* The code between two elements of a SEQUENCE: the tag of the next one, i, or
\* the end, which is looked for only when all that may follow is optional.
NextSeqTag(b, c, len, i, elmts, oldTag) ==
  LET State(tag, seqDone) == [tag |-> tag, seqDone |-> seqDone, elmts |-> elmts]
  IN IF IsTailOptional(b, i) /\ len = c.bytesDecoded THEN [c EXCEPT !.val = State(oldTag, TRUE)]
     ELSE Then(BDecTag(c), LAMBDA t :
            IF IsTailOptional(b, i) /\ t.val = EOC_TAG_ID /\ len = INDEFINITE_LEN
            THEN [BDEC_2ND_EOC_OCTET(t) EXCEPT !.val = State(t.val, TRUE)]
            ELSE [t EXCEPT !.val = State(t.val, FALSE)])

\* After the last element.
SeqEnd(c, len, elmts) ==
  IF len # INDEFINITE_LEN /\ c.bytesDecoded # len THEN Longjmp(c) ELSE [c EXCEPT !.val = elmts]

\* PrintCSeqDecodeCode, from element i on; c.val is the state above.
SeqElmt(b, c, len, i) ==
  LET s == c.val
      element == b.elmts[i]
      here == s.tag \in FirstTags(element) /\ ~(IsTailOptional(b, i) /\ s.seqDone)
      AfterElmt(e, elmts) ==
        IF i < Len(b.elmts)
        THEN Then(NextSeqTag(b, e, len, i + 1, elmts, s.tag), LAMBDA n : SeqElmt(b, n, len, i + 1))
        ELSE Then(IF len = INDEFINITE_LEN THEN BDecEoc(e) ELSE e, LAMBDA d : SeqEnd(d, len, elmts))
  IN IF i > Len(b.elmts) THEN IF s.seqDone THEN [c EXCEPT !.val = s.elmts] ELSE Longjmp(c)
     ELSE IF ~here THEN IF MayBeAbsent(element) THEN SeqElmt(b, c, len, i + 1) ELSE Longjmp(c)
     ELSE Then(BDecLen(c), LAMBDA l : Then(DecodeElmt(element, l, s.tag, l.val, FALSE), LAMBDA e :
            AfterElmt(e, [s.elmts EXCEPT ![i] = Present(e.val)])))

\* The alternative of a CHOICE.
Alternative(b, c, tag, len, i) ==
  IF i = 0 THEN Longjmp(c)
  ELSE Then(DecodeElmt(b.elmts[i], c, tag, len, FALSE), LAMBDA e : [e EXCEPT !.val = Alt(i, @)])

\* BDecXContent: what it decodes is counted from zero and then added.
DecodeContent(t, c, tag, len) ==
  LET b == BuiltinOf(t)
      d == [c EXCEPT !.bytesDecoded = 0]
  IN Count(
       CASE b.kind = "int"               -> BDecAsnIntContent(d, len)
         [] b.kind = "octs"              -> BDecAsnOctsContent(d, tag, len)
         [] b.kind \in {"of", "setof"}   -> ListLoop(b.elmts[1], d, len, <<>>)
         [] b.kind = "choice"            -> Alternative(b, d, tag, len, CaseOf(b, tag))
         [] b.elmts = <<>>               -> EmptyContent(d, len)
         [] b.kind = "set"               -> SetLoop(b, d, len, [elmts |-> NoElmts(b), mandatoryElmtCount |-> 0])
         [] b.kind = "seq"               -> Then(NextSeqTag(b, d, len, 1, NoElmts(b), EOC_TAG_ID),
                                                 LAMBDA n : SeqElmt(b, n, len, 1)),
       c.bytesDecoded)

\* PrintCDecoder.
GenDecode(t, octets) ==
  Then(BDecTag(At(octets)), LAMBDA c :
    IF ~GetTags(t).stoleChoiceTags /\ c.val \notin FirstTags(t) THEN Longjmp(c)
    ELSE Then(BDecLen(c), LAMBDA l : DecodeElmt(t, l, c.val, l.val, FALSE)))

=============================================================================
