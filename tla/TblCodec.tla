------------------------------ MODULE TblCodec ------------------------------
(***************************************************************************)
(* Encoding and decoding a whole value by a type table, that of            *)
(* GenTblTypesRec: the forms that loading gives the tags (tbl-util.c),     *)
(* TblEncode (tbl-enc.c), TblDecode (tbl-dec.c).                           *)
(*                                                                         *)
(* The decoder keeps the tags and lengths that are open on a stack of      *)
(* TL_STK_SIZE entries, the cursor's "tl".  It is static, and a longjmp    *)
(* leaves on it what was open.  The table encoder writes definite lengths: *)
(* where USE_INDEF_LEN is defined, TblEncodeTagsAndLens does not compile.  *)
(***************************************************************************)
EXTENDS Ber, FrontEnd
LOCAL INSTANCE SequencesExt

CONSTANT TL_STK_SIZE   \* 128 in the code

\* The tags of the references from t on, t itself included.  The tags of the type
\* they lead to are not counted.
RECURSIVE RefTags(_)
RefTags(t) ==
  IF t.kind # "ref" THEN 0
  ELSE Len(t.tags) - (IF t.implicit THEN 1 ELSE 0) + RefTags(t.to[1])

\* TblSetTagForms.
TblSetTagForms(t) ==
  LET numTags(i) == Len(t.tags) + RefTags(t) - (i - 1)
      kind == BuiltinOf(t).kind
      form(i) == IF numTags(i) > 1 THEN CONS
                 ELSE CASE kind = "int" -> PRIM [] kind = "octs" -> ANY_FORM [] OTHER -> CONS
  IN [i \in DOMAIN t.tags |-> Tagged(t.tags[i], form(i))]

\* The tags of t that are encoded: an implicit reference to it replaces the first.
OwnTags(t, implicit) ==
  IF implicit /\ t.tags # <<>> THEN Tail(TblSetTagForms(t)) ELSE TblSetTagForms(t)

\* What a reference passes on: implicit, as it came, through one with no tags.
ImplicitRef(t, implicit) == t.implicit \/ (implicit /\ t.tags = <<>>)

-----------------------------------------------------------------------------
(* TblEncode.                                                              *)

\* Mutant: only PRIM is stored as primitive.
TagConsUnlessPrim(tag, content) ==
  <<tag.octet + (IF tag.form = PRIM THEN PRIM ELSE CONS)>> \o BEncDefLen(Len(content)) \o content

\* TblEncodeTagsAndLens: a tag of ANY_FORM is stored as a primitive one.
TagAndDefLen(tag, content) ==
  <<tag.octet + (IF tag.form = CONS THEN CONS ELSE PRIM)>> \o BEncDefLen(Len(content)) \o content

RECURSIVE TblEncodeType(_, _, _)
TblEncodeType(t, v, implicit) ==
  FoldRight(TagAndDefLen, OwnTags(t, implicit),
    CASE t.kind = "ref"             -> TblEncodeType(t.to[1], v, ImplicitRef(t, implicit))
      [] t.kind \in {"seq", "set"}  -> FlattenSeq([i \in DOMAIN v |->
                                         IF v[i] = Absent THEN <<>>
                                         ELSE TblEncodeType(t.elmts[i], v[i][1], FALSE)])
      [] t.kind \in {"of", "setof"} -> FlattenSeq([i \in DOMAIN v |-> TblEncodeType(t.elmts[1], v[i], FALSE)])
      [] t.kind = "choice"          -> TblEncodeType(t.elmts[v.alt], v.val, FALSE)
      [] t.kind = "int"             -> BEncAsnIntContent(v)
      [] t.kind = "octs"            -> BEncAsnOctsContent(v))

TblEncode(t, v) == TblEncodeType(t, v, FALSE)

-----------------------------------------------------------------------------
(* TblDecode.  The cursor has three more fields: the stack, the octet that *)
(* PeekTag finds in memory it does not set when there is no more data (one *)
(* for a whole decoding), and "oddities", a history: what was done that    *)
(* makes a valid encoding fail.                                            *)

\* A SEQUENCE took an element for its own after its length was used up.
Beyond == "beyond"
\* The content decoder of a constructed string of indefinite length has decoded
\* the end of its contents, which TblPopTagsAndLens decodes once more.
EocTwice == "EocTwice"
Oddity(c, what) == [c EXCEPT !.oddities = @ \cup {what}]

TblAt(octets, open, junk) ==
  At(octets) @@ [tl |-> [i \in 1..open |-> [len |-> 0, size |-> 0]], junk |-> junk, oddities |-> {}]

LAST_LEN(c) == Last(c.tl).len

\* Mutant: the stack is full one entry too late.
PushOneMore(c, len, size) ==
  IF Len(c.tl) > TL_STK_SIZE THEN Longjmp(c)
  ELSE [c EXCEPT !.tl = Append(@, [len |-> len, size |-> size])]

PUSH_TL(c, len, size) ==
  IF Len(c.tl) >= TL_STK_SIZE THEN Longjmp(c)
  ELSE [c EXCEPT !.tl = Append(@, [len |-> len, size |-> size])]

PeekTag(c) == FillUp(<<IF c.rest = <<>> THEN c.junk ELSE c.rest[1]>>)
PeekEoc(c) == NextOctets(c, 1) = <<0>>

\* One tag of TblDecodeTagsAndLens; c.val becomes the last tag read.
OpenTag(c, tag) ==
  Then(c, LAMBDA d : Then(BDecTag(d), LAMBDA t : Then(BDecLen(t), LAMBDA l :
    IF t.val \notin Accepted(tag) THEN Longjmp(l)
    ELSE [PUSH_TL(l, l.val, l.bytesDecoded - d.bytesDecoded) EXCEPT !.val = t.val])))

\* Mutant: an indefinite length is popped like any other.
PopAnyTag(c, tag) ==
  Then(c, LAMBDA d : [Count(d, Last(d.tl).size) EXCEPT !.tl = Front(@)])

\* One tag of TblPopTagsAndLens; bytesDecoded is that of the contents so far.
PopTag(c, tag) ==
  LET Closed(d) == IF LAST_LEN(d) = INDEFINITE_LEN THEN BDecEoc(d)
                   ELSE IF d.bytesDecoded # LAST_LEN(d) THEN Longjmp(d) ELSE d
  IN Then(c, LAMBDA d : Then(Closed(d), LAMBDA e : [Count(e, Last(e.tl).size) EXCEPT !.tl = Front(@)]))

RECURSIVE TagsMatch(_, _)
TagsMatch(t, tag) ==
  IF t.tags # <<>> THEN tag \in Accepted(TblSetTagForms(t)[1])
  ELSE IF t.kind = "ref" THEN TagsMatch(t.to[1], tag)
  ELSE \E i \in DOMAIN t.elmts : TagsMatch(t.elmts[i], tag)

\* The first element that the loops over a SET or CHOICE find.
Matching(t, tag) == {i \in DOMAIN t.elmts : TagsMatch(t.elmts[i], tag)}
FirstMatch(t, tag) == CHOOSE i \in Matching(t, tag) : \A j \in Matching(t, tag) : i <= j

CountMandatoryElmts(t) == Len(SelectSeq(t.elmts, LAMBDA e : ~e.optional))

\* The loops over a SET, SEQUENCE OF or SET OF go on.
More(c) == IF LAST_LEN(c) = INDEFINITE_LEN THEN ~PeekEoc(c) ELSE c.bytesDecoded < LAST_LEN(c)

RECURSIVE TblDecodeType(_, _, _), TblSeqElmt(_, _, _, _), TblSetLoop(_, _, _, _), TblListLoop(_, _, _)

\* A SEQUENCE looks at the next tag whatever is left of it.
TblSeqElmt(t, c, i, elmts) ==
  LET taken == IF LAST_LEN(c) # INDEFINITE_LEN /\ c.bytesDecoded >= LAST_LEN(c) THEN Oddity(c, Beyond) ELSE c
  IN IF i > Len(t.elmts) THEN [c EXCEPT !.val = elmts]
     ELSE IF TagsMatch(t.elmts[i], PeekTag(c))
     THEN Then(TblDecodeType(t.elmts[i], taken, FALSE), LAMBDA e :
            TblSeqElmt(t, e, i + 1, [elmts EXCEPT ![i] = Present(e.val)]))
     ELSE IF t.elmts[i].optional THEN TblSeqElmt(t, c, i + 1, elmts)
     ELSE Longjmp(c)

TblSetLoop(t, c, elmts, mandatoryCount) ==
  LET i == FirstMatch(t, PeekTag(c)) IN
  IF ~More(c) THEN IF mandatoryCount = CountMandatoryElmts(t) THEN [c EXCEPT !.val = elmts] ELSE Longjmp(c)
  ELSE IF Matching(t, PeekTag(c)) = {} THEN Longjmp(c)
  ELSE Then(TblDecodeType(t.elmts[i], c, FALSE), LAMBDA e :
         TblSetLoop(t, e, [elmts EXCEPT ![i] = Present(e.val)],
                    mandatoryCount + (IF t.elmts[i].optional THEN 0 ELSE 1)))

TblListLoop(t, c, list) ==
  IF ~More(c) THEN [c EXCEPT !.val = list]
  ELSE Then(TblDecodeType(t.elmts[1], c, FALSE), LAMBDA e : TblListLoop(t, e, Append(list, e.val)))

\* A CHOICE that finds no alternative decodes as the last one.
AlternativeOf(t, tag) == IF Matching(t, tag) = {} THEN Len(t.elmts) ELSE FirstMatch(t, tag)
TblAlternative(t, c, i) ==
  Then(TblDecodeType(t.elmts[i], c, FALSE), LAMBDA e : [e EXCEPT !.val = Alt(i, @)])

TblDecodeContent(t, c, implicit) ==
  LET none == [i \in DOMAIN t.elmts |-> Absent]
      indefinite == LAST_LEN(c) = INDEFINITE_LEN
  IN CASE t.kind = "ref"             -> TblDecodeType(t.to[1], c, ImplicitRef(t, implicit))
       [] t.kind = "seq"             -> TblSeqElmt(t, c, 1, none)
       [] t.kind = "set"             -> TblSetLoop(t, c, none, 0)
       [] t.kind \in {"of", "setof"} -> TblListLoop(t, c, <<>>)
       [] t.kind = "choice"          -> TblAlternative(t, c, AlternativeOf(t, PeekTag(c)))
       [] t.kind = "int"             -> BDecAsnIntContent(c, LAST_LEN(c))
       [] t.kind = "octs"            -> BDecAsnOctsContent(IF indefinite THEN Oddity(c, EocTwice) ELSE c,
                                                           c.val, LAST_LEN(c))

\* The octets between the tags and the ends of their contents are counted from zero
\* and then added.
TblDecodeType(t, c, implicit) ==
  LET tags == OwnTags(t, implicit) IN
  Then(FoldLeft(OpenTag, c, tags), LAMBDA o :
    Count(FoldLeft(PopTag, TblDecodeContent(t, [o EXCEPT !.bytesDecoded = 0], implicit), tags),
          c.bytesDecoded))

TblDecode(t, octets, open, junk) == TblDecodeType(t, TblAt(octets, open, junk), FALSE)

=============================================================================
