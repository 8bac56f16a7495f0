------------------------------ MODULE FrontEnd ------------------------------
(***************************************************************************)
(* What the compiler makes of a type as it is written, before any code or  *)
(* table is made: the parser gives it its tags (y.tab.y), normalisation    *)
(* (normalize.c) moves every SET, SEQUENCE, CHOICE and list that is inside *)
(* another one to a definition of its own, takes in what COMPONENTS OF and *)
(* selections stand for, and marks references IMPLICIT; error checking     *)
(* (err-chk.c) refuses types whose elements cannot be told apart.          *)
(*                                                                         *)
(* A node of the parse tree keeps its own tags as octets without the form  *)
(* bit, the universal tag of a builtin type among them, and for each       *)
(* whether EXPLICIT was written; a reference holds the type it refers to.  *)
(* Names, and with them the place of a definition in its module, are left  *)
(* out: definitions come before those that refer to them, so that what     *)
(* COMPONENTS OF copies is normalised already.                             *)
(***************************************************************************)
EXTENDS AsnTypes
LOCAL INSTANCE SequencesExt

UNIV(octet) == octet < 64
CNTX(octet) == octet \in 128..191

\* lib-types.c: no tag code for the types that are replaced, or have none.
UNIV_TAG_CODE(kind) ==
  CASE kind = "int"                -> <<2>>
    [] kind = "octs"               -> <<4>>
    [] kind \in {"seq", "of"}      -> <<16>>
    [] kind \in {"set", "setof"}   -> <<17>>
    [] OTHER                       -> <<>>

WithTags(t, tags) == [t EXCEPT !.tags = tags, !.explicit = [i \in DOMAIN tags |-> FALSE]]

SetupType(kind) ==
  WithTags([kind |-> kind, tags |-> <<>>, explicit |-> <<>>, implicit |-> FALSE, elmts |-> <<>>,
            to |-> <<>>, selected |-> 0, optional |-> FALSE, default |-> <<>>], UNIV_TAG_CODE(kind))

-----------------------------------------------------------------------------
(* The parser.                                                             *)

Prepend(t, octet, explicit) ==
  [t EXCEPT !.tags = <<octet>> \o @, !.explicit = <<explicit>> \o @]

RemoveTag(t) == [t EXCEPT !.tags = Tail(@), !.explicit = Tail(@), !.implicit = @ \/ UNIV(t.tags[1])]

\* An IMPLICIT tag before a type that has none to give up, such as a CHOICE, is an
\* error: nothing will be generated.
NoTagToRemove(t) ==
  IF t.kind \in {"ref", "selection"} THEN [t EXCEPT !.implicit = TRUE] ELSE [t EXCEPT !.kind = "error"]

TaggedType(d, p, t) ==
  Prepend(CASE p.how = "EXPLICIT" -> t
            [] p.how = "IMPLICIT" -> IF t.tags # <<>> THEN RemoveTag(t) ELSE NoTagToRemove(t)
            [] p.how = ""         -> IF d = ImplicitTags /\ t.tags # <<>> THEN RemoveTag(t) ELSE t,
          Cntx(p.number), p.how = "EXPLICIT")

\* An element without a context-specific tag has its tags replaced by the next one
\* that no element has.
AutomaticTagNamed(elmts) ==
  LET CntxTags(e) == SelectSeq(e.tags, CNTX)
      used == {CntxTags(elmts[k])[1] : k \in {j \in DOMAIN elmts : CntxTags(elmts[j]) # <<>>}}
      Unused(from) == CHOOSE n \in from..(from + Len(elmts)) :
                        Cntx(n) \notin used /\ \A m \in from..(n - 1) : Cntx(m) \in used
      Step(acc, e) ==
        IF CntxTags(e) # <<>> THEN [acc EXCEPT !.done = Append(@, e)]
        ELSE [startingTag |-> Unused(acc.startingTag) + 1,
              done |-> Append(acc.done, WithTags(e, <<Cntx(Unused(acc.startingTag))>>))]
  IN FoldLeft(Step, [startingTag |-> 0, done |-> <<>>], elmts).done

RECURSIVE Parse(_, _)
Parse(d, w) ==
  LET parsed == [i \in DOMAIN w.elmts |-> Parse(d, w.elmts[i])]
      node == [SetupType(w.kind) EXCEPT
                 !.elmts = IF d = AutomaticTags /\ w.kind \in {"seq", "set", "choice"}
                           THEN AutomaticTagNamed(parsed) ELSE parsed,
                 !.to = [i \in DOMAIN w.to |-> Parse(d, w.to[i])],
                 !.selected = w.selected, !.optional = w.optional, !.default = w.default]
  IN FoldRight(LAMBDA p, t : TaggedType(d, p, t), w.prefix, node)

-----------------------------------------------------------------------------
(* Tags along references (tag-util.c).                                     *)

\* The type behind the references (GetBuiltinType).
RECURSIVE BuiltinOf(_)
BuiltinOf(t) == IF t.kind = "ref" THEN BuiltinOf(t.to[1]) ELSE t

\* Mutant: an IMPLICIT reference does not replace the first tag it leads to.
CollectExplicit(t, implicitRef) == t.tags

\* The tags of one type on the way, less the one an implicit reference replaces.
Collect(t, implicitRef) == IF implicitRef /\ t.tags # <<>> THEN Tail(t.tags) ELSE t.tags

\* implicitRef goes on through references with no tags.
RECURSIVE FollowTags(_, _)
FollowTags(t, implicitRef) ==
  LET still == implicitRef /\ t.tags = <<>> IN
  Collect(t, implicitRef) \o
  (IF t.kind = "ref" THEN FollowTags(t.to[1], still \/ t.implicit) ELSE <<>>)

CountTags(t) == Len(FollowTags(t, FALSE))

-----------------------------------------------------------------------------
(* Normalisation.  top: the type of a definition, not one inside it.       *)

\* What a reference keeps of the tags when its type becomes a new definition, which
\* has the universal tag: that tag goes, any other replaces it.  A CHOICE has none.
RefToNew(t, def) ==
  LET ref == [t EXCEPT !.kind = "ref", !.elmts = <<>>, !.to = <<def>>] IN
  IF def.tags = <<>> \/ t.tags = <<>> THEN ref
  ELSE IF Last(t.tags) = def.tags[1]
       THEN [ref EXCEPT !.tags = Front(@), !.explicit = Front(@), !.implicit = FALSE]
       ELSE [ref EXCEPT !.implicit = TRUE]

\* A selection becomes its alternative, whose tags are appended to its own but for
\* the first one where the selection is implicit.
Selected(d, t, alternative) ==
  LET drop == alternative.tags # <<>> /\ (d = ImplicitTags \/ t.implicit)
      Rest(s) == IF drop THEN Tail(s) ELSE s
  IN [alternative EXCEPT
        !.tags = t.tags \o Rest(@), !.explicit = t.explicit \o Rest(@),
        !.implicit = @ \/ (t.implicit /\ alternative.tags = <<>>),
        !.optional = t.optional, !.default = t.default]

\* Under IMPLICIT TAGS a tagged reference is implicit, unless EXPLICIT was written
\* or it leads to an untagged CHOICE.
MarkImplicit(d, t) ==
  IF /\ d = ImplicitTags
     /\ t.kind = "ref" /\ t.tags # <<>> /\ ~Last(t.explicit)
     /\ CountTags(t.to[1]) # 0
  THEN [t EXCEPT !.implicit = TRUE] ELSE t

RECURSIVE NormalizeType(_, _, _), NormalizeElmtTypes(_, _)

\* AddConsTypeDef: the new definition is normalised at once.
AddConsTypeDef(d, t) ==
  RefToNew(t, NormalizeType(d, TRUE, [SetupType(t.kind) EXCEPT !.elmts = t.elmts]))

NormalizeBasicType(d, top, t) ==
  CASE t.kind = "ref" ->
         [t EXCEPT !.to = <<NormalizeType(d, TRUE, @[1])>>]
    [] t.kind = "selection" ->
         Selected(d, t, BuiltinOf(NormalizeType(d, TRUE, t.to[1])).elmts[t.selected])
    [] t.kind \in {"seq", "set", "choice", "of", "setof"} ->
         IF top THEN [t EXCEPT !.elmts = NormalizeElmtTypes(d, @)] ELSE AddConsTypeDef(d, t)
    [] OTHER -> t

NormalizeType(d, top, t) == MarkImplicit(d, NormalizeBasicType(d, top, t))

\* COMPONENTS OF: the elements of the definition, in its place (link-types.c has
\* seen that it is a SET in a SET, a SEQUENCE in a SEQUENCE).
NormalizeElmtTypes(d, elmts) ==
  FlattenSeq([i \in DOMAIN elmts |->
    IF elmts[i].kind = "componentsof" THEN BuiltinOf(NormalizeType(d, TRUE, elmts[i].to[1])).elmts
    ELSE <<NormalizeType(d, FALSE, elmts[i])>>])

Normalized(d, w) == NormalizeType(d, TRUE, Parse(d, w))

-----------------------------------------------------------------------------
(* Error checking.                                                         *)

\* The tags AddFirstTag adds to the list for one element.
RECURSIVE FirstTagsAdded(_)
FirstTagsAdded(t) ==
  IF CountTags(t) # 0 THEN <<FollowTags(t, FALSE)[1]>>
  ELSE IF BuiltinOf(t).kind = "choice"
  THEN FlattenSeq([i \in DOMAIN BuiltinOf(t).elmts |-> FirstTagsAdded(BuiltinOf(t).elmts[i])])
  ELSE <<>>

HasDistinctTags(elmts) == IsInjective(FlattenSeq([i \in DOMAIN elmts |-> FirstTagsAdded(elmts[i])]))

\* Elements that may be absent, one after the other, and the one that follows.
ChkSeqTags(elmts) ==
  \A i \in DOMAIN elmts : \A j \in (i + 1)..Len(elmts) :
    (\A k \in i..(j - 1) : MayBeAbsent(elmts[k])) => HasDistinctTags(SubSeq(elmts, i, j))

ImplicitUntagged(t) ==
  t.kind = "ref" /\ t.implicit /\ BuiltinOf(t).kind = "choice" /\ CountTags(t.to[1]) = 0

\* No error for this type, those inside it and those it refers to.
RECURSIVE ErrChk(_)
ErrChk(t) ==
  /\ t.kind # "error"
  /\ ~ImplicitUntagged(t)
  /\ t.kind = "seq" => ChkSeqTags(t.elmts)
  /\ t.kind \in {"set", "choice"} => HasDistinctTags(t.elmts)
  /\ t.kind = "choice" => ~(t.tags = <<>> /\ t.implicit)
  /\ \A i \in DOMAIN t.elmts : ErrChk(t.elmts[i])
  /\ \A i \in DOMAIN t.to : ErrChk(t.to[i])

-----------------------------------------------------------------------------
\* gen-tbls.c: a type in a table.  DEFAULT becomes OPTIONAL.
RECURSIVE GenTblTypesRec(_)
GenTblTypesRec(t) ==
  [t EXCEPT !.optional = @ \/ t.default # <<>>, !.default = <<>>,
            !.elmts = [i \in DOMAIN @ |-> GenTblTypesRec(@[i])],
            !.to = [i \in DOMAIN @ |-> GenTblTypesRec(@[i])]]

=============================================================================
