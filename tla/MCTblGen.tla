------------------------------ MODULE MCTblGen ------------------------------
(***************************************************************************)
(* Small tables, and the buffers they are tried on: BER values of nesting  *)
(* up to four over the tags of the table, in definite and indefinite form, *)
(* the smaller ones cut off after every octet, and every encoding of the   *)
(* root type with lists of up to two elements.                             *)
(***************************************************************************)
EXTENDS TblGen

INT  == 2
BOOL == 1
SEQ  == 48
SET  == 49
CTX0 == 160
CTX1 == 161

MCOctet == (0..128) \cup {CTX0, CTX1}

Of(k, tags, es) == [kind |-> k, tags |-> tags, elmts |-> es, to |-> "Any",
                    implicit |-> FALSE, optional |-> FALSE]

MCType == {"Int", "Bool", "Tagged", "Any", "Ref", "List", "Alias", "Elmts", "Group",
           "Root", "Strict"}

\* Any    ::= CHOICE { INTEGER, Tagged }     Tagged ::= [0] EXPLICIT INTEGER
\* Elmts  ::= SEQUENCE OF Tagged             List   ::= [1] IMPLICIT Alias
\* Alias  ::= Elmts
\* Group  ::= SET { Tagged, BOOLEAN }
\* Root   ::= SEQUENCE { Any OPTIONAL, List, Group OPTIONAL }
\* Strict ::= SEQUENCE { Tagged, BOOLEAN }
MCDef ==
  [t \in MCType |->
     CASE t = "Int"    -> Of("int", <<INT>>, <<>>)
       [] t = "Bool"   -> Of("bool", <<BOOL>>, <<>>)
       [] t = "Tagged" -> Of("int", <<CTX0, INT>>, <<>>)
       [] t = "Any"    -> Of("choice", <<>>, <<"Int", "Tagged">>)
       [] t = "Ref"    -> [Of("ref", <<>>, <<>>) EXCEPT !.optional = TRUE]
       [] t = "Elmts"  -> Of("of", <<SEQ>>, <<"Tagged">>)
       [] t = "List"   -> [Of("ref", <<CTX1>>, <<>>) EXCEPT !.to = "Alias", !.implicit = TRUE]
       [] t = "Alias"  -> [Of("ref", <<>>, <<>>) EXCEPT !.to = "Elmts"]
       [] t = "Group"  -> [Of("set", <<SET>>, <<"Tagged", "Bool">>) EXCEPT !.optional = TRUE]
       [] t = "Root"   -> Of("seq", <<SEQ>>, <<"Ref", "List", "Group">>)
       [] t = "Strict" -> Of("seq", <<SEQ>>, <<"Tagged", "Bool">>)]

-----------------------------------------------------------------------------
(* Encodings.                                                              *)

Definite(tag, body)   == <<tag, Len(body)>> \o body
IndefForm(tag, body)  == <<tag, 128>> \o body \o <<0, 0>>
Forms(tag, bodies)    == {Definite(tag, x) : x \in bodies}
                         \cup (IF Constructed(tag) THEN {IndefForm(tag, x) : x \in bodies} ELSE {})
Joined(S, T)          == {x \o y : x \in S, y \in T}
Prefixes(S)           == UNION {{SubSeq(x, 1, n) : n \in 0..Len(x)} : x \in S}

Leaves == {<<INT, 1, 7>>, <<BOOL, 1, 7>>}
Small  == Forms(CTX0, Leaves) \cup Forms(SET, Leaves)
Medium == UNION {Forms(tag, Small \cup Joined(Small, Leaves)) : tag \in {CTX1, SET}}
Bodies2 == {<<>>} \cup Leaves \cup Small \cup Medium
           \cup Joined(Leaves \cup Small, Leaves \cup Small)

\* The encodings of a value of type t.
RECURSIVE Encodings(_, _)
Encodings(t, implicit) ==
  LET d == Def[t]
      E(i) == Encodings(d.elmts[i], FALSE)
      Opt(i) == E(i) \cup (IF Def[d.elmts[i]].optional THEN {<<>>} ELSE {})
      content ==
        CASE d.kind \in {"int", "bool"} -> {<<7>>}
          [] d.kind = "ref"    -> Encodings(d.to, ImplicitRef(t, implicit))
          [] d.kind = "choice" -> UNION {E(i) : i \in DOMAIN d.elmts}
          [] d.kind = "of"     -> {<<>>} \cup E(1) \cup Joined(E(1), E(1))
          [] d.kind = "set"    -> Joined(Opt(1), Opt(2)) \cup Joined(Opt(2), Opt(1))
          [] Len(d.elmts) = 2  -> Joined(Opt(1), Opt(2))
          [] OTHER             -> Joined(Opt(1), Joined(Opt(2), Opt(3)))
      tags == EncodedTags(t, implicit)
  IN CASE tags = <<>>    -> content
       [] Len(tags) = 1  -> Forms(tags[1], content)
       [] OTHER          -> Forms(tags[1], Forms(tags[2], content))

Valid == Encodings(Root, FALSE)

\* One value deeper than the stack.
Deep == Forms(SEQ, Forms(SET, Forms(SET, Forms(CTX0, Leaves))))

\* A primitive value of indefinite form, which BER does not have.
Unbounded == Definite(SEQ, <<BOOL, 128>>)

MixedInput == {Unbounded} \cup Valid \cup Forms(SEQ, Bodies2) \cup Deep
              \cup Prefixes(Forms(SEQ, Leaves \cup Small)) \cup Leaves

(* A buffer that holds a value of the type asked for is decoded as such:   *)
(* nothing is refused, nothing decoded in simple mode, and the whole value *)
(* is taken (tbl-gen.c, TDEDecodeType).                                    *)
DecodesValid ==
  input \in Valid =>
    /\ \A n \in DOMAIN frames : frames[n].fn = "type"
    /\ status # "failed"
    /\ status = "done" => ret = "true" /\ bytesDecoded = Len(input)

=============================================================================
