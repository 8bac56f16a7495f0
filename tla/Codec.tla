------------------------------- MODULE Codec -------------------------------
(***************************************************************************)
(* Values on their way.  The compiler has made routines, classes and a     *)
(* table of each message's type as it is written in its module.  One       *)
(* program encodes with the printed routines                               *)
(* (under BER with definite or indefinite lengths, or under DER) or with a *)
(* type table, or with the printed C++ classes, or some other sender uses  *)
(* any of the forms BER allows; the encoding may arrive cut short; another *)
(* program decodes it with the printed routines, with a type table or with *)
(* the classes, one message after the other in one process, so that what   *)
(* one decoding leaves on the static stack is there at the next, and an    *)
(* object of a class may be decoded into again.                            *)
(***************************************************************************)
EXTENDS GenCxx, TblCodec

CONSTANTS
  Catalogue,  \* the messages: a sequence of types as they are written, each with its
              \* module's tag default and the values that are sent
  CxxTypes,   \* those of them the C++ programs know
  Junk        \* what PeekTag may find in memory it does not set

VARIABLES
  message,      \* what was sent last: a type of the catalogue and a value of it
  wire,         \* its encoding, or a part of it
  sender,       \* who encoded it
  whole,        \* it was not cut short
  received,     \* the result of decoding it
  nextFreeTLG   \* entries on the type-table decoder's stack

vars == <<message, wire, sender, whole, received, nextFreeTLG>>

\* What the compiler makes of the types, and the ones it has no error for.
Compiled == [i \in DOMAIN Catalogue |-> Normalized(Catalogue[i].tagDefault, Catalogue[i].type)]
Tables   == [i \in DOMAIN Catalogue |-> GenTblTypesRec(Compiled[i])]
Accepts  == {i \in DOMAIN Catalogue : ErrChk(Compiled[i])}

Messages == UNION {{[of |-> i, value |-> v] : v \in Catalogue[i].values} : i \in Accepts}
Generated == Compiled[message.of]
Table     == Tables[message.of]

\* The encodings of X.690 of a message.
Forms(m)     == BerForms(Catalogue[m.of].tagDefault, Catalogue[m.of].type, m.value)
Canonical(m) == DerForm(Catalogue[m.of].tagDefault, Catalogue[m.of].type, m.value)

Compose == message' \in Messages

Nothing == [by |-> "nobody", ok |-> FALSE, val |-> <<>>, bytesDecoded |-> 0, before |-> 0, oddities |-> {}, kept |-> FALSE]

NoMessage == [of |-> 0, value |-> <<>>]

Init ==
  /\ message = NoMessage
  /\ wire = <<>> /\ sender = "nobody" /\ whole = FALSE
  /\ received = Nothing
  /\ nextFreeTLG = 0

Send(who, octets) ==
  /\ sender = "nobody"
  /\ wire' = octets
  /\ sender' = who
  /\ whole' = TRUE
  /\ received' = Nothing
  /\ UNCHANGED nextFreeTLG

GenSends ==
  /\ Compose
  /\ \E rules \in {BER, BERX, DER} :
       Send(CASE rules = BER -> "gen" [] rules = BERX -> "genIndef" [] rules = DER -> "genDer",
            GenEncode(rules, Compiled[message'.of], message'.value))

TblSends ==
  /\ Compose
  /\ Send("tbl", TblEncode(Tables[message'.of], message'.value))

CxxSends ==
  /\ Compose
  /\ message'.of \in CxxTypes
  /\ Send("cxx", CxxEncode(Compiled[message'.of], message'.value))

\* Any other program that writes BER.
OtherSends ==
  /\ Compose
  /\ \E octets \in Forms(message') : Send("other", octets)

CutShort ==
  /\ whole /\ received.by = "nobody"
  /\ \E k \in 0..(Len(wire) - 1) : wire' = SubSeq(wire, 1, k)
  /\ whole' = FALSE
  /\ sender' = "other"   \* whoever it was
  /\ UNCHANGED <<message, received, nextFreeTLG>>

Arrived == sender # "nobody" /\ received.by = "nobody"

\* The caller looks at the value only where the decoder returns.
GenReceives ==
  /\ Arrived
  /\ \E c \in {GenDecode(Generated, wire)} :
       received' = [Nothing EXCEPT !.by = "gen", !.ok = c.ok, !.val = IF c.ok THEN c.val ELSE <<>>,
                                   !.bytesDecoded = IF c.ok THEN c.bytesDecoded ELSE 0]
  /\ UNCHANGED <<message, wire, sender, whole, nextFreeTLG>>

TblReceives ==
  /\ Arrived
  /\ \E junk \in Junk : \E c \in {TblDecode(Table, wire, nextFreeTLG, junk)} :
       /\ received' = [Nothing EXCEPT !.by = "tbl", !.ok = c.ok, !.val = IF c.ok THEN c.val ELSE <<>>,
                                      !.bytesDecoded = IF c.ok THEN c.bytesDecoded ELSE 0,
                                      !.before = nextFreeTLG, !.oddities = c.oddities]
       /\ nextFreeTLG' = Len(c.tl)
  /\ UNCHANGED <<message, wire, sender, whole>>

\* BDec of a new object, or of one with an earlier value, which a catch may
\* follow; bytesDecoded is the caller's.
CxxReceives ==
  /\ Arrived
  /\ message.of \in CxxTypes
  /\ \E old \in {Absent} \cup {Present(v) : v \in Catalogue[message.of].values} :
       \E c \in {CxxDecode(Generated, wire, old)} :
         received' = [Nothing EXCEPT !.by = "cxx", !.ok = c.ok, !.val = IF c.ok THEN c.val ELSE <<>>,
                                     !.bytesDecoded = IF c.ok THEN c.bytesDecoded ELSE 0,
                                     !.kept = c.ok /\ c.kept]
  /\ UNCHANGED <<message, wire, sender, whole, nextFreeTLG>>

\* The receiver is done with it; the next one may come.
Free ==
  /\ received.by # "nobody"
  /\ message' = NoMessage /\ wire' = <<>> /\ sender' = "nobody" /\ whole' = FALSE /\ received' = Nothing
  /\ UNCHANGED nextFreeTLG

Next ==
  \/ GenSends \/ TblSends \/ CxxSends \/ OtherSends
  \/ CutShort
  \/ GenReceives \/ TblReceives \/ CxxReceives
  \/ Free

Spec == Init /\ [][Next]_vars

-----------------------------------------------------------------------------
(* Properties.                                                             *)

\* The static stack of tbl-dec.c is never written past its end, and what a
\* decoder says it has decoded is on the wire.
TypeOK ==
  /\ IF sender = "nobody" THEN message = NoMessage ELSE message \in Messages
  /\ sender \in {"nobody", "gen", "genIndef", "genDer", "tbl", "cxx", "other"}
  /\ whole \in BOOLEAN
  /\ nextFreeTLG \in 0..TL_STK_SIZE
  /\ received.by \in {"nobody", "gen", "tbl", "cxx"}
  /\ received.bytesDecoded \in 0..Len(wire)

Fresh == whole /\ received.by = "nobody"

\* What the encoders of gen-enc.c write, with definite and with indefinite
\* lengths, is an encoding of the value by X.690: implicit and explicit tags
\* through references, elements left out, ends of contents for each constructed tag.
GenEncodesBer ==
  Fresh /\ sender \in {"gen", "genIndef"} => wire \in Forms(message)

\* Under DER the encoders write the one encoding X.690 leaves: elements of a SET
\* in the order of their tags, of a SET OF in that of their encodings, and no
\* element that equals its DEFAULT (gen-enc.c:644 and 971, asn-der.c:56).  So do
\* the C++ classes, which have no other rules (gen-code.c:2230 and 3321).
DerIsCanonical ==
  Fresh /\ sender \in {"genDer", "cxx"} => wire = Canonical(message)

\* A sender that orders a SET OF and leaves out what equals its DEFAULT sends the
\* same value as another when DER has one encoding for both.
SameValue(v) ==
  IF sender \in {"genDer", "cxx"} THEN Canonical([message EXCEPT !.value = v]) = Canonical(message)
  ELSE v = message.value

Complete == received.ok /\ SameValue(received.val) /\ received.bytesDecoded = Len(wire)

\* The decoders of gen-dec.c and of the C++ classes take every encoding of a value
\* that BER allows for that value, to its last octet, and refuse one that is cut
\* short, wherever.  Only where a SEQUENCE of a class is decoded into again, what
\* its strings and lists held may come before what is decoded (gen-code.c:2142).
GenDecodesBer ==
  received.by \in {"gen", "cxx"} =>
    /\ received.ok = whole
    /\ whole /\ ~received.kept => Complete

\* The type-table encoder and the printed encoders of the same type write the
\* same octets (the forms of TblSetTagForms are those of GetTags).
TblEncodesAsGenerated ==
  Fresh /\ sender = "tbl" => wire = GenEncode(BER, Generated, message.value)

\* The type-table decoder returns only the value that was sent, and then leaves
\* its static stack as it was.  It refuses a whole encoding for three reasons
\* only: earlier failed decodings left no room on that stack, a SEQUENCE with an
\* absent OPTIONAL element took the octets after its own end for that element, or
\* the end of a constructed string of indefinite length was looked for twice.
TblDecodesBer ==
  received.by = "tbl" =>
    /\ received.ok => whole /\ nextFreeTLG = received.before /\ Complete
    /\ whole /\ ~received.ok => \/ received.oddities # {}
                                \/ received.before > 0 /\ nextFreeTLG = TL_STK_SIZE

=============================================================================
