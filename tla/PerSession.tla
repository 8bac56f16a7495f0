----------------------------- MODULE PerSession -----------------------------
(***************************************************************************)
(* One buffer of bits that values are written to and read from, in turns,  *)
(* as cxx-examples/constraints_test/constraintTest_main.cpp does: PEnc of  *)
(* one value after another, PDec of the first one not read yet.  An        *)
(* exception ends the use of the buffer.                                   *)
(***************************************************************************)
EXTENDS Per

CONSTANTS PerItems,    \* pairs of a type and a value of it, or one that PEnc must refuse
          MaxValues    \* bound: how many of them are written

ASSUME FragmentsHaveWholeOctets == l_16k % 8 = 0 /\ l_16k > 128

VARIABLES perbuf,   \* the buffer
          unread,   \* what was written and not read: type, value and number of bits
          outcome,  \* of the last call: what was read and what should have been
          written,  \* how many values were
          cut,      \* a read took the octet being written: a later write starts another
          spoilt    \* what is in the buffer is not what was meant to be

perVars == <<perbuf, unread, outcome, written, cut, spoilt>>

NoOutcome == [call |-> "none"]

PerInit ==
  /\ \E align \in BOOLEAN : perbuf = BufBits(align)
  /\ unread = <<>> /\ outcome = NoOutcome /\ written = 0 /\ cut = FALSE /\ spoilt = FALSE

-----------------------------------------------------------------------------
\* Values that their type allows.
InSize(n, sizes) ==
  sizes = <<>> \/ \E s \in ToSet(sizes) :
    CASE s.exists = 0 -> n = s.lo [] s.exists = 1 -> n \in s.lo..s.up [] s.exists = 2 -> n >= s.lo

Allowed(type, v) ==
  CASE type.t = "int"  -> type.ranges = <<>> \/ \E r \in ToSet(type.ranges) : InRange(v, r)
    [] type.t = "enum" -> v \in ToSet(type.list)
    [] type.t \in {"octs", "str", "list"} -> InSize(Len(v), type.sizes)
    [] OTHER -> TRUE

\* What the decoder does not make the same value of, and why, on a buffer with
\* align: the README's list of disagreements has each of these.
RECURSIVE Flawed(_, _, _)
Flawed(type, v, align) ==
  CASE type.t = "int" /\ type.ranges # <<>> ->
         \/ UpperBoundFound(type.ranges) /\ Lower(type.ranges) = Upper(type.ranges) /\ v # 0
         \/ align /\ ~UpperBoundFound(type.ranges) /\ ~SingleValue(type.ranges)
    [] type.t = "str"  -> v # <<>> /\ Direct(type, align)
    [] type.t = "real" -> v = <<>> /\ align
    [] type.t = "list" ->
         \/ v # <<>> /\ (type.sizes = <<>> \/ type.sizes[1].exists = 0)
         \/ \E k \in DOMAIN v : Flawed(type.of, v[k], align)
    [] type.t = "setof" ->
         \E k \in DOMAIN v : \/ Flawed(type.of, v[k], align)
                             \/ PEnc(BufBits(align), type.of, v[k]).left % 8 # 0
    [] type.t = "any" -> Flawed(type.of, v, FALSE) \/ PEnc(BufBits(FALSE), type.of, v).left = 0
    [] type.t \in {"seq", "set"} ->
         \E k \in DOMAIN v :
           IF type.elmts[k].optional
           THEN v[k] # <<>> /\ Flawed(type.elmts[k].type, Head(v[k]), align)
           ELSE Flawed(type.elmts[k].type, v[k], align)
    [] type.t = "choice" -> Flawed(type.elmts[v.choiceId].type, v.value, align)
    [] OTHER -> FALSE

-----------------------------------------------------------------------------
PEncode ==
  /\ perbuf.ok /\ written < MaxValues
  /\ \E i \in DOMAIN PerItems : \E b \in {PEnc(perbuf, PerItems[i].type, PerItems[i].v)} :
       LET item == PerItems[i] IN
       /\ perbuf' = b
       /\ unread' = IF b.ok THEN Append(unread, [type |-> item.type, v |-> item.v, bits |-> b.left - perbuf.left])
                    ELSE unread
       /\ outcome' = [call |-> "PEnc", type |-> item.type, v |-> item.v, ok |-> b.ok]
       /\ spoilt' = (spoilt \/ cut \/ Flawed(item.type, item.v, b.align))
  /\ written' = written + 1
  /\ UNCHANGED cut

PDecode ==
  /\ perbuf.ok /\ unread # <<>>
  /\ \E b \in {PDec(perbuf, Head(unread).type)} :
       /\ perbuf' = [b EXCEPT !.val = <<>>]
       /\ outcome' = [call |-> "PDec", type |-> Head(unread).type, v |-> Head(unread).v, ok |-> b.ok, val |-> b.val]
       /\ cut' = (cut \/ (perbuf.wpos < 8 /\ b.wpos = 8))
  /\ unread' = Tail(unread)
  /\ UNCHANGED <<written, spoilt>>

\* After an exception, or when all is read, another buffer is taken.
NewBuffer ==
  /\ ~perbuf.ok \/ (written = MaxValues /\ unread = <<>>)
  /\ \E align \in BOOLEAN : perbuf' = BufBits(align)
  /\ unread' = <<>> /\ outcome' = NoOutcome /\ written' = 0 /\ cut' = FALSE /\ spoilt' = FALSE

PerNext == PEncode \/ PDecode \/ NewBuffer

-----------------------------------------------------------------------------
\* The elements of a SET OF have no order.
SameValue(type, x, y) ==
  IF type.t = "setof"
  THEN Len(x) = Len(y) /\ \A e \in ToSet(x) \cup ToSet(y) :
         Len(SelectSeq(x, LAMBDA z : z = e)) = Len(SelectSeq(y, LAMBDA z : z = e))
  ELSE x = y

BitsUnread == FoldLeft(LAMBDA n, item : n + item.bits, 0, unread)

(* PEnc refuses a value outside its constraints and no other, and what PEnc *)
(* wrote PDec reads as the same value, using up the bits it was written in: *)
(* whatever was put into the same octets before, wherever an alignment      *)
(* falls, and however writes and reads take turns (PEnc and PDec of the C++ *)
(* library's types, asn-bufbits.cpp, and the printed classes).              *)
PerRoundTrip ==
  ~spoilt =>
    /\ perbuf.ok => perbuf.left = BitsUnread
    /\ outcome.call = "PEnc" => outcome.ok = Allowed(outcome.type, outcome.v)
    /\ outcome.call = "PDec" =>
         outcome.ok /\ SameValue(outcome.type, outcome.val, Fitted(outcome.type, outcome.v))

=============================================================================
