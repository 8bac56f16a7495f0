------------------------------- MODULE TblGen -------------------------------
(***************************************************************************)
(* The forgiving, table-driven decoder (c-lib/src/tbl-gen.c) of berdecode  *)
(* and the Tcl interface.  What does not fit its type is reported to the   *)
(* caller's exception callback and decoded "in simple mode".  A type may   *)
(* be found not to fit after some of its tags were read: they stay on the  *)
(* stack of tags and lengths, and the last "rewindsize" of them are read   *)
(* again from there.                                                       *)
(*                                                                         *)
(* The C calls in progress are the sequence "frames"; a frame of           *)
(* TDEDecodeType or TDESimpleDecode holds its local variables.             *)
(***************************************************************************)
EXTENDS TypeTable

CONSTANTS
  Input,   \* the buffers that are decoded
  StkSize  \* TL_STK_SIZE

ASSUME DecoderAssumption == Input \subseteq Seq(Octet) /\ StkSize \in Nat

VARIABLES
  input,       \* the buffer
  pos,         \* octets of it that have been read
  tlStk,       \* tags and lengths, dec->tlStk[0 .. nTlStk-1]
  rewindsize,  \* how many of them are to be read again
  frames,      \* the calls in progress
  ret,         \* what the last call returned, until its caller has seen it
  bytesDecoded,\* what the decoder reports at its end
  status       \* "running", "done", or after a longjmp "failed" or "stopped"

vars == <<input, pos, tlStk, rewindsize, frames, ret, bytesDecoded, status>>

\* bytes is tmpBytesDecoded; open counts the tags the call has pushed and not
\* popped, base the tags that were open when it began; i is the element type
\* a SEQUENCE has come to.
TypeFrame(t, implicit) ==
  [fn |-> "type", type |-> t, implicit |-> implicit, pc |-> "tags",
   i |-> 1, bytes |-> 0, open |-> 0, base |-> Len(tlStk) - rewindsize]

SimpleFrame ==
  [fn |-> "simple", type |-> Root, implicit |-> FALSE, pc |-> "tags",
   i |-> 1, bytes |-> 0, open |-> 0, base |-> Len(tlStk) - rewindsize]

top  == frames[Len(frames)]
kind == Def[top.type].kind
elmts == Def[top.type].elmts

Update(f) == [frames EXCEPT ![Len(frames)] = f]
At(pc)    == [top EXCEPT !.pc = pc]

Unmoved == UNCHANGED <<input, bytesDecoded, status>>
Unread  == UNCHANGED <<pos, tlStk, rewindsize>>

Call(callee) == frames' = Append(Update(At("await")), callee) /\ ret' = "none"

\* The call returns; its bytes are added to the caller's, if there is one.
Return(value, bytes) ==
  /\ ret' = value
  /\ LET callers == SubSeq(frames, 1, Len(frames) - 1)
         n       == Len(callers)
     IN IF n = 0
        THEN frames' = <<>> /\ status' = "done" /\ bytesDecoded' = bytes
        ELSE /\ frames' = [callers EXCEPT ![n].bytes = @ + bytes]
             /\ UNCHANGED <<status, bytesDecoded>>
  /\ UNCHANGED input

Longjmp(why) ==
  /\ status' = why /\ frames' = <<>> /\ ret' = "none"
  /\ bytesDecoded' = 0
  /\ UNCHANGED <<input, pos, tlStk, rewindsize>>

-----------------------------------------------------------------------------
(* The stack of tags and lengths.                                          *)

LastIndex == Len(tlStk) - rewindsize
LastLen   == tlStk[LastIndex].len

\* Mutant: the stack is not checked to have room.
CanPushUnchecked == rewindsize > 0 \/ HasTL(input, pos)

CanPush == \/ rewindsize > 0
           \/ Len(tlStk) < StkSize /\ HasTL(input, pos)

\* TDEPushTag: the stack, and how much of it is still to be read again.
Pushed == IF rewindsize > 0
          THEN [stk |-> tlStk, rw |-> rewindsize - 1, pos |-> pos]
          ELSE [stk |-> Append(tlStk, TLAt(input, pos)), rw |-> 0, pos |-> pos + TLSize]

PushedTag == LET p == Pushed IN p.stk[Len(p.stk) - p.rw].tag

\* TDEPeekTag.
PeekedTags == IF rewindsize > 0 THEN {tlStk[LastIndex + 1].tag}
                                ELSE PeekTags(input, pos)

\* TDEInTag, as the set of its possible values: with no tag open it reads the
\* memory before the stack.
InTag == IF LastIndex = 0 THEN BOOLEAN
         ELSE IF LastLen = Indefinite THEN {~PeekEoc(input, pos)}
         ELSE {top.bytes < LastLen}

-----------------------------------------------------------------------------
(* TDEPushTagsAndLens and the tag of TDESimpleDecode.                      *)

TagsLeft == SubSeq(EncodedTags(top.type, top.implicit), top.open + 1,
                   Len(EncodedTags(top.type, top.implicit)))

PushFails ==
  /\ top.pc = "tags" /\ ~CanPush
  /\ top.fn = "simple" \/ TagsLeft # <<>>
  /\ Longjmp("failed")

PushMatches ==
  /\ top.fn = "type" /\ top.pc = "tags" /\ TagsLeft # <<>> /\ CanPush
  /\ PushedTag = Head(TagsLeft)
  /\ tlStk' = Pushed.stk /\ rewindsize' = Pushed.rw /\ pos' = Pushed.pos
  /\ frames' = Update([top EXCEPT !.open = @ + 1])
  /\ ret' = "none" /\ Unmoved

\* Mutant: the tags that were already pending are not to be read again.
PushMismatchesForgettingPending ==
  /\ top.fn = "type" /\ top.pc = "tags" /\ TagsLeft # <<>> /\ CanPush
  /\ PushedTag # Head(TagsLeft)
  /\ tlStk' = Pushed.stk /\ pos' = Pushed.pos
  /\ rewindsize' = Len(Pushed.stk) - Len(tlStk)
  /\ Return("false", 0)

\* "return failure AND REWIND TO THE STATE WE WERE IN WHEN CALLED"
PushMismatches ==
  /\ top.fn = "type" /\ top.pc = "tags" /\ TagsLeft # <<>> /\ CanPush
  /\ PushedTag # Head(TagsLeft)
  /\ tlStk' = Pushed.stk /\ pos' = Pushed.pos
  /\ rewindsize' = Len(Pushed.stk) - top.base
  /\ Return("false", 0)

AllPushed ==
  /\ top.fn = "type" /\ top.pc = "tags" /\ TagsLeft = <<>>
  /\ rewindsize' = IF Def[top.type].tags = <<>> THEN rewindsize ELSE 0
  /\ frames' = Update(At("body"))
  /\ ret' = "none" /\ UNCHANGED <<pos, tlStk>> /\ Unmoved

PushSimple ==
  /\ top.fn = "simple" /\ top.pc = "tags" /\ CanPush
  /\ tlStk' = Pushed.stk /\ rewindsize' = Pushed.rw /\ pos' = Pushed.pos
  /\ frames' = Update([top EXCEPT !.open = 1,
                                  !.pc = IF Constructed(PushedTag) THEN "body" ELSE "octets"])
  /\ ret' = "none" /\ Unmoved

-----------------------------------------------------------------------------
(* The bodies.                                                             *)

Body(k) == top.fn = "type" /\ top.pc = "body" /\ kind = k

DecodeRef ==
  /\ Body("ref")
  /\ Call(TypeFrame(Def[top.type].to, ImplicitRef(top.type, top.implicit)))
  /\ Unread /\ Unmoved

DecodeElmt(t) == Call(TypeFrame(t, FALSE)) /\ Unread /\ Unmoved
DecodeSimple  == Call(SimpleFrame) /\ Unread /\ Unmoved
BodyEnds      == frames' = Update(At("pop")) /\ ret' = "none" /\ Unread /\ Unmoved

\* The element the SEQUENCE has come to is there, or it is passed over.
SequenceElmt ==
  /\ Body("seq") /\ top.i <= Len(elmts)
  /\ \E in \in InTag : \E tag \in PeekedTags :
       \/ in /\ TagsMatch(elmts[top.i], tag) /\ DecodeElmt(elmts[top.i])
       \/ /\ ~(in /\ TagsMatch(elmts[top.i], tag))
          /\ frames' = Update([top EXCEPT !.i = @ + 1])
          /\ ret' = "none" /\ Unread /\ Unmoved

\* "process remaining stuff in sequence"
SequenceRest ==
  /\ Body("seq") /\ top.i > Len(elmts)
  /\ \/ TRUE \in InTag /\ DecodeSimple
     \/ FALSE \in InTag /\ BodyEnds

SetElmt ==
  /\ Body("set")
  /\ \/ /\ TRUE \in InTag
        /\ \E tag \in PeekedTags :
             \/ \E i \in FirstMatch(top.type, tag) : DecodeElmt(elmts[i])
             \/ Matching(top.type, tag) = {} /\ DecodeSimple
     \/ FALSE \in InTag /\ BodyEnds

ListElmt ==
  /\ Body("of")
  /\ \/ TRUE \in InTag /\ DecodeElmt(elmts[1])
     \/ FALSE \in InTag /\ BodyEnds

DecodeChoice ==
  /\ Body("choice")
  /\ \/ /\ TRUE \in InTag
        /\ \E tag \in PeekedTags :
             \/ \E i \in FirstMatch(top.type, tag) : DecodeElmt(elmts[i])
             \/ Matching(top.type, tag) = {} /\ DecodeSimple
     \/ FALSE \in InTag /\ DecodeSimple

\* The content of an INTEGER or a BOOLEAN.
DecodeContent ==
  /\ top.fn = "type" /\ top.pc = "body" /\ kind \in {"int", "bool"}
  /\ \/ /\ ContentDecodes(kind, LastLen, Len(input) - pos)
        /\ pos' = pos + ContentOctets(kind, LastLen)
        /\ frames' = Update([At("pop") EXCEPT !.bytes = LastLen])
        /\ ret' = "none" /\ UNCHANGED <<tlStk, rewindsize>> /\ Unmoved
     \/ /\ ~ContentDecodes(kind, LastLen, Len(input) - pos)
        /\ Longjmp("failed")

SimpleBody ==
  /\ top.fn = "simple" /\ top.pc = "body"
  /\ \/ TRUE \in InTag /\ DecodeSimple
     \/ FALSE \in InTag /\ BodyEnds

\* The octets of a primitive value, as many as there are; nobody looks whether
\* they were all there.  A primitive value of indefinite form, which BER does not
\* have, asks for 2^w - 1 octets of memory: the decoding comes to its end there.
SimpleOctets ==
  /\ top.fn = "simple" /\ top.pc = "octets"
  /\ \/ /\ LastLen # Indefinite
        /\ pos' = pos + AtMost(LastLen, Len(input) - pos)
        /\ frames' = Update([At("pop") EXCEPT !.bytes = LastLen])
        /\ ret' = "none" /\ UNCHANGED <<tlStk, rewindsize>> /\ Unmoved
     \/ LastLen = Indefinite /\ Longjmp("failed")

-----------------------------------------------------------------------------
(* The call has returned: a reference or an element that did not fit is    *)
(* decoded in simple mode, except by a SEQUENCE, which tries it again.     *)

CalleeDecoded ==
  /\ top.pc = "await" /\ ret = "true"
  /\ frames' = Update(
       CASE top.fn = "type" /\ kind \in {"ref", "choice"} -> At("pop")
         [] top.fn = "type" /\ kind = "seq" /\ top.i <= Len(elmts)
              -> [At("body") EXCEPT !.i = @ + 1]
         [] OTHER -> At("body"))
  /\ ret' = "none" /\ Unread /\ Unmoved

\* Mutant: a list tries its element again, as a SEQUENCE does.
CalleeRefusedTriesAgain ==
  /\ top.pc = "await" /\ ret = "false"
  /\ \/ /\ kind \in {"seq", "of"}
        /\ frames' = Update(At("body"))
        /\ ret' = "none" /\ Unread /\ Unmoved
     \/ kind \notin {"seq", "of"} /\ DecodeSimple

\* Mutant: what was refused is passed over.
CalleeRefusedPassedOver ==
  /\ top.pc = "await" /\ ret = "false"
  /\ frames' = Update(At("pop"))
  /\ ret' = "none" /\ Unread /\ Unmoved

CalleeRefused ==
  /\ top.pc = "await" /\ ret = "false"
  /\ \/ /\ kind = "seq"
        /\ frames' = Update(At("body"))
        /\ ret' = "none" /\ Unread /\ Unmoved
     \/ kind # "seq" /\ DecodeSimple

-----------------------------------------------------------------------------
(* TDEPopTagsAndLens, and the return.                                      *)

\* Mutant: the octets of the EOC are not counted.
PopTagWithoutEoc ==
  /\ top.pc = "pop" /\ top.open > 0
  /\ IF LastLen = Indefinite THEN HasEoc(input, pos) ELSE top.bytes = LastLen
  /\ pos' = IF LastLen = Indefinite THEN pos + EocSize ELSE pos
  /\ frames' = Update([top EXCEPT !.open = @ - 1, !.bytes = @ + TLSize])
  /\ tlStk' = SubSeq(tlStk, 1, Len(tlStk) - 1)
  /\ ret' = "none" /\ UNCHANGED rewindsize /\ Unmoved

PopTag ==
  /\ top.pc = "pop" /\ top.open > 0
  /\ IF LastLen = Indefinite THEN HasEoc(input, pos) ELSE top.bytes = LastLen
  /\ pos' = IF LastLen = Indefinite THEN pos + EocSize ELSE pos
  /\ frames' = Update([top EXCEPT !.open = @ - 1,
                 !.bytes = @ + TLSize + (IF LastLen = Indefinite THEN EocSize ELSE 0)])
  /\ tlStk' = SubSeq(tlStk, 1, Len(tlStk) - 1)
  /\ ret' = "none" /\ UNCHANGED rewindsize /\ Unmoved

PopFails ==
  /\ top.pc = "pop" /\ top.open > 0
  /\ ~(IF LastLen = Indefinite THEN HasEoc(input, pos) ELSE top.bytes = LastLen)
  /\ Longjmp("failed")

PopReturns ==
  /\ top.pc = "pop" /\ top.open = 0
  /\ Return("true", top.bytes) /\ Unread

-----------------------------------------------------------------------------
\* TDEDecodeSpecific gives every variable of the decoder a new value, so a later
\* decoding by the same program begins here too.
Init ==
  /\ input \in Input /\ pos = 0
  /\ tlStk = <<>> /\ rewindsize = 0 /\ bytesDecoded = 0
  /\ frames = <<TypeFrame(Root, FALSE)>>
  /\ ret = "none" /\ status = "running"

\* A callback that returns nonzero ends the decoding; some callback is called
\* at almost every step.
CallbackStops == status = "running" /\ Longjmp("stopped")

Tags  == PushFails \/ PushMatches \/ PushMismatches \/ AllPushed \/ PushSimple
Bodies == \/ DecodeRef \/ SequenceElmt \/ SequenceRest \/ SetElmt \/ ListElmt
          \/ DecodeChoice \/ DecodeContent \/ SimpleBody \/ SimpleOctets
Returns == CalleeDecoded \/ CalleeRefused \/ PopTag \/ PopFails \/ PopReturns

Step == status = "running" /\ (Tags \/ Bodies \/ Returns)

Next == Step \/ CallbackStops

Spec     == Init /\ [][Next]_vars
FairSpec == Spec /\ WF_vars(Step)

-----------------------------------------------------------------------------
(* Correctness.                                                            *)

Frame == [fn : {"type", "simple"}, type : Type, implicit : BOOLEAN,
          pc : {"tags", "body", "octets", "await", "pop"},
          i : Nat, bytes : Nat, open : Nat, base : Nat]

TypeOK ==
  /\ input \in Seq(Octet) /\ pos \in 0..Len(input)
  /\ tlStk \in Seq(TagNLen) /\ Len(tlStk) <= StkSize
  /\ rewindsize \in 0..Len(tlStk)
  /\ frames \in Seq(Frame) /\ (frames # <<>>) = (status = "running")
  /\ ret \in {"none", "true", "false"}
  /\ bytesDecoded \in Nat
  /\ status \in {"running", "done", "failed", "stopped"}

(* However tags are refused and read again, no call loses a tag it has     *)
(* open: each finds at its place in the stack the tags of its own type, the*)
(* calls below it keep to theirs, and what is to be read again lies above  *)
(* them all (TDEPushTag, TDEPopTag, TDEPushTagsAndLens).                   *)
TagsInPlace ==
  status = "running" =>
    /\ top.base + top.open <= LastIndex
    /\ \A n \in DOMAIN frames :
         LET f == frames[n]
         IN /\ n < Len(frames) => f.base + f.open <= frames[n + 1].base
            /\ f.fn = "type" =>
                 \A k \in 1..f.open :
                   tlStk[f.base + k].tag = EncodedTags(f.type, f.implicit)[k]

(* And the stack holds nothing else, so that LAST_LEN, by which every loop *)
(* ends, is the length of the innermost open tag (TDEInTag, TDEPopTag).    *)
(* It stays so on the inputs of the run, and on every input of a table     *)
(* whose types have one tag each; a type that ends while several tags are  *)
(* pending can leave some of them in the stack for good (tbl-gen.c:252).   *)
StackMatchesCalls ==
  /\ TagsInPlace
  /\ status = "running" =>
       /\ frames[1].base = 0
       /\ LastIndex = top.base + top.open
       /\ \A n \in 1..(Len(frames) - 1) :
            frames[n + 1].base = frames[n].base + frames[n].open

(* "Still rewinding at end of tag" (tbl-gen.c:265): when the tags of a type*)
(* are popped, every tag that was put back has been read again.  Not so    *)
(* when the refused tag has no content: what follows it is pending and is  *)
(* popped in its place.                                                    *)
NotRewindingAtEndOfTag ==
  status = "running" /\ top.fn = "type" /\ top.pc = "pop" /\ top.open > 0
    => rewindsize = 0

(* What the decoder reports is what it took from the buffer, although tags *)
(* are counted when they are popped and may be read twice; only content    *)
(* that is cut short at the end of the data is counted whole               *)
(* (TDESimpleDecode, TDEPopTag).                                           *)
ConsumedAsReported ==
  status = "done" /\ ret = "true" =>
    bytesDecoded = pos \/ (bytesDecoded > pos /\ pos = Len(input))

(* The decoder comes to its end on every buffer, whatever does not fit its *)
(* type being decoded in simple mode (tbl-gen.c, TDEDecodeType).           *)
Terminates == <>(status # "running")

=============================================================================
