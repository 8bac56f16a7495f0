----------------------------- MODULE ByteStream -----------------------------
(***************************************************************************)
(* What a buffer of the C runtime promises the encoders and decoders,      *)
(* whatever it is made of: while writing, a string of bytes that grows at  *)
(* its front; while reading, the bytes not yet read, which shrink at the   *)
(* front.  No byte is lost, repeated, reordered or made up; a write that   *)
(* cannot be completed is flagged, and the flag stays.                     *)
(*                                                                         *)
(* A single block promises more than a list of them, where a segment is    *)
(* split and a read may stop at the end of a block: WritesWhole, ReadsExact*)
(***************************************************************************)
EXTENDS Integers, Sequences

CONSTANTS
  Byte,        \* the byte values
  MaxLen,      \* bound on the length of a segment
  WritesWhole, \* TRUE if a segment that finds no room is not written at all, and
               \* a later one that does is; FALSE if the part of it that found
               \* room is written, and nothing after it
  ReadsExact   \* TRUE if a read gives all that there is up to what was asked for,
               \* and whatever is missing is flagged for good; FALSE if it may
               \* give less, which only a Copy is sure to flag

VARIABLES
  mode,   \* "write", "read" (what was written) or "installed"
  data,   \* the bytes written, or the bytes still to be read
  fault,  \* a write has failed
  rerr,   \* a read has failed
  req,    \* the request in progress, or NoReq
  ret     \* the bytes the last completed request returned

vars == <<mode, data, fault, rerr, req, ret>>

Segs     == UNION {[1..n -> Byte] : n \in 0..MaxLen}
NoReq    == [op |-> "idle", seg |-> <<>>, len |-> 0]
Requests == [op  : {"PutSegRvs", "Copy", "Skip", "PeekCopy", "GetSeg", "PeekSeg"},
             seg : Segs,
             len : 0..MaxLen]

Front(n) == SubSeq(data, 1, n)
Rest(n)  == SubSeq(data, n + 1, Len(data))

Init ==
  /\ mode = "write" /\ data = <<>> /\ fault = FALSE
  /\ rerr = FALSE /\ req = NoReq /\ ret = <<>>

-----------------------------------------------------------------------------
StartWriting ==
  /\ req = NoReq
  /\ mode' = "write" /\ data' = <<>> /\ fault' = FALSE /\ rerr' = FALSE
  /\ UNCHANGED req /\ ret' = <<>>

\* What was written is what will be read.
StartReading ==
  /\ req = NoReq /\ mode = "write"
  /\ mode' = "read" /\ data' = data /\ fault' = FALSE /\ rerr' = FALSE
  /\ UNCHANGED req /\ ret' = <<>>

\* Bytes of the caller's own.
Install ==
  /\ req = NoReq
  /\ mode' = "installed" /\ data' \in Seq(Byte) /\ fault' = FALSE /\ rerr' = FALSE
  /\ UNCHANGED req /\ ret' = <<>>

DeclareFault ==
  /\ req = NoReq /\ mode = "write" /\ fault' = TRUE
  /\ ret' = <<>> /\ UNCHANGED <<mode, data, rerr, req>>

Request ==
  /\ req = NoReq
  /\ req' \in Requests
  /\ (req'.op = "PutSegRvs") <=> (mode = "write")
  /\ req'.op = "PutSegRvs" => WritesWhole \/ ~fault
  /\ ret' = <<>> /\ UNCHANGED <<mode, data, fault, rerr>>

-----------------------------------------------------------------------------
\* What a write leaves that found no room for all of s.
Unfinished(s) ==
  IF WritesWhole \/ fault THEN {data}
  ELSE {SubSeq(s, n + 1, Len(s)) \o data : n \in 0..Len(s)}

\* The whole segment, or a fault.
Prepend(s) ==
  /\ mode = "write"
  /\ \/ (WritesWhole \/ ~fault) /\ data' = s \o data /\ fault' = fault
     \/ data' \in Unfinished(s) /\ fault' = TRUE
  /\ req' = NoReq /\ ret' = <<>> /\ UNCHANGED <<mode, rerr>>

PutSeg  == req.op = "PutSegRvs" /\ Prepend(req.seg)
PutByte == req = NoReq /\ \E x \in Byte : Prepend(<<x>>)

\* n bytes leave the front of the stream.
Take(n) ==
  /\ n <= Len(data)
  /\ data' = Rest(n)
  /\ req' = NoReq /\ UNCHANGED <<mode, fault>>

\* How many bytes a read for n of them gives.
Given(n) ==
  LET most == IF n <= Len(data) THEN n ELSE Len(data)
  IN IF ReadsExact THEN {most} ELSE 0..most

\* A flag may be left behind with its block, but none is raised without reason.
Flags(short) == IF ReadsExact THEN rerr' = (rerr \/ short) ELSE rerr' => rerr \/ short

CopyOut ==
  /\ req.op = "Copy"
  /\ \E n \in Given(req.len) :
       /\ Take(n) /\ ret' = Front(n)
       /\ Flags(n < req.len) /\ (n < req.len => rerr')

SkipOver ==
  /\ req.op = "Skip"
  /\ \E n \in Given(req.len) : Take(n) /\ ret' = <<>> /\ Flags(n < req.len)

PeekOut ==
  /\ req.op = "PeekCopy"
  /\ \E n \in Given(req.len) : ret' = Front(n) /\ Flags(n < req.len)
  /\ req' = NoReq /\ UNCHANGED <<mode, data, fault>>

\* A buffer that may give less than it was asked for need not say what that was.
Asked(op) ==
  IF req.op = op THEN {req.len} ELSE IF req = NoReq /\ ~ReadsExact THEN 0..MaxLen ELSE {}

\* The segment routines say by their length what they could not give.
TakeSeg ==
  /\ mode # "write"
  /\ \E asked \in Asked("GetSeg") : \E n \in Given(asked) : Take(n) /\ ret' = Front(n)
  /\ Flags(FALSE)

PeekSeg ==
  /\ mode # "write"
  /\ \E asked \in Asked("PeekSeg") : \E n \in Given(asked) : ret' = Front(n)
  /\ req' = NoReq /\ UNCHANGED <<mode, data, fault, rerr>>

\* A single byte is always found while there is one.
TakeByte ==
  /\ req = NoReq /\ mode # "write"
  /\ IF data = <<>> THEN Take(0) /\ ret' = <<>> /\ rerr' = TRUE
                    ELSE Take(1) /\ ret' = Front(1) /\ Flags(FALSE)

\* Past the data, or the block, some byte is returned all the same.
PeekByte ==
  /\ req = NoReq /\ mode # "write"
  /\ \/ data # <<>> /\ ret' = Front(1) /\ rerr' = rerr
     \/ (ReadsExact => data = <<>>) /\ Len(ret') = 1 /\ rerr' = TRUE
  /\ UNCHANGED <<mode, data, fault, req>>

\* All that was written, to a file.
WriteOut ==
  /\ req = NoReq /\ mode = "write"
  /\ ret' = data /\ UNCHANGED <<mode, data, fault, rerr, req>>

Next == \/ WriteOut \/ StartWriting \/ StartReading \/ Install \/ DeclareFault \/ Request
        \/ PutSeg \/ PutByte
        \/ CopyOut \/ SkipOver \/ PeekOut
        \/ TakeSeg \/ PeekSeg \/ TakeByte \/ PeekByte

Spec == Init /\ [][Next]_vars

=============================================================================
